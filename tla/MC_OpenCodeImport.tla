-------------------------- MODULE MC_OpenCodeImport --------------------------
(* OpenCodeImport for TLC: two files are watched, and what can go wrong in   *)
(* one does not depend on how much there is in the other.  So a history has  *)
(* either MaxMessages rows, of which one in a database that takes the place  *)
(* of the first, and no token log, or a single row, and MaxLines lines of it *)
(* in the first token log or in the one that takes its place.                *)
EXTENDS OpenCodeImport

OnlyMessages ==
    /\ file = <<>> /\ ~partial /\ gen = 0
    /\ inst = 0 \/ Len(messages) <= 1

OneMessage == Len(messages) <= 1 /\ inst = 0

Small == OnlyMessages \/ OneMessage

MCNext ==
    \/ MessageAdded /\ Small'
    \/ MessageUpdated
    \/ DatabaseReplaced /\ Small'
    \/ LineBegun /\ Small'
    \/ LineEnded /\ Small'
    \/ TokenLogReplaced /\ Small'
    \/ Push
    \/ ImportStep
    \/ FailImport

MCSpec == Init /\ [][MCNext]_vars /\ WF_vars(ImportStep)
=============================================================================
