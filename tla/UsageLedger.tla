----------------------------- MODULE UsageLedger -----------------------------
(***************************************************************************)
(* What the Codex import promises: the calls the analytics database counts *)
(* are a function of the log rows before the import cursor, and of nothing *)
(* else.  Where one import ended and the next began, and which of them     *)
(* failed half-way, leaves no trace.                                       *)
(*                                                                         *)
(* The function is stated on the log alone, with no store and no order of  *)
(* statements: which response, estimate and usage report is the last of    *)
(* its kind, and which usage reports an event has completed.               *)
(***************************************************************************)
EXTENDS Naturals, Sequences, FiniteSets

CONSTANTS Entries, NoId, IdOf(_)

VARIABLES
    log,        \* the Codex log
    cursor,     \* rows the ledger accounts for
    ledger      \* what is counted: id, turn, counts and how often

vars == <<log, cursor, ledger>>

\* Log rows among the first n of one kind
Rows(l, n, kind) == {i \in 1 .. n : l[i].kind = kind}

\* The rows of S no later row of S has the id of
LastOfId(l, S) == {i \in S : \A j \in S : j > i => IdOf(l[j]) # IdOf(l[i])}

Reports(l, n) == Rows(l, n, "event") \cup Rows(l, n, "estimate")

Named(l, n) == {i \in Reports(l, n) : IdOf(l[i]) # NoId}

Nameless(l, n) == {i \in Reports(l, n) : IdOf(l[i]) = NoId}

(***************************************************************************)
(* Report j (a response event or an estimate) completes a usage row of the *)
(* same turn and counts that is still open, unless its id is counted       *)
(* already.                                                                *)
(***************************************************************************)
Completes(l, j, i) ==
    /\ l[j].turn = l[i].turn
    /\ l[j].tok = l[i].tok
    /\ \A k \in Named(l, j - 1) : IdOf(l[k]) # IdOf(l[j])

OpenUsage(l, n) ==
    {i \in LastOfId(l, Rows(l, n, "usage")) :
        \A j \in Reports(l, n) : j > i => ~Completes(l, j, i)}

Once(l, S) == {[rid |-> IdOf(l[i]), turn |-> l[i].turn, tok |-> l[i].tok, times |-> 1] : i \in S}

Repeated(l, S) ==
    {[rid |-> NoId, turn |-> l[i].turn, tok |-> l[i].tok,
      times |-> Cardinality({j \in S : l[j].turn = l[i].turn /\ l[j].tok = l[i].tok})] : i \in S}

Accounts(l, n) ==
    Once(l, LastOfId(l, Named(l, n)) \cup OpenUsage(l, n)) \cup Repeated(l, Nameless(l, n))

Init == log = <<>> /\ cursor = 0 /\ ledger = {}

LogGrows ==
    /\ \E e \in Entries : log' = Append(log, e)
    /\ UNCHANGED <<cursor, ledger>>

Account ==
    /\ cursor' \in cursor .. Len(log)
    /\ ledger' = Accounts(log, cursor')
    /\ UNCHANGED log

Next == LogGrows \/ Account

Spec == Init /\ [][Next]_vars
=============================================================================
