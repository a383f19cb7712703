---------------------------- MODULE MC_ImportRuns ----------------------------
(* The threads for the runs of ImportRuns.                                 *)
EXTENDS ImportRuns

CONSTANTS h1, h2

TwoHandlers == {h1, h2}
=============================================================================
