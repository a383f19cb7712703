---------------------------- MODULE MC_RawArchive ----------------------------
(* Changes of the retention window for the runs of RawArchive.             *)
EXTENDS RawArchive

Narrowed == {<<2, 1>>}

WidenedAndNarrowed == {<<1, 2>>, <<2, 1>>}
=============================================================================
