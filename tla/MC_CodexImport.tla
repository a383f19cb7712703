--------------------------- MODULE MC_CodexImport ---------------------------
(* Log rows for the runs of CodexImport.                                   *)
EXTENDS CodexImport

CONSTANTS t1, t2, k1, k2, r1

Of(kind, t, k) == [kind |-> kind, turn |-> t, tok |-> k, resp |-> NoId, input |-> FALSE]

Event(t, k, id, input) == [kind |-> "event", turn |-> t, tok |-> k, resp |-> id, input |-> input]

Genuine ==
    {Of("noise", t1, k1), Of("request", t1, k1),
     Of("usage", t1, k1), Of("usage", t1, k2), Of("usage", t2, k1),
     Of("estimate", t1, k1),
     Event(t1, k1, ResponseId(r1), TRUE), Event(t1, k2, ResponseId(r1), FALSE),
     Event(t1, k1, NoId, FALSE)}

WithQuotes ==
    {Of("noise", t1, k1), Of("request", t1, k1),
     Of("usage", t1, k1), Of("usage", t2, k1), Of("quoted", t1, k1), Of("quoted", t1, k2),
     Event(t1, k1, ResponseId(r1), TRUE)}
=============================================================================
