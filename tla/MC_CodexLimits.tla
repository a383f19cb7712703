--------------------------- MODULE MC_CodexLimits ---------------------------
(***************************************************************************)
(* Small configurations for CodexLimits: the shared client with two idle   *)
(* times and with another command, a client per request, and no limits.    *)
(***************************************************************************)
EXTENDS CodexLimits

CONSTANTS c1, c2

Shared == [mode |-> "shared", cmd |-> c1, idle |-> 1]

AllConfigs ==
    {Shared,
     [mode |-> "shared", cmd |-> c2, idle |-> 1],
     [mode |-> "once", cmd |-> c1, idle |-> 1],
     [mode |-> "off", cmd |-> c1, idle |-> 1]}

\* The owner changes nothing but the idle time.
IdleConfigs == {Shared, [Shared EXCEPT !.idle = 2]}
=============================================================================
