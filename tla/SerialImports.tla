---------------------------- MODULE SerialImports ----------------------------
(***************************************************************************)
(* What app/services/data_refresh.py promises those who read IMPORT_STATE   *)
(* and the analytics: as if there were a single importer, without threads   *)
(* and locks.  It imports Codex and then OpenCode, each once in a run; a    *)
(* source is imported completely or, when it fails, not at all and the      *)
(* other one nevertheless; and the state that is published belongs to the   *)
(* run under way, or to the last one.                                       *)
(***************************************************************************)
EXTENDS Naturals

Sources == {"codex", "opencode"}

VARIABLES
    rows,       \* rows each source has logged
    configured, \* sources whose files are there
    data,       \* rows of each source that analytics.sqlite holds
    state,      \* IMPORT_STATE
    stage,      \* where the importer stands: "off", at a source, or "publish"
    errors      \* sources that failed in the run under way

vars == <<rows, configured, data, state, stage, errors>>

Nothing == [s \in Sources |-> 0]

Init ==
    /\ rows = Nothing /\ data = Nothing
    /\ configured \in SUBSET Sources
    /\ state = [status |-> "idle", error |-> {}]
    /\ stage = "off" /\ errors = {}

LogGrows ==
    /\ \E s \in configured : rows' = [rows EXCEPT ![s] = @ + 1]
    /\ UNCHANGED <<configured, data, state, stage, errors>>

Begin ==
    /\ stage = "off"
    /\ stage' = "codex" /\ errors' = {}
    /\ state' = [status |-> "running", error |-> {}]
    /\ UNCHANGED <<rows, configured, data>>

After(s) == IF s = "codex" THEN "opencode" ELSE "publish"

Import(s) ==
    /\ stage = s /\ stage' = After(s)
    /\ data' = [data EXCEPT ![s] = IF s \in configured THEN rows[s] ELSE @]
    /\ UNCHANGED <<rows, configured, state, errors>>

Fail(s) ==
    /\ stage = s /\ stage' = After(s)
    /\ errors' = errors \cup {s}
    /\ UNCHANGED <<rows, configured, data, state>>

Publish ==
    /\ stage = "publish" /\ stage' = "off"
    /\ state' = [status |-> IF errors = {} THEN "succeeded" ELSE "failed", error |-> errors]
    /\ errors' = {}
    /\ UNCHANGED <<rows, configured, data>>

\* The process ends, within a run or between two.
Restart ==
    /\ stage' = "off" /\ errors' = {}
    /\ state' = [status |-> "idle", error |-> {}]
    /\ UNCHANGED <<rows, configured, data>>

Next ==
    \/ LogGrows \/ Begin \/ Publish \/ Restart
    \/ \E s \in Sources : Import(s) \/ Fail(s)

Spec == Init /\ [][Next]_vars
=============================================================================
