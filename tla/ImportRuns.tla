----------------------------- MODULE ImportRuns -----------------------------
(***************************************************************************)
(* Who imports, and when: app/services/data_refresh.py and the threads     *)
(* that call it.  POST /api/refresh and POST /api/import are served by a   *)
(* thread each, and the server may run a background thread that imports    *)
(* again and again (app/api/server.py).  All of them go through run_import,*)
(* which serialises them with IMPORT_LOCK, imports Codex and then OpenCode *)
(* and publishes what it does in IMPORT_STATE, under STATE_LOCK, for       *)
(* readers that take no part in the imports.                               *)
(*                                                                         *)
(* The import of one source is one step here: all of its rows or, when it  *)
(* raises, none (CodexImport shows how).  The server may die at any point. *)
(***************************************************************************)
EXTENDS Naturals, FiniteSets

CONSTANTS
    Handlers,       \* threads that serve refresh and import requests
    Background,     \* the background import thread
    Nobody,         \* stands for the holder of a lock that is free
    MaxRows,        \* bound: rows a source logs
    MaxFailures     \* bound: imports and warnings that raise, and crashes

ASSUME ThreadAssumption == Background \notin Handlers /\ Nobody \notin Handlers \cup {Background}
ASSUME RunBoundsAssumption == MaxRows \in Nat /\ MaxFailures \in Nat

Sources == {"codex", "opencode"}

Threads == Handlers \cup {Background}

VARIABLES
    rows,       \* rows each source that is configured has logged
    configured, \* sources whose files the configuration names and finds
    mode,       \* auto_import_seconds: positive, zero or negative
    data,       \* rows of each source that analytics.sqlite holds
    lock,       \* IMPORT_LOCK: its holder, or Nobody
    state,      \* IMPORT_STATE: the status, and the sources error names
    pc,         \* where each thread stands
    call,       \* what each thread serves
    failed,     \* the sources whose import raised in the thread's run
    asked,      \* rows logged when the thread was asked to refresh (history)
    overtaken,  \* a later run began before the thread read the status (history)
    failures    \* failures so far (history, bounded)

vars == <<rows, configured, mode, data, lock, state, pc, call, failed, asked, overtaken, failures>>

environment == <<rows, configured, mode>>

history == <<asked, overtaken>>

Stages == {"idle", "asleep", "ended", "waiting", "warnings", "codex", "opencode",
           "publish", "release", "status", "load"}

Importing(t) == pc[t] \in {"codex", "opencode", "publish"}

TypeOK ==
    /\ rows \in [Sources -> 0 .. MaxRows]
    /\ configured \subseteq Sources
    /\ mode \in {"loop", "once", "never"}
    /\ data \in [Sources -> 0 .. MaxRows]
    /\ lock \in Threads \cup {Nobody}
    /\ state \in [status: {"idle", "running", "succeeded", "failed"}, error: SUBSET Sources]
    /\ pc \in [Threads -> Stages]
    /\ call \in [Threads -> {"refresh", "import", "auto"}]
    /\ failed \in [Threads -> SUBSET Sources]
    /\ asked \in [Threads -> [Sources -> 0 .. MaxRows]]
    /\ overtaken \in [Threads -> BOOLEAN]
    /\ failures \in 0 .. MaxFailures

IdleState == [status |-> "idle", error |-> {}]

\* start_import_thread: the server is up, and the background thread sleeps.
Rested(m) == [t \in Threads |-> IF t \in Handlers THEN "idle"
                                ELSE IF m = "never" THEN "ended" ELSE "asleep"]

NoRows == [s \in Sources |-> 0]

Init ==
    /\ rows = NoRows
    /\ configured \in SUBSET Sources
    /\ mode \in {"loop", "once", "never"}
    /\ data = NoRows
    /\ lock = Nobody
    /\ state = IdleState
    /\ pc = Rested(mode)
    /\ call = [t \in Threads |-> IF t = Background THEN "auto" ELSE "refresh"]
    /\ failed = [t \in Threads |-> {}]
    /\ asked = [t \in Threads |-> NoRows]
    /\ overtaken = [t \in Threads |-> FALSE]
    /\ failures = 0

-----------------------------------------------------------------------------
(* The sources and the clients.                                            *)

SourceLogs ==
    /\ \E s \in configured : rows[s] < MaxRows /\ rows' = [rows EXCEPT ![s] = @ + 1]
    /\ UNCHANGED <<configured, mode, data, lock, state, pc, call, failed, history, failures>>

Asks(t, kind) ==
    /\ pc' = [pc EXCEPT ![t] = "waiting"]
    /\ call' = [call EXCEPT ![t] = kind]
    /\ asked' = [asked EXCEPT ![t] = IF kind = "refresh" THEN rows ELSE NoRows]
    /\ UNCHANGED <<environment, data, lock, state, failed, overtaken, failures>>

\* do_POST
ClientAsks(h) == pc[h] = "idle" /\ \E kind \in {"refresh", "import"} : Asks(h, kind)

\* auto_import_loop and the delays before it
AutoWakes == pc[Background] = "asleep" /\ Asks(Background, "auto")

-----------------------------------------------------------------------------
(* run_import.                                                             *)

\* Mutant: an import request does not wait for the lock.
MayEnter_ImportAnyway(t) == lock = Nobody \/ call[t] = "import"

MayEnter(t) == lock = Nobody

AcquireLock(t) ==
    /\ pc[t] = "waiting"
    /\ MayEnter(t)
    /\ lock' = t
    /\ pc' = [pc EXCEPT ![t] = "warnings"]
    /\ UNCHANGED <<environment, data, state, call, failed, history, failures>>

\* Mutant: an exception ends the background loop.
AfterRaise_LoopEnds(t) == IF call[t] = "auto" THEN "ended" ELSE "idle"

\* Where an exception of run_import takes a thread, but for a refresh
AfterRaise(t) ==
    IF call[t] # "auto" THEN "idle" ELSE IF mode = "loop" THEN "asleep" ELSE "ended"

\* The locals of run_import are gone.
Forget(t) ==
    /\ failed' = [failed EXCEPT ![t] = {}]
    /\ asked' = [asked EXCEPT ![t] = NoRows]
    /\ overtaken' = [overtaken EXCEPT ![t] = FALSE]

\* Mutant: the lock is not a context manager.
LockAfterRaise_Kept == lock

LockAfterRaise == Nobody

(***************************************************************************)
(* source_warnings reads the configuration and may raise: the lock is      *)
(* released, IMPORT_STATE is as before, and run_import_capture, which      *)
(* expects RuntimeError, lets the exception end the request.               *)
(***************************************************************************)
WarningsRaise(t) ==
    /\ pc[t] = "warnings"
    /\ failures < MaxFailures
    /\ failures' = failures + 1
    /\ lock' = LockAfterRaise
    /\ pc' = [pc EXCEPT ![t] = AfterRaise(t)]
    /\ Forget(t)
    /\ UNCHANGED <<environment, data, state, call>>

\* Mutant: the error of the run before stays.
RunningState_KeepsError == [status |-> "running", error |-> state.error]

RunningState == [status |-> "running", error |-> {}]

BeginRun(t) ==
    /\ pc[t] = "warnings"
    /\ state' = RunningState
    /\ overtaken' = [u \in Threads |-> overtaken[u] \/ pc[u] = "status"]
    /\ pc' = [pc EXCEPT ![t] = "codex"]
    /\ UNCHANGED <<environment, data, lock, call, failed, asked, failures>>

Following == [codex |-> "opencode", opencode |-> "publish"]

\* import_codex_logs, import_opencode_sources: without its files a source
\* is skipped, and that is no error.
ImportSource(t, s) ==
    /\ pc[t] = s
    /\ data' = IF s \in configured THEN [data EXCEPT ![s] = rows[s]] ELSE data
    /\ pc' = [pc EXCEPT ![t] = Following[s]]
    /\ UNCHANGED <<environment, lock, state, call, failed, history, failures>>

\* Mutant: a failing source ends the run.
AfterFailure_Ends(s) == "publish"

\* The exception is caught, and the next source has its turn.
AfterFailure(s) == Following[s]

SourceFails(t, s) ==
    /\ pc[t] = s
    /\ failures < MaxFailures
    /\ failures' = failures + 1
    /\ failed' = [failed EXCEPT ![t] = @ \cup {s}]
    /\ pc' = [pc EXCEPT ![t] = AfterFailure(s)]
    /\ UNCHANGED <<environment, data, lock, state, call, history>>

\* Mutant: the outcome of the last source is taken for that of the run.
FinalState_LastSource(errors) ==
    [status |-> IF "opencode" \in errors THEN "failed" ELSE "succeeded", error |-> errors]

\* Mutant: a run is "completed", as a turn is.
FinalState_AsTurn(errors) ==
    [status |-> IF errors = {} THEN "completed" ELSE "failed", error |-> errors]

FinalState(errors) ==
    [status |-> IF errors = {} THEN "succeeded" ELSE "failed", error |-> errors]

PublishRun(t) ==
    /\ pc[t] = "publish"
    /\ state' = FinalState(failed[t])
    /\ pc' = [pc EXCEPT ![t] = "release"]
    /\ UNCHANGED <<environment, data, lock, call, failed, history, failures>>

(***************************************************************************)
(* The lock goes before the result is used: an import request is answered  *)
(* or ends in the exception, the loop goes to sleep, and a refresh goes on *)
(* without the lock.                                                       *)
(***************************************************************************)
ReleaseLock(t) ==
    /\ pc[t] = "release"
    /\ lock' = Nobody
    /\ IF call[t] = "refresh"
       THEN pc' = [pc EXCEPT ![t] = "status"] /\ UNCHANGED <<failed, history>>
       ELSE pc' = [pc EXCEPT ![t] = AfterRaise(t)] /\ Forget(t)
    /\ UNCHANGED <<environment, data, state, call, failures>>

\* run_import_capture: import_status()
ReadStatus(t) ==
    /\ pc[t] = "status"
    /\ pc' = [pc EXCEPT ![t] = "load"]
    /\ UNCHANGED <<environment, data, lock, state, call, failed, history, failures>>

\* refresh_dashboard: the dashboard is loaded and the request answered.
LoadDashboard(t) ==
    /\ pc[t] = "load"
    /\ pc' = [pc EXCEPT ![t] = "idle"]
    /\ Forget(t)
    /\ UNCHANGED <<environment, data, lock, state, call, failures>>

\* The process dies with its threads and is started again.
ServerRestarts ==
    /\ failures < MaxFailures
    /\ failures' = failures + 1
    /\ lock' = Nobody
    /\ state' = IdleState
    /\ pc' = Rested(mode)
    /\ failed' = [t \in Threads |-> {}]
    /\ asked' = [t \in Threads |-> NoRows]
    /\ overtaken' = [t \in Threads |-> FALSE]
    /\ UNCHANGED <<environment, data, call>>

RunStep(t) ==
    \/ BeginRun(t) \/ PublishRun(t) \/ ReleaseLock(t) \/ ReadStatus(t) \/ LoadDashboard(t)
    \/ \E s \in Sources : ImportSource(t, s)

Raises(t) == WarningsRaise(t) \/ \E s \in Sources : SourceFails(t, s)

Next ==
    \/ SourceLogs \/ AutoWakes \/ ServerRestarts
    \/ \E h \in Handlers : ClientAsks(h)
    \/ \E t \in Threads : AcquireLock(t) \/ RunStep(t) \/ Raises(t)

Spec == Init /\ [][Next]_vars

(***************************************************************************)
(* Threads run on, the background thread wakes after its interval, and a   *)
(* thread that waits for a lock which is free again and again gets it.     *)
(***************************************************************************)
Fairness ==
    /\ WF_vars(AutoWakes)
    /\ \A t \in Threads : WF_vars(RunStep(t)) /\ SF_vars(AcquireLock(t))

FairSpec == Spec /\ Fairness
-----------------------------------------------------------------------------
(* Properties.                                                             *)

(***************************************************************************)
(* Imports never overlap, and IMPORT_STATE says "running" exactly while    *)
(* one is under way: no exception, no crash and no reader leaves a status  *)
(* that stays "running" for ever (run_import, source_warnings).            *)
(***************************************************************************)
RunningIsTrue ==
    /\ \A t, u \in Threads : Importing(t) /\ Importing(u) => t = u
    /\ state.status = "running" <=> \E t \in Threads : Importing(t)

(***************************************************************************)
(* The status a refresh reports agrees with the error it reports, unless a *)
(* later run began after it had released the lock (run_import_capture).    *)
(***************************************************************************)
StatusAgrees ==
    \A t \in Threads :
        pc[t] = "status" /\ ~overtaken[t]
            => /\ state.status = IF failed[t] = {} THEN "succeeded" ELSE "failed"
               /\ state.error = failed[t]

(***************************************************************************)
(* A refresh answers with everything each source had logged when it was    *)
(* asked, but for the sources it reports as failed: it imports itself, and *)
(* never makes do with an import that had begun before.                    *)
(***************************************************************************)
RefreshIsFresh ==
    \A t \in Threads :
        pc[t] \in {"status", "load"} =>
            \A s \in configured \ failed[t] : data[s] >= asked[t][s]

(***************************************************************************)
(* A request is answered, or dropped with an exception, in the end.        *)
(***************************************************************************)
RequestsEnd == \A h \in Handlers : pc[h] = "waiting" ~> pc[h] = "idle"

(***************************************************************************)
(* With background imports on, every row a configured source logs is       *)
(* imported, although the other source, the warnings or the whole process  *)
(* fail (auto_import_loop).                                                *)
(***************************************************************************)
EventuallyImported ==
    \A s \in Sources : \A n \in 1 .. MaxRows :
        mode = "loop" /\ s \in configured /\ rows[s] >= n ~> data[s] >= n

(***************************************************************************)
(* To those who read IMPORT_STATE and the analytics, the threads look like  *)
(* one importer that does one run after another: whatever requests and      *)
(* background imports meet, fail or die, no run's sources or outcome are    *)
(* mixed with another's (run_import, IMPORT_LOCK).                          *)
(***************************************************************************)
Importer == CHOOSE t \in Threads : Importing(t)

SerialStage == IF \E t \in Threads : Importing(t) THEN pc[Importer] ELSE "off"

SerialErrors == IF \E t \in Threads : Importing(t) THEN failed[Importer] ELSE {}

Serial == INSTANCE SerialImports WITH stage <- SerialStage, errors <- SerialErrors

ImplementsSerial == Serial!Spec
=============================================================================
