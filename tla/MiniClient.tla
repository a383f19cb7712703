------------------------------ MODULE MiniClient ------------------------------
(***************************************************************************)
(* The desktop mini client (desktop/mini_client.py, MiniClientApp): one tab *)
(* per source, and three actors that share its attributes.  The Tkinter     *)
(* thread takes user events, the poll timer and the queue of callbacks; at  *)
(* most one worker thread asks the HTTP server; and the server's analytics  *)
(* change meanwhile, or the server dies and is started again by the worker. *)
(*                                                                          *)
(* Rows are the source and the time they were read at, where time is the    *)
(* version of the analytics.  A window that is closed ends the process and  *)
(* the behaviours of this module.                                           *)
(***************************************************************************)
EXTENDS Naturals, Sequences

CONSTANTS
    Sources,            \* SOURCE_CHOICES
    FirstTab,           \* the source whose tab is shown at the start
    MaxVersion,         \* bound: versions of the analytics
    MaxInputs,          \* bound: what the user selects, presses or raises
    MaxFaults           \* bound: requests, callbacks and servers that fail

ASSUME ClientSourcesAssumption == FirstTab \in Sources
ASSUME ClientBoundsAssumption ==
    MaxVersion \in Nat \ {0} /\ MaxInputs \in Nat /\ MaxFaults \in Nat

VARIABLES
    version,        \* version of the analytics, as /api/state reports it
    changed,        \* version at which the rows of each source changed last
    server,         \* who serves the API, if anyone
    children,       \* live server processes this client has started
    selected,       \* tab selected in the notebook
    active,         \* active_source
    raised,         \* tabs whose row limit was raised
    shown,          \* rows and source context in each tab's table and frame
    dataVersion,    \* data_version, 0 for None
    timer,          \* whether poll_after_id is set
    running,        \* worker_running
    job,            \* the worker's request_snapshot and how far it got
    uiQueue,        \* ui_queue
    recent,         \* a server was started less than SERVER_START_RETRY_SECONDS ago
    overtaken,      \* the worker's query is no longer the one asked for (history)
    excused,        \* why a tab may show what it should not (history)
    inputs,         \* inputs so far (history, bounded)
    faults          \* faults so far (history, bounded)

serverVars == <<version, changed, server, children>>

uiVars == <<selected, active, raised, shown, dataVersion>>

workerVars == <<timer, running, job, recent>>

counters == <<inputs, faults>>

clientVars ==
    <<serverVars, uiVars, workerVars, uiQueue, overtaken, excused, counters>>

Excuses == {"overtaken", "order", "failed", "buckets"}

\* What load_rows, load_source_context and the version brought together
Contents == [of: Sources, at: Nat, more: BOOLEAN, tasks: BOOLEAN, context: Sources]

Jobs == [by: {"poll", "reload", "import"}, source: Sources, more: BOOLEAN,
         pc: {"run", "recover", "ended"}, version: Nat, at: Nat, retried: BOOLEAN]

Callbacks ==
    [do: {"rows", "context"}, content: Contents, version: Nat,
     by: {"poll", "reload", "import"}]
        \cup [do: {"finish"}]

ClientTypeOK ==
    /\ version \in 1 .. MaxVersion
    /\ changed \in [Sources -> 1 .. MaxVersion]
    /\ server \in {"outside", "own", "down"}
    /\ children \in Nat
    /\ selected \in Sources /\ active \in Sources /\ raised \subseteq Sources
    /\ shown \in [Sources -> Contents]
    /\ dataVersion \in 0 .. MaxVersion
    /\ timer \in BOOLEAN /\ running \in BOOLEAN /\ recent \in BOOLEAN
    /\ job \in Jobs
    /\ uiQueue \in Seq(Callbacks)
    /\ overtaken \in BOOLEAN
    /\ excused \in [Sources -> SUBSET Excuses]
    /\ inputs \in Nat /\ faults \in Nat

-----------------------------------------------------------------------------
(* Requests of the worker.                                                 *)

RequestSnapshot(by, source, more) ==
    [by |-> by, source |-> source, more |-> more,
     pc |-> "run", version |-> 0, at |-> 0, retried |-> FALSE]

NoJob == [RequestSnapshot("poll", FirstTab, FALSE) EXCEPT !.pc = "ended"]

EmptyTable(s) == [of |-> s, at |-> 0, more |-> FALSE, tasks |-> TRUE, context |-> s]

\* __init__ ends with refresh(import_first=False).
ClientInit ==
    /\ version = 1 /\ changed = [s \in Sources |-> 1]
    /\ server \in {"outside", "down"} /\ children = 0
    /\ selected = FirstTab /\ active = FirstTab /\ raised = {}
    /\ shown = [s \in Sources |-> EmptyTable(s)]
    /\ dataVersion = 0
    /\ timer = FALSE /\ running = TRUE
    /\ job = RequestSnapshot("reload", FirstTab, FALSE)
    /\ recent = FALSE
    /\ uiQueue = <<>>
    /\ overtaken = FALSE /\ excused = [s \in Sources |-> {}]
    /\ inputs = 0 /\ faults = 0

\* What the worker leaves in the queue.  /api/refresh answers with a dashboard,
\* whose tasks are the buckets of the range, as no task_mode is asked for.
Callback(do) ==
    [do |-> do, version |-> job.version, by |-> job.by,
     content |-> [of |-> job.source, at |-> job.at, more |-> job.more,
                  tasks |-> job.by # "import", context |-> job.source]]

\* Mutant: the worker is done before what it brought is rendered.
Finished_First(callbacks) == <<[do |-> "finish"]>> \o callbacks

\* _finish_worker is the last callback.
Finished(callbacks) == callbacks \o <<[do |-> "finish"]>>

\* Only the query is of interest now.
Ends(callbacks) ==
    /\ uiQueue' = uiQueue \o Finished(callbacks)
    /\ job' = [RequestSnapshot("poll", job.source, job.more) EXCEPT !.pc = "ended"]

Input == inputs < MaxInputs /\ inputs' = inputs + 1 /\ UNCHANGED faults

Fault == faults < MaxFaults /\ faults' = faults + 1 /\ UNCHANGED inputs

-----------------------------------------------------------------------------
(* Worker thread: _poll_worker and _refresh_worker.                        *)

Asking == job.pc = "run" /\ server # "down"

\* Mutant: a poll takes the rows first, too.
VersionFirst_Import == job.by = "import"

\* poll_once and /api/refresh take the version first, refresh_once the rows.
VersionFirst == job.by # "reload"

\* data_version is read when the answer is there, not with the snapshot.
VersionChanged == job.by # "poll" \/ dataVersion = 0 \/ version # dataVersion

ReadVersion ==
    /\ Asking
    /\ job.version = 0
    /\ VersionFirst \/ job.at # 0
    /\ VersionChanged
    /\ job' = [job EXCEPT !.version = version]
    /\ UNCHANGED <<serverVars, uiVars, timer, running, recent, uiQueue, overtaken, excused, counters>>

\* Nothing new; limits or costs are asked for if theirs is the time.
NothingChanged ==
    /\ Asking
    /\ job.version = 0
    /\ ~VersionChanged
    /\ Ends(<<>>) \/ Ends(<<Callback("context")>>)
    /\ UNCHANGED <<serverVars, uiVars, timer, running, recent, overtaken, excused, counters>>

ReadRows ==
    /\ Asking
    /\ job.at = 0
    /\ VersionFirst => job.version # 0
    /\ job' = [job EXCEPT !.at = version]
    /\ UNCHANGED <<serverVars, uiVars, timer, running, recent, uiQueue, overtaken, excused, counters>>

\* set_error.  When the version is known, no poll asks again for the rows.
EndsInError ==
    /\ Ends(<<>>)
    /\ excused' = IF job.by = "reload" /\ dataVersion # 0
                  THEN [excused EXCEPT ![job.source] = @ \cup {"failed"}]
                  ELSE excused

Deliver ==
    /\ job.pc = "run"
    /\ job.at # 0 /\ job.version # 0
    /\ Ends(<<Callback("rows")>>)
    /\ UNCHANGED <<serverVars, uiVars, timer, running, recent, overtaken, excused, counters>>

\* A time-out or an answer that is an error
RequestFails ==
    /\ Asking
    /\ Fault
    /\ EndsInError
    /\ UNCHANGED <<serverVars, uiVars, timer, running, recent, overtaken>>

-----------------------------------------------------------------------------
(* run_with_api_recovery: a refused connection starts a server, once for    *)
(* an operation and once in SERVER_START_RETRY_SECONDS.                     *)

\* Mutant: a child that is still starting is not waited for.
NeedsServer_Always == TRUE

NeedsServer == children = 0

ConnectionRefused ==
    /\ job.pc = "run" /\ server = "down"
    /\ job.at = 0 \/ job.version = 0
    /\ IF job.retried \/ recent
       THEN EndsInError /\ UNCHANGED <<children, recent>>
       ELSE /\ recent' = TRUE
            /\ children' = IF NeedsServer THEN children + 1 ELSE children
            /\ job' = [job EXCEPT !.pc = "recover"]
            /\ UNCHANGED <<uiQueue, excused>>
    /\ UNCHANGED <<version, changed, server, uiVars, timer, running, overtaken, counters>>

\* wait_for_api has got an answer: the operation is run again.
Recovered ==
    /\ job.pc = "recover" /\ server # "down"
    /\ job' = [job EXCEPT !.pc = "run", !.version = 0, !.at = 0, !.retried = TRUE]
    /\ UNCHANGED <<serverVars, uiVars, timer, running, recent, uiQueue, overtaken, excused, counters>>

RecoveryFails ==
    /\ job.pc = "recover" /\ server = "down"
    /\ EndsInError
    /\ UNCHANGED <<serverVars, uiVars, timer, running, recent, overtaken, counters>>

RetryWindowPasses ==
    /\ recent
    /\ recent' = FALSE
    /\ UNCHANGED <<serverVars, uiVars, timer, running, job, uiQueue, overtaken, excused, counters>>

WorkerStep ==
    \/ ReadVersion \/ NothingChanged \/ ReadRows \/ Deliver \/ RequestFails
    \/ ConnectionRefused \/ Recovered \/ RecoveryFails

-----------------------------------------------------------------------------
(* Tkinter thread.  A <<NotebookTabChanged>> event is handled before what   *)
(* comes due later, but the poll timer may have been due already.           *)

NoEventPending == selected = active

StartWorker(by, source, more) ==
    /\ timer' = FALSE
    /\ running' = TRUE
    /\ job' = RequestSnapshot(by, source, more)

\* The limit in the snapshot is that of active_source.
PollForUpdates ==
    /\ timer
    /\ ~running
    /\ StartWorker("poll", selected, active \in raised)
    /\ UNCHANGED <<serverVars, uiVars, recent, uiQueue, overtaken, excused, counters>>

TabSelected ==
    /\ NoEventPending
    /\ Input
    /\ selected' \in Sources \ {active}
    /\ UNCHANGED <<serverVars, active, raised, shown, dataVersion, workerVars, uiQueue, overtaken, excused>>

\* refresh(import_first=False) is dropped while a worker is running, which
\* then goes on with a query that may not be this one.
Refresh(source, more) ==
    /\ IF running THEN UNCHANGED <<timer, running, job>>
       ELSE StartWorker("reload", source, more)
    /\ overtaken' = (running /\ <<job.source, job.more>> # <<source, more>>)

\* Mutant: the version of the former tab is kept.
VersionOnSwitch_Kept == dataVersion

VersionOnSwitch == 0

SwitchSource ==
    /\ selected # active
    /\ active' = selected
    /\ dataVersion' = VersionOnSwitch
    /\ Refresh(selected, selected \in raised)
    /\ UNCHANGED <<serverVars, selected, raised, shown, recent, uiQueue, excused, counters>>

\* agent_refresh_or_save for the tab that is shown
RaiseLimit ==
    /\ NoEventPending
    /\ active \notin raised
    /\ Input
    /\ raised' = raised \cup {active}
    /\ Refresh(active, TRUE)
    /\ excused' = [excused EXCEPT ![active] = IF running THEN @ \cup {"overtaken"} ELSE @]
    /\ UNCHANGED <<serverVars, selected, active, shown, dataVersion, recent, uiQueue>>

\* The Refresh button: refresh(import_first=True)
PressRefresh ==
    /\ NoEventPending
    /\ ~running
    /\ Input
    /\ StartWorker("import", active, active \in raised)
    /\ UNCHANGED <<serverVars, uiVars, recent, uiQueue, overtaken, excused>>

Draining(do) ==
    /\ NoEventPending
    /\ uiQueue # <<>>
    /\ Head(uiQueue).do = do
    /\ uiQueue' = Tail(uiQueue)

\* Why what is rendered now need not be what the tab and its version ask for
Causes(callback) ==
    (IF overtaken THEN {"overtaken"} ELSE {}) \cup
    (IF callback.by = "import" THEN {"buckets"} ELSE {}) \cup
    (IF callback.by = "reload" /\ callback.content.at < callback.version
     THEN {"order"} ELSE {})

\* render_rows fills the table of active_source, whoever asked for the rows.
RenderRows ==
    /\ Draining("rows")
    /\ dataVersion' = Head(uiQueue).version
    /\ shown' = [shown EXCEPT ![active] = Head(uiQueue).content]
    /\ excused' = [excused EXCEPT ![active] = Causes(Head(uiQueue))]
    /\ UNCHANGED <<serverVars, selected, active, raised, workerVars, overtaken, counters>>

\* An exception in it is logged, and the version stays set.
RenderRowsFails ==
    /\ Draining("rows")
    /\ Fault
    /\ dataVersion' = Head(uiQueue).version
    /\ excused' = [excused EXCEPT ![active] = @ \cup {"failed"}]
    /\ UNCHANGED <<serverVars, selected, active, raised, shown, workerVars, overtaken>>

RenderSourceContext ==
    /\ Draining("context")
    /\ shown' = [shown EXCEPT ![active].context = Head(uiQueue).content.context]
    /\ excused' = [excused EXCEPT ![active] = @ \cup Causes(Head(uiQueue))]
    /\ UNCHANGED <<serverVars, selected, active, raised, dataVersion, workerVars, overtaken, counters>>

\* _finish_worker: only now the timer is set again.
FinishWorker ==
    /\ Draining("finish")
    /\ running' = FALSE
    /\ timer' = TRUE
    /\ overtaken' = FALSE
    /\ job' = NoJob
    /\ UNCHANGED <<serverVars, uiVars, recent, excused, counters>>

-----------------------------------------------------------------------------
(* The server: imports change the analytics, processes come and go.  Only   *)
(* one can claim the port.                                                  *)

DataChanges ==
    /\ version < MaxVersion
    /\ version' = version + 1
    /\ \E s \in Sources : changed' = [changed EXCEPT ![s] = version']
    /\ UNCHANGED <<server, children, uiVars, workerVars, uiQueue, overtaken, excused, counters>>

\* Mutant: any server that dies is taken for a child.
ChildrenLeft_Any == children - 1

ChildrenLeft == IF server = "own" THEN children - 1 ELSE children

ServerDies ==
    /\ server # "down"
    /\ Fault
    /\ server' = "down"
    /\ children' = ChildrenLeft
    /\ UNCHANGED <<version, changed, uiVars, workerVars, uiQueue, overtaken, excused>>

ChildServes ==
    /\ server = "down"
    /\ children > 0
    /\ server' = "own"
    /\ UNCHANGED <<version, changed, children, uiVars, workerVars, uiQueue, overtaken, excused, counters>>

ChildExits ==
    /\ server = "down"
    /\ children > 0
    /\ Fault
    /\ children' = children - 1
    /\ UNCHANGED <<version, changed, server, uiVars, workerVars, uiQueue, overtaken, excused>>

UserStep == TabSelected \/ RaiseLimit \/ PressRefresh

EventLoopStep ==
    \/ PollForUpdates \/ SwitchSource
    \/ RenderRows \/ RenderRowsFails \/ RenderSourceContext \/ FinishWorker

ServerStep == DataChanges \/ ServerDies \/ ChildServes \/ ChildExits

ClientNext == WorkerStep \/ RetryWindowPasses \/ EventLoopStep \/ UserStep \/ ServerStep

(***************************************************************************)
(* Requests have a time-out, the event loop runs, a server that was         *)
(* started comes up unless it exits, and time passes.                       *)
(***************************************************************************)
ClientSpec ==
    /\ ClientInit /\ [][ClientNext]_clientVars
    /\ WF_clientVars(WorkerStep) /\ WF_clientVars(EventLoopStep)
    /\ WF_clientVars(ChildServes) /\ WF_clientVars(RetryWindowPasses)

-----------------------------------------------------------------------------
(* Properties.                                                             *)

(***************************************************************************)
(* A tab never shows another source's rows, limits or costs, unless it was  *)
(* selected, or its limit raised, while a worker was under way with another *)
(* query.                                                                   *)
(***************************************************************************)
TabsShowTheirOwn ==
    \A s \in Sources :
        shown[s].of # s \/ shown[s].context # s => "overtaken" \in excused[s]

(***************************************************************************)
(* architecture.md:98-102: a recovery child is single-flight.               *)
(***************************************************************************)
OneRecoveryChild == children <= 1

\* All that the server has for a tab is in its table.
UpToDate(s) ==
    /\ shown[s].of = s /\ shown[s].at >= changed[s]
    /\ shown[s].more = (s \in raised) /\ shown[s].tasks

(***************************************************************************)
(* A poll that is going to find its version unchanged hides nothing: the    *)
(* tab on screen has all that there is, or there is a reason why not.  That *)
(* takes render_rows, switch_source, refresh_once, poll_once and set_error, *)
(* which set data_version or leave it as it is.                             *)
(***************************************************************************)
PollsHideNothing ==
    NoEventPending /\ ~running /\ dataVersion = version
        => UpToDate(active) \/ excused[active] # {}

(***************************************************************************)
(* The tab on screen catches up with the analytics whenever these rest,     *)
(* although tabs are switched, requests fail and the server dies; unless    *)
(* rows of another query, of an older version, or the buckets that the      *)
(* Refresh button brings, were rendered with the present version.           *)
(***************************************************************************)
ClientCatchesUp == []<>(UpToDate(active) \/ excused[active] # {})

(***************************************************************************)
(* pending-tasks.md:368-369: mini and web refreshes "do not silently show   *)
(* stale imported rows".                                                    *)
(***************************************************************************)
NoSilentlyStaleRows == []<>(shown[active].at >= changed[active])
=============================================================================
