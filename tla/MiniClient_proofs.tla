--------------------------- MODULE MiniClient_proofs ---------------------------
(***************************************************************************)
(* Proofs about the mini client, for any sources, inputs and faults: its    *)
(* worker and tables, its settings file and its signals.                    *)
(***************************************************************************)
EXTENDS MiniClient, MiniSettings, MiniSignals, SequenceTheorems, TLAPS

Finish == [do |-> "finish"]

Answers ==
    [do: {"rows", "context"}, content: Contents, version: Nat,
     by: {"poll", "reload", "import"}]

\* A callback of the worker that is under way, with a version there was
Own(c) ==
    /\ c.version <= MaxVersion
    /\ c.content.of = job.source /\ c.content.context = job.source

\* The queue holds at most what one worker left, and the worker is not
\* replaced before that is drained.
QueueShape ==
    \/ uiQueue = <<>>
    \/ /\ running /\ job.pc = "ended"
       /\ Len(uiQueue) \in {1, 2}
       /\ uiQueue[Len(uiQueue)] = Finish
       /\ Len(uiQueue) = 2 => uiQueue[1] \in Answers /\ Own(uiQueue[1])

\* A worker that was not overtaken asks for the tab that is shown.
InStep == NoEventPending /\ running /\ ~overtaken => job.source = active

WorkerSound ==
    /\ job.pc # "ended" => running
    /\ job.pc # "ended" => uiQueue = <<>>
    /\ job.version <= MaxVersion

IInv == ClientTypeOK /\ QueueShape /\ InStep /\ WorkerSound /\ TabsShowTheirOwn

ChildInv == children \in {0, 1} /\ (server = "own" => children = 1)

-----------------------------------------------------------------------------
(* Sets and records.                                                       *)

LEMMA FinishIsCallback == Finish \in Callbacks
  BY DEF Finish, Callbacks

LEMMA AnswersAreCallbacks == Answers \subseteq Callbacks
  BY DEF Answers, Callbacks

LEMMA SnapshotType ==
  ASSUME NEW b \in {"poll", "reload", "import"}, NEW s \in Sources, NEW m \in BOOLEAN
  PROVE  /\ RequestSnapshot(b, s, m) \in Jobs
         /\ [RequestSnapshot(b, s, m) EXCEPT !.pc = "ended"] \in Jobs
         /\ RequestSnapshot(b, s, m).source = s /\ RequestSnapshot(b, s, m).pc = "run"
         /\ RequestSnapshot(b, s, m).version = 0
         /\ [RequestSnapshot(b, s, m) EXCEPT !.pc = "ended"].source = s
         /\ [RequestSnapshot(b, s, m) EXCEPT !.pc = "ended"].pc = "ended"
         /\ [RequestSnapshot(b, s, m) EXCEPT !.pc = "ended"].version = 0
  BY DEF RequestSnapshot, Jobs

\* Each step of a query writes one field of the job.
LEMMA JobFields ==
  ASSUME NEW j \in Jobs, NEW v \in Nat
  PROVE  /\ [j EXCEPT !.version = v] \in Jobs
         /\ [j EXCEPT !.version = v].source = j.source
         /\ [j EXCEPT !.version = v].pc = j.pc
         /\ [j EXCEPT !.version = v].version = v
         /\ [j EXCEPT !.at = v] \in Jobs
         /\ [j EXCEPT !.at = v].source = j.source
         /\ [j EXCEPT !.at = v].pc = j.pc
         /\ [j EXCEPT !.at = v].version = j.version
  BY DEF Jobs

LEMMA JobAgain ==
  ASSUME NEW j \in Jobs, NEW k,
         k = [j EXCEPT !.pc = "run", !.version = 0, !.at = 0, !.retried = TRUE]
  PROVE  k \in Jobs /\ k.source = j.source /\ k.pc = "run" /\ k.version = 0
  BY DEF Jobs

LEMMA CallbackType ==
  ASSUME ClientTypeOK, WorkerSound, NEW do \in {"rows", "context"}
  PROVE  Callback(do) \in Answers /\ Own(Callback(do))
<1>1. job \in Jobs
  BY DEF ClientTypeOK
<1>2. [of |-> job.source, at |-> job.at, more |-> job.more,
       tasks |-> job.by # "import", context |-> job.source] \in Contents
  BY <1>1 DEF Jobs, Contents
<1> QED
  BY <1>1, <1>2 DEF Callback, Answers, Own, Jobs, WorkerSound

LEMMA Pair ==
  ASSUME NEW q \in Seq(Callbacks), Len(q) = 2
  PROVE  Tail(q) \in Seq(Callbacks) /\ Len(Tail(q)) = 1 /\ Tail(q)[1] = q[2]
<1>1. q # <<>>
  OBVIOUS
<1>2. /\ Tail(q) \in Seq(Callbacks) /\ Len(Tail(q)) = 1
      /\ \A i \in 1 .. Len(Tail(q)) : Tail(q)[i] = q[i + 1]
  BY <1>1, HeadTailProperties
<1> QED
  BY <1>2

LEMMA Joined ==
  ASSUME NEW c \in Callbacks, NEW f \in Callbacks
  PROVE  LET q == <<>> \o (<<c>> \o <<f>>)
         IN  q \in Seq(Callbacks) /\ Len(q) = 2 /\ q[1] = c /\ q[2] = f
  OBVIOUS

LEMMA Alone ==
  ASSUME NEW f \in Callbacks
  PROVE  LET q == <<>> \o (<<>> \o <<f>>)
         IN  q \in Seq(Callbacks) /\ Len(q) = 1 /\ q[1] = f
  OBVIOUS

\* What the worker leaves when it ends
LEMMA EndsSound ==
  ASSUME IInv, job.pc # "ended", UNCHANGED running,
         \/ Ends(<<>>)
         \/ \E do \in {"rows", "context"} : Ends(<<Callback(do)>>)
  PROVE  /\ uiQueue' \in Seq(Callbacks) /\ job' \in Jobs
         /\ job'.source = job.source
         /\ QueueShape' /\ WorkerSound'
<1>1. /\ job \in Jobs /\ running /\ uiQueue = <<>> /\ MaxVersion \in Nat
      /\ job.source \in Sources /\ job.more \in BOOLEAN
  BY ClientBoundsAssumption DEF IInv, ClientTypeOK, WorkerSound, Jobs
<1>2. job' = [RequestSnapshot("poll", job.source, job.more) EXCEPT !.pc = "ended"]
  BY DEF Ends
<1>3. /\ job' \in Jobs /\ job'.source = job.source
      /\ job'.pc = "ended" /\ job'.version = 0
  BY <1>1, <1>2, SnapshotType
<1>4. WorkerSound'
  BY <1>1, <1>3 DEF WorkerSound
<1>5. CASE Ends(<<>>)
  <2>1. uiQueue' = <<>> \o (<<>> \o <<Finish>>)
    BY <1>1, <1>5 DEF Ends, Finished, Finish
  <2> QED
    BY <1>1, <1>3, <1>4, <2>1, Alone, FinishIsCallback DEF QueueShape
<1>6. ASSUME NEW do \in {"rows", "context"}, Ends(<<Callback(do)>>)
      PROVE  uiQueue' \in Seq(Callbacks) /\ QueueShape'
  <2>1. Callback(do) \in Answers /\ Own(Callback(do))
    BY CallbackType DEF IInv
  <2>2. uiQueue' = <<>> \o (<<Callback(do)>> \o <<Finish>>)
    BY <1>1, <1>6 DEF Ends, Finished, Finish
  <2>3. /\ uiQueue' \in Seq(Callbacks) /\ Len(uiQueue') = 2
        /\ uiQueue'[1] = Callback(do) /\ uiQueue'[2] = Finish
    BY <2>1, <2>2, Joined, FinishIsCallback, AnswersAreCallbacks
  <2>4. /\ uiQueue'[1].version <= MaxVersion
        /\ uiQueue'[1].content.of = job'.source
        /\ uiQueue'[1].content.context = job'.source
    BY <1>3, <2>1, <2>3 DEF Own
  <2> QED
    BY <1>1, <1>3, <2>1, <2>3, <2>4 DEF QueueShape, Own
<1> QED
  BY <1>3, <1>4, <1>5, <1>6

-----------------------------------------------------------------------------
(* The worker.                                                             *)

\* A worker that goes on with its query
LEMMA JobGoesOn ==
  ASSUME IInv, job.pc # "ended", job' \in Jobs, job'.source = job.source,
         job'.pc # "ended", job'.version <= MaxVersion,
         UNCHANGED <<running, uiQueue>>
  PROVE  QueueShape' /\ WorkerSound'
<1>1. running /\ uiQueue = <<>>
  BY DEF IInv, WorkerSound
<1> QED
  BY <1>1 DEF QueueShape, WorkerSound

LEMMA InStepKept ==
  ASSUME IInv, job'.source = job.source, UNCHANGED <<selected, active, running, overtaken>>
  PROVE  InStep'
  BY DEF IInv, InStep, NoEventPending

\* Nobody touches a table.
LEMMA TablesKept ==
  ASSUME IInv, UNCHANGED <<shown, excused>> PROVE TabsShowTheirOwn'
  BY DEF IInv, TabsShowTheirOwn

\* What happens outside the tables, the worker and the queue
LEMMA Elsewhere ==
  ASSUME IInv, ClientTypeOK', UNCHANGED <<job, running, uiQueue, shown, excused>>, InStep'
  PROVE  IInv'
<1>1. QueueShape' /\ WorkerSound'
  BY DEF IInv, QueueShape, Own, WorkerSound
<1> QED
  BY <1>1, TablesKept DEF IInv

LEMMA ErrorExcuse ==
  ASSUME IInv, EndsInError
  PROVE  excused' \in [Sources -> SUBSET Excuses] /\ (UNCHANGED shown => TabsShowTheirOwn')
<1>1. job.source \in Sources /\ excused \in [Sources -> SUBSET Excuses]
  BY DEF IInv, ClientTypeOK, Jobs
<1>2. \/ excused' = excused
      \/ excused' = [excused EXCEPT ![job.source] = @ \cup {"failed"}]
  BY DEF EndsInError
<1>3. /\ excused' \in [Sources -> SUBSET Excuses]
      /\ \A s \in Sources : excused[s] \subseteq excused'[s]
  BY <1>1, <1>2 DEF Excuses
<1> QED
  BY <1>3 DEF IInv, TabsShowTheirOwn

LEMMA FaultType == ClientTypeOK /\ Fault => faults' \in Nat /\ inputs' \in Nat
  BY ClientBoundsAssumption DEF ClientTypeOK, Fault

LEMMA InputType == ClientTypeOK /\ Input => faults' \in Nat /\ inputs' \in Nat
  BY ClientBoundsAssumption DEF ClientTypeOK, Input

\* Everything but the worker and the queue keeps its type.
Others ==
    /\ version \in 1 .. MaxVersion /\ changed \in [Sources -> 1 .. MaxVersion]
    /\ server \in {"outside", "own", "down"} /\ children \in Nat
    /\ selected \in Sources /\ active \in Sources /\ raised \subseteq Sources
    /\ shown \in [Sources -> Contents] /\ dataVersion \in 0 .. MaxVersion
    /\ timer \in BOOLEAN /\ running \in BOOLEAN /\ recent \in BOOLEAN
    /\ overtaken \in BOOLEAN
    /\ excused \in [Sources -> SUBSET Excuses]
    /\ inputs \in Nat /\ faults \in Nat

LEMMA TypesSplit ==
  /\ ClientTypeOK <=> Others /\ job \in Jobs /\ uiQueue \in Seq(Callbacks)
  /\ ClientTypeOK' <=> Others' /\ job' \in Jobs /\ uiQueue' \in Seq(Callbacks)
  BY DEF ClientTypeOK, Others

LEMMA WorkerKeeps == IInv /\ WorkerStep => IInv'
<1> SUFFICES ASSUME IInv, WorkerStep PROVE IInv'
  OBVIOUS
<1> USE DEF serverVars, uiVars, counters
<1>0. /\ Others /\ job \in Jobs /\ uiQueue \in Seq(Callbacks) /\ ClientTypeOK
      /\ MaxVersion \in Nat \ {0}
  BY TypesSplit, ClientBoundsAssumption DEF IInv
<1>1. CASE ReadVersion
  <2>1. Others' /\ job.pc # "ended" /\ uiQueue' = uiQueue
    BY <1>0, <1>1 DEF ReadVersion, Asking, Others
  <2>2. /\ job' \in Jobs /\ job'.source = job.source /\ job'.pc # "ended"
        /\ job'.version <= MaxVersion
    <3>1. version \in Nat /\ version <= MaxVersion
      BY <1>0 DEF Others
    <3> QED
      BY <1>0, <1>1, <2>1, <3>1, JobFields DEF ReadVersion
  <2> QED
    BY <1>0, <1>1, <2>1, <2>2, TypesSplit, JobGoesOn, InStepKept, TablesKept DEF ReadVersion, IInv
<1>2. CASE NothingChanged
  <2>1. Others' /\ job.pc # "ended"
    BY <1>0, <1>2 DEF NothingChanged, Asking, Others
  <2> QED
    BY <1>0, <1>2, <2>1, TypesSplit, EndsSound, InStepKept, TablesKept
    DEF NothingChanged, IInv
<1>3. CASE ReadRows
  <2>1. Others' /\ job.pc # "ended" /\ uiQueue' = uiQueue
    BY <1>0, <1>3 DEF ReadRows, Asking, Others
  <2>2. /\ job' \in Jobs /\ job'.source = job.source /\ job'.pc # "ended"
        /\ job'.version = job.version
    <3>1. version \in Nat
      BY <1>0 DEF Others
    <3> QED
      BY <1>0, <1>3, <2>1, <3>1, JobFields DEF ReadRows
  <2>3. job.version <= MaxVersion
    BY DEF IInv, WorkerSound
  <2> QED
    BY <1>0, <1>3, <2>1, <2>2, <2>3, TypesSplit, JobGoesOn, InStepKept, TablesKept DEF ReadRows, IInv
<1>4. CASE Deliver
  <2>1. Others' /\ job.pc # "ended"
    BY <1>0, <1>4 DEF Deliver, Others
  <2> QED
    BY <1>0, <1>4, <2>1, TypesSplit, EndsSound, InStepKept, TablesKept DEF Deliver, IInv
<1>5. CASE RequestFails
  <2>1. job.pc # "ended" /\ EndsInError /\ Ends(<<>>)
    BY <1>5 DEF RequestFails, Asking, EndsInError
  <2>2. Others'
    BY <1>0, <1>5, <2>1, ErrorExcuse, FaultType DEF RequestFails, Others
  <2> QED
    BY <1>0, <1>5, <2>1, <2>2, TypesSplit, EndsSound, InStepKept, ErrorExcuse
    DEF RequestFails, IInv
<1>6. CASE ConnectionRefused
  <2>1. CASE job.retried \/ recent
    <3>1. job.pc # "ended" /\ EndsInError /\ Ends(<<>>)
      BY <1>6, <2>1 DEF ConnectionRefused, EndsInError
    <3>2. Others'
      BY <1>0, <1>6, <2>1, <3>1, ErrorExcuse DEF ConnectionRefused, Others
    <3> QED
      BY <1>0, <1>6, <3>1, <3>2, TypesSplit, EndsSound, InStepKept, ErrorExcuse
      DEF ConnectionRefused, IInv
  <2>2. CASE ~(job.retried \/ recent)
    <3>1. Others' /\ job.pc # "ended" /\ uiQueue' = uiQueue /\ excused' = excused
      BY <1>0, <1>6, <2>2 DEF ConnectionRefused, Others
    <3>2. /\ job' \in Jobs /\ job'.source = job.source /\ job'.pc # "ended"
          /\ job'.version = job.version
      BY <1>0, <1>6, <2>2 DEF ConnectionRefused, Jobs
    <3>3. job.version <= MaxVersion
      BY DEF IInv, WorkerSound
    <3> QED
      BY <1>0, <1>6, <3>1, <3>2, <3>3, TypesSplit, JobGoesOn, InStepKept, TablesKept
      DEF ConnectionRefused, IInv
  <2> QED
    BY <2>1, <2>2
<1>7. CASE Recovered
  <2>1. Others' /\ job.pc # "ended" /\ uiQueue' = uiQueue
    BY <1>0, <1>7 DEF Recovered, Others
  <2>2. /\ job' \in Jobs /\ job'.source = job.source /\ job'.pc # "ended"
        /\ job'.version <= MaxVersion
    <3>1. job' = [job EXCEPT !.pc = "run", !.version = 0, !.at = 0, !.retried = TRUE]
      BY <1>7 DEF Recovered
    <3>2. /\ job' \in Jobs /\ job'.source = job.source
          /\ job'.pc = "run" /\ job'.version = 0
      BY <1>0, <3>1, JobAgain
    <3> QED
      BY <1>0, <3>2
  <2> QED
    BY <1>0, <1>7, <2>1, <2>2, TypesSplit, JobGoesOn, InStepKept, TablesKept DEF Recovered, IInv
<1>8. CASE RecoveryFails
  <2>1. job.pc # "ended" /\ EndsInError /\ Ends(<<>>)
    BY <1>8 DEF RecoveryFails, EndsInError
  <2>2. Others'
    BY <1>0, <1>8, <2>1, ErrorExcuse DEF RecoveryFails, Others
  <2> QED
    BY <1>0, <1>8, <2>1, <2>2, TypesSplit, EndsSound, InStepKept, ErrorExcuse
    DEF RecoveryFails, IInv
<1> QED
  BY <1>1, <1>2, <1>3, <1>4, <1>5, <1>6, <1>7, <1>8 DEF WorkerStep

-----------------------------------------------------------------------------
(* The event loop and the user.                                            *)

\* Without a worker there is nothing in the queue.
LEMMA IdleIsDrained == IInv /\ ~running => uiQueue = <<>> /\ job.pc = "ended"
  BY DEF IInv, QueueShape, WorkerSound

\* A worker that starts, with the query the tab asks for
LEMMA StartSound ==
  ASSUME IInv, ~running, UNCHANGED uiQueue,
         NEW by \in {"poll", "reload", "import"},
         NEW source \in Sources, NEW more \in BOOLEAN, StartWorker(by, source, more)
  PROVE  /\ running' = TRUE /\ timer' = FALSE
         /\ job' \in Jobs /\ job'.source = source
         /\ QueueShape' /\ WorkerSound'
<1>1. uiQueue = <<>> /\ MaxVersion \in Nat
  BY IdleIsDrained, ClientBoundsAssumption
<1>2. job' = RequestSnapshot(by, source, more) /\ running' = TRUE /\ timer' = FALSE
  BY DEF StartWorker
<1>3. job' \in Jobs /\ job'.source = source /\ job'.version = 0
  BY <1>2 DEF RequestSnapshot, Jobs
<1> QED
  BY <1>1, <1>2, <1>3 DEF QueueShape, WorkerSound

\* A refresh is dropped while a worker is under way.
LEMMA RefreshSound ==
  ASSUME IInv, UNCHANGED uiQueue,
         NEW source \in Sources, NEW more \in BOOLEAN, Refresh(source, more)
  PROVE  /\ running' = TRUE /\ timer' \in BOOLEAN /\ overtaken' \in BOOLEAN
         /\ job' \in Jobs /\ (~overtaken' => job'.source = source)
         /\ QueueShape' /\ WorkerSound'
<1>1. ClientTypeOK
  BY DEF IInv
<1>2. CASE running
  <2>1. /\ UNCHANGED <<timer, running, job>>
        /\ overtaken' = (<<job.source, job.more>> # <<source, more>>)
    BY <1>2 DEF Refresh
  <2>2. QueueShape' /\ WorkerSound'
    BY <2>1 DEF IInv, QueueShape, Own, WorkerSound
  <2> QED
    BY <1>1, <1>2, <2>1, <2>2 DEF ClientTypeOK
<1>3. CASE ~running
  <2>1. StartWorker("reload", source, more) /\ overtaken' = FALSE
    BY <1>3 DEF Refresh
  <2> QED
    BY <1>3, <2>1, StartSound
<1> QED
  BY <1>1, <1>2, <1>3 DEF ClientTypeOK

LEMMA TimerKeeps == IInv /\ PollForUpdates => IInv'
<1> SUFFICES ASSUME IInv, PollForUpdates PROVE IInv'
  OBVIOUS
<1> USE DEF serverVars, uiVars, counters
<1>0. /\ Others /\ ~running /\ selected \in Sources /\ "poll" \in {"poll", "reload", "import"}
      /\ StartWorker("poll", selected, active \in raised)
      /\ uiQueue' = uiQueue /\ uiQueue \in Seq(Callbacks)
  BY TypesSplit DEF IInv, PollForUpdates, Others
<1>1. /\ running' = TRUE /\ timer' = FALSE /\ job' \in Jobs /\ job'.source = selected
      /\ QueueShape' /\ WorkerSound'
  <2> DEFINE more == active \in raised
  <2>1. more \in BOOLEAN
    OBVIOUS
  <2>2. StartWorker("poll", selected, more)
    BY <1>0
  <2> HIDE DEF more
  <2> QED
    BY <1>0, <2>1, <2>2, StartSound
<1>2. Others'
  BY <1>0, <1>1 DEF PollForUpdates, Others
<1>3. InStep'
  BY <1>1 DEF PollForUpdates, InStep, NoEventPending
<1> QED
  BY <1>0, <1>1, <1>2, <1>3, TypesSplit, TablesKept DEF PollForUpdates, IInv

LEMMA UserKeeps == IInv /\ UserStep => IInv'
<1> SUFFICES ASSUME IInv, UserStep PROVE IInv'
  OBVIOUS
<1> USE DEF serverVars, uiVars, workerVars, counters
<1>0. Others /\ job \in Jobs /\ uiQueue \in Seq(Callbacks) /\ ClientTypeOK
  BY TypesSplit DEF IInv
<1>1. CASE TabSelected
  <2>1. Others'
    BY <1>0, <1>1, InputType DEF TabSelected, Others
  <2>2. InStep'
    BY <1>1 DEF TabSelected, InStep, NoEventPending
  <2> QED
    BY <1>0, <1>1, <2>1, <2>2, TypesSplit, Elsewhere DEF TabSelected
<1>2. CASE RaiseLimit
  <2> DEFINE mark == IF running THEN excused[active] \cup {"overtaken"} ELSE excused[active]
  <2>1. Refresh(active, TRUE) /\ uiQueue' = uiQueue /\ active \in Sources
    BY <1>0, <1>2 DEF RaiseLimit, Others
  <2>2. /\ running' = TRUE /\ timer' \in BOOLEAN /\ overtaken' \in BOOLEAN
        /\ job' \in Jobs /\ (~overtaken' => job'.source = active)
        /\ QueueShape' /\ WorkerSound'
    BY <2>1, RefreshSound
  <2>3. excused' = [excused EXCEPT ![active] = mark]
    BY <1>2 DEF RaiseLimit
  <2>4. mark \in SUBSET Excuses /\ excused[active] \subseteq mark
    BY <1>0, <2>1 DEF Others, Excuses
  <2> HIDE DEF mark
  <2>5. /\ excused' \in [Sources -> SUBSET Excuses]
        /\ \A s \in Sources : excused[s] \subseteq excused'[s]
    BY <1>0, <2>1, <2>3, <2>4 DEF Others
  <2>6. raised' \subseteq Sources /\ inputs' \in Nat /\ faults' \in Nat
    BY <1>0, <1>2, InputType DEF RaiseLimit, Others
  <2>7. Others'
    BY <1>0, <1>2, <2>2, <2>5, <2>6 DEF RaiseLimit, Others
  <2>8. InStep'
    BY <1>2, <2>2 DEF RaiseLimit, InStep
  <2>9. TabsShowTheirOwn'
    BY <1>2, <2>5 DEF RaiseLimit, IInv, TabsShowTheirOwn
  <2> QED
    BY <1>0, <2>1, <2>2, <2>7, <2>8, <2>9, TypesSplit DEF IInv
<1>3. CASE PressRefresh
  <2> DEFINE more == active \in raised
  <2>1. more \in BOOLEAN
    OBVIOUS
  <2>2. StartWorker("import", active, more) /\ ~running /\ uiQueue' = uiQueue
        /\ active \in Sources
    BY <1>0, <1>3 DEF PressRefresh, Others
  <2> HIDE DEF more
  <2>3. /\ running' = TRUE /\ timer' = FALSE /\ job' \in Jobs /\ job'.source = active
        /\ QueueShape' /\ WorkerSound'
    BY <2>1, <2>2, StartSound
  <2>4. Others'
    BY <1>0, <1>3, <2>3, InputType DEF PressRefresh, Others
  <2>5. InStep'
    BY <1>3, <2>3 DEF PressRefresh, InStep, NoEventPending
  <2> QED
    BY <1>0, <1>3, <2>2, <2>3, <2>4, <2>5, TypesSplit, TablesKept DEF PressRefresh, IInv
<1> QED
  BY <1>1, <1>2, <1>3 DEF UserStep

LEMMA SwitchKeeps == IInv /\ SwitchSource => IInv'
<1> SUFFICES ASSUME IInv, SwitchSource PROVE IInv'
  OBVIOUS
<1> USE DEF serverVars, uiVars, counters
<1> DEFINE more == selected \in raised
<1>1. Others /\ ClientTypeOK /\ more \in BOOLEAN /\ uiQueue \in Seq(Callbacks)
  BY TypesSplit DEF IInv
<1>2. Refresh(selected, more) /\ selected \in Sources /\ uiQueue' = uiQueue
  BY <1>1 DEF SwitchSource, Others
<1> HIDE DEF more
<1>3. /\ running' = TRUE /\ timer' \in BOOLEAN /\ overtaken' \in BOOLEAN
      /\ job' \in Jobs /\ (~overtaken' => job'.source = selected)
      /\ QueueShape' /\ WorkerSound'
  BY <1>1, <1>2, RefreshSound
<1>4. dataVersion' \in 0 .. MaxVersion
  BY ClientBoundsAssumption DEF SwitchSource, VersionOnSwitch
<1>5. Others'
  BY <1>1, <1>2, <1>3, <1>4 DEF SwitchSource, Others
<1>6. InStep'
  BY <1>3 DEF SwitchSource, InStep
<1> QED
  BY <1>1, <1>2, <1>3, <1>5, <1>6, TypesSplit, TablesKept DEF SwitchSource, IInv

\* A callback that is rendered is what the worker brought, and the worker is
\* done but for the last callback.
LEMMA Rendered ==
  ASSUME IInv, NEW do \in {"rows", "context"}, Draining(do),
         UNCHANGED <<running, job>>
  PROVE  LET c == Head(uiQueue)
         IN  /\ running /\ c \in Answers /\ Own(c)
             /\ (~overtaken => job.source = active)
             /\ uiQueue' \in Seq(Callbacks) /\ QueueShape' /\ WorkerSound'
<1> DEFINE c == Head(uiQueue)
<1>1. uiQueue \in Seq(Callbacks) /\ uiQueue # <<>> /\ uiQueue' = Tail(uiQueue) /\ c.do = do
  BY DEF IInv, ClientTypeOK, Draining
<1>2. /\ running /\ job.pc = "ended" /\ Len(uiQueue) \in {1, 2}
      /\ uiQueue[Len(uiQueue)] = Finish
      /\ Len(uiQueue) = 2 => uiQueue[1] \in Answers /\ Own(uiQueue[1])
  BY <1>1 DEF IInv, QueueShape
<1>3. c = uiQueue[1]
  BY <1>1
<1>4. Len(uiQueue) = 2
  BY <1>1, <1>2, <1>3 DEF Finish
<1>5. c \in Answers /\ Own(c)
  BY <1>2, <1>3, <1>4
<1>6. /\ uiQueue' \in Seq(Callbacks) /\ Len(uiQueue') = 1
      /\ uiQueue'[Len(uiQueue')] = Finish
  <2>1. uiQueue[2] = Finish
    BY <1>2, <1>4
  <2>2. /\ Tail(uiQueue) \in Seq(Callbacks) /\ Len(Tail(uiQueue)) = 1
        /\ Tail(uiQueue)[1] = uiQueue[2]
    BY <1>1, <1>4, Pair
  <2> QED
    BY <1>1, <2>1, <2>2
<1>7. QueueShape' /\ WorkerSound'
  <2>1. running' /\ job'.pc = "ended" /\ job'.version <= MaxVersion
    BY <1>2 DEF IInv, WorkerSound
  <2> QED
    BY <1>6, <2>1 DEF QueueShape, WorkerSound
<1>8. ~overtaken => job.source = active
  BY <1>2 DEF IInv, InStep, Draining
<1> QED
  BY <1>2, <1>5, <1>6, <1>7, <1>8

LEMMA RenderKeeps ==
  IInv /\ (RenderRows \/ RenderRowsFails \/ RenderSourceContext) => IInv'
<1> SUFFICES ASSUME IInv, RenderRows \/ RenderRowsFails \/ RenderSourceContext PROVE IInv'
  OBVIOUS
<1> USE DEF serverVars, uiVars, workerVars, counters
<1> DEFINE c == Head(uiQueue)
<1>0. /\ Others /\ job \in Jobs /\ ClientTypeOK /\ active \in Sources
      /\ shown \in [Sources -> Contents] /\ excused \in [Sources -> SUBSET Excuses]
  BY TypesSplit DEF IInv, Others
<1>1. /\ running /\ c \in Answers /\ Own(c)
      /\ (~overtaken => job.source = active)
      /\ uiQueue' \in Seq(Callbacks) /\ QueueShape' /\ WorkerSound'
  <2>1. /\ Draining("rows") \/ Draining("context")
        /\ UNCHANGED <<running, job>>
    BY DEF RenderRows, RenderRowsFails, RenderSourceContext
  <2> QED
    BY <2>1, Rendered
<1>2. InStep'
  BY DEF IInv, InStep, NoEventPending, RenderRows, RenderRowsFails, RenderSourceContext
<1>3. /\ c.version \in 0 .. MaxVersion /\ c.content \in Contents
      /\ c.content.of = job.source /\ c.content.context = job.source
      /\ job.source \in Sources
  BY <1>0, <1>1, ClientBoundsAssumption DEF Own, Answers, Jobs
<1>4. /\ Causes(c) \in SUBSET Excuses
      /\ job.source # active => "overtaken" \in Causes(c)
  BY <1>1 DEF Causes, Excuses
<1> HIDE DEF c
<1>5. CASE RenderRows
  <2>1. /\ shown' = [shown EXCEPT ![active] = c.content]
        /\ excused' = [excused EXCEPT ![active] = Causes(c)]
        /\ dataVersion' = c.version
    BY <1>5 DEF RenderRows, c
  <2>2. Others'
    BY <1>0, <1>3, <1>4, <1>5, <2>1 DEF RenderRows, Others
  <2>3. TabsShowTheirOwn'
    BY <1>0, <1>3, <1>4, <2>1 DEF IInv, TabsShowTheirOwn
  <2> QED
    BY <1>0, <1>1, <1>2, <1>5, <2>2, <2>3, TypesSplit DEF RenderRows, IInv
<1>6. CASE RenderRowsFails
  <2>1. /\ excused' = [excused EXCEPT ![active] = @ \cup {"failed"}]
        /\ dataVersion' = c.version /\ shown' = shown
    BY <1>6 DEF RenderRowsFails, c
  <2>2. /\ excused' \in [Sources -> SUBSET Excuses]
        /\ \A s \in Sources : excused[s] \subseteq excused'[s]
    BY <1>0, <2>1 DEF Excuses
  <2>3. Others'
    BY <1>0, <1>3, <1>6, <2>1, <2>2, FaultType DEF RenderRowsFails, Others
  <2>4. TabsShowTheirOwn'
    BY <2>1, <2>2 DEF IInv, TabsShowTheirOwn
  <2> QED
    BY <1>0, <1>1, <1>2, <1>6, <2>3, <2>4, TypesSplit DEF RenderRowsFails, IInv
<1>7. CASE RenderSourceContext
  <2>1. /\ shown' = [shown EXCEPT ![active].context = c.content.context]
        /\ excused' = [excused EXCEPT ![active] = @ \cup Causes(c)]
    BY <1>7 DEF RenderSourceContext, c
  <2>2. /\ excused' \in [Sources -> SUBSET Excuses]
        /\ \A s \in Sources : excused[s] \subseteq excused'[s]
        /\ Causes(c) \subseteq excused'[active]
    BY <1>0, <1>4, <2>1
  <2>3. /\ shown' \in [Sources -> Contents]
        /\ shown'[active].of = shown[active].of
        /\ shown'[active].context = job.source
        /\ \A s \in Sources \ {active} : shown'[s] = shown[s]
    BY <1>0, <1>3, <2>1 DEF Contents
  <2>4. Others'
    BY <1>0, <1>7, <2>2, <2>3 DEF RenderSourceContext, Others
  <2>5. TabsShowTheirOwn'
    BY <1>0, <1>4, <2>2, <2>3 DEF IInv, TabsShowTheirOwn
  <2> QED
    BY <1>0, <1>1, <1>2, <1>7, <2>4, <2>5, TypesSplit DEF RenderSourceContext, IInv
<1> QED
  BY <1>5, <1>6, <1>7

LEMMA FinishKeeps == IInv /\ FinishWorker => IInv'
<1> SUFFICES ASSUME IInv, FinishWorker PROVE IInv'
  OBVIOUS
<1> USE DEF serverVars, uiVars, counters
<1>0. /\ Others /\ uiQueue \in Seq(Callbacks) /\ uiQueue # <<>> /\ MaxVersion \in Nat
      /\ uiQueue' = Tail(uiQueue) /\ Head(uiQueue).do = "finish" /\ job' = NoJob
  BY TypesSplit, ClientBoundsAssumption DEF IInv, FinishWorker, Draining
<1>1. Len(uiQueue) = 1
  BY <1>0 DEF IInv, QueueShape, Answers
<1>2. uiQueue' = <<>>
  BY <1>0, <1>1, HeadTailProperties
<1>3. job' \in Jobs /\ job'.pc = "ended" /\ job'.version = 0
  BY <1>0, SnapshotType, ClientSourcesAssumption DEF NoJob
<1>4. Others'
  BY <1>0 DEF FinishWorker, Others
<1>5. InStep' /\ QueueShape' /\ WorkerSound'
  BY <1>0, <1>2, <1>3 DEF FinishWorker, InStep, QueueShape, WorkerSound
<1> QED
  BY <1>2, <1>3, <1>4, <1>5, TypesSplit, TablesKept DEF FinishWorker, IInv

-----------------------------------------------------------------------------
(* The server and time, which touch neither the worker nor the tabs.       *)

LEMMA OutsideKeeps == IInv /\ ChildInv /\ (ServerStep \/ RetryWindowPasses) => IInv'
<1> SUFFICES ASSUME IInv, ChildInv, ServerStep \/ RetryWindowPasses PROVE IInv'
  OBVIOUS
<1> USE DEF serverVars, uiVars, workerVars, counters
<1>0. Others /\ ClientTypeOK /\ job \in Jobs /\ uiQueue \in Seq(Callbacks)
  BY TypesSplit DEF IInv
<1>1. UNCHANGED <<job, running, uiQueue, shown, excused, selected, active, overtaken>>
  BY DEF ServerStep, DataChanges, ServerDies, ChildServes, ChildExits, RetryWindowPasses
<1>2. Others'
  <2>1. CASE DataChanges
    <3>1. PICK s \in Sources : changed' = [changed EXCEPT ![s] = version']
      BY <2>1 DEF DataChanges
    <3>2. version' \in 1 .. MaxVersion
      BY <1>0, <2>1, ClientBoundsAssumption DEF DataChanges, Others
    <3>3. changed' \in [Sources -> 1 .. MaxVersion]
      BY <1>0, <3>1, <3>2 DEF Others
    <3> QED
      BY <1>0, <2>1, <3>2, <3>3 DEF DataChanges, Others
  <2>2. CASE ServerDies
    BY <1>0, <2>2, FaultType DEF ServerDies, ChildrenLeft, ChildInv, Others
  <2>3. CASE ChildServes
    BY <1>0, <2>3 DEF ChildServes, Others
  <2>4. CASE ChildExits
    BY <1>0, <2>4, FaultType DEF ChildExits, ChildInv, Others
  <2>5. CASE RetryWindowPasses
    BY <1>0, <2>5 DEF RetryWindowPasses, Others
  <2> QED
    BY <2>1, <2>2, <2>3, <2>4, <2>5 DEF ServerStep
<1>3. InStep'
  BY <1>1 DEF IInv, InStep, NoEventPending
<1> QED
  BY <1>0, <1>1, <1>2, <1>3, TypesSplit, Elsewhere

\* Only a refused connection starts a child, and only when there is none.
LEMMA ChildKept == ChildInv /\ [ClientNext]_clientVars => ChildInv'
<1> SUFFICES ASSUME ChildInv, [ClientNext]_clientVars PROVE ChildInv'
  OBVIOUS
<1> USE DEF ChildInv, serverVars
<1>1. CASE ConnectionRefused
  BY <1>1 DEF ConnectionRefused, NeedsServer
<1>2. CASE ServerDies
  BY <1>2 DEF ServerDies, ChildrenLeft
<1>3. CASE ChildServes
  BY <1>3 DEF ChildServes
<1>4. CASE ChildExits
  BY <1>4 DEF ChildExits
<1>5. CASE ReadVersion \/ NothingChanged \/ ReadRows \/ Deliver \/ RequestFails
           \/ Recovered \/ RecoveryFails \/ RetryWindowPasses
  <2>1. UNCHANGED <<server, children>>
    BY <1>5 DEF ReadVersion, NothingChanged, ReadRows, Deliver, RequestFails, Recovered,
      RecoveryFails, RetryWindowPasses
  <2> QED
    BY <2>1
<1>6. CASE EventLoopStep
  <2>1. UNCHANGED <<server, children>>
    BY <1>6 DEF EventLoopStep, PollForUpdates, SwitchSource, RenderRows, RenderRowsFails,
      RenderSourceContext, FinishWorker
  <2> QED
    BY <2>1
<1>7. CASE UserStep \/ DataChanges \/ UNCHANGED clientVars
  <2>1. UNCHANGED <<server, children>>
    BY <1>7 DEF UserStep, TabSelected, RaiseLimit, PressRefresh, DataChanges, clientVars
  <2> QED
    BY <2>1
<1>8. ClientNext \/ UNCHANGED clientVars
  OBVIOUS
<1> QED
  BY <1>1, <1>2, <1>3, <1>4, <1>5, <1>6, <1>7, <1>8 DEF ClientNext, WorkerStep, ServerStep

-----------------------------------------------------------------------------
(* The behaviours.                                                         *)

LEMMA InitIInv == ClientInit => IInv /\ ChildInv
<1> SUFFICES ASSUME ClientInit PROVE IInv /\ ChildInv
  OBVIOUS
<1>0. FirstTab \in Sources /\ MaxVersion \in Nat \ {0}
  BY ClientSourcesAssumption, ClientBoundsAssumption
<1>1. job \in Jobs /\ job.source = FirstTab /\ job.version = 0
  BY <1>0 DEF ClientInit, RequestSnapshot, Jobs
<1>2. /\ shown \in [Sources -> Contents]
      /\ \A s \in Sources : shown[s].of = s /\ shown[s].context = s
  BY DEF ClientInit, EmptyTable, Contents
<1>3. Others
  <2>1. excused \in [Sources -> SUBSET Excuses] /\ changed \in [Sources -> 1 .. MaxVersion]
    BY <1>0 DEF ClientInit
  <2>2. /\ version \in 1 .. MaxVersion /\ dataVersion \in 0 .. MaxVersion
        /\ server \in {"outside", "own", "down"}
    BY <1>0 DEF ClientInit
  <2> QED
    BY <1>0, <1>2, <2>1, <2>2 DEF ClientInit, Others
<1>4. InStep /\ QueueShape /\ TabsShowTheirOwn
  BY <1>1, <1>2 DEF ClientInit, InStep, QueueShape, TabsShowTheirOwn
<1>5. uiQueue \in Seq(Callbacks) /\ ChildInv
  BY DEF ClientInit, ChildInv
<1>6. WorkerSound
  <2>1. running /\ uiQueue = <<>>
    BY DEF ClientInit
  <2>2. job.version <= MaxVersion
    BY <1>0, <1>1
  <2> QED
    BY <2>1, <2>2 DEF WorkerSound
<1> QED
  BY <1>1, <1>3, <1>4, <1>5, <1>6, TypesSplit DEF IInv

LEMMA NextIInv == IInv /\ ChildInv /\ [ClientNext]_clientVars => IInv'
<1> SUFFICES ASSUME IInv, ChildInv, [ClientNext]_clientVars PROVE IInv'
  OBVIOUS
<1>1. CASE UNCHANGED clientVars
  <2>1. UNCHANGED <<job, running, uiQueue, shown, excused, selected, active, overtaken>>
    BY <1>1 DEF clientVars, uiVars, workerVars
  <2>2. Others' /\ job' \in Jobs /\ uiQueue' \in Seq(Callbacks)
    BY <1>1, TypesSplit
    DEF IInv, Others, clientVars, serverVars, uiVars, workerVars, counters
  <2>3. InStep'
    BY <2>1 DEF IInv, InStep, NoEventPending
  <2> QED
    BY <2>1, <2>2, <2>3, TypesSplit, Elsewhere
<1>2. CASE EventLoopStep
  BY <1>2, TimerKeeps, SwitchKeeps, RenderKeeps, FinishKeeps DEF EventLoopStep
<1> QED
  BY <1>1, <1>2, WorkerKeeps, UserKeeps, OutsideKeeps DEF ClientNext

\* Fairness has no part in it.
LEMMA ClientIInv == ClientInit /\ [][ClientNext]_clientVars => [](IInv /\ ChildInv)
<1>1. IInv /\ ChildInv /\ [ClientNext]_clientVars => (IInv /\ ChildInv)'
  BY NextIInv, ChildKept
<1> QED
  BY <1>1, InitIInv, PTL

(***************************************************************************)
(* The attributes that the worker and the Tkinter thread share keep their   *)
(* types, for any number of inputs and faults.                              *)
(***************************************************************************)
THEOREM ClientTypes == ClientSpec => []ClientTypeOK
<1>1. IInv => ClientTypeOK
  BY DEF IInv
<1> QED
  BY <1>1, ClientIInv, PTL DEF ClientSpec

(***************************************************************************)
(* A tab shows another source's rows, limits or costs only when its query   *)
(* was dropped while a worker was under way with another one: the flag      *)
(* worker_running is set until everything the worker brought was rendered.  *)
(***************************************************************************)
THEOREM TabsKeepTheirOwn == ClientSpec => []TabsShowTheirOwn
<1>1. IInv => TabsShowTheirOwn
  BY DEF IInv
<1> QED
  BY <1>1, ClientIInv, PTL DEF ClientSpec

(***************************************************************************)
(* However often connections are refused and servers die, the client has at *)
(* most one server process of its own.                                      *)
(***************************************************************************)
THEOREM SingleFlightRecovery == ClientSpec => []OneRecoveryChild
<1>1. ChildInv => OneRecoveryChild
  BY DEF ChildInv, OneRecoveryChild
<1> QED
  BY <1>1, ClientIInv, PTL DEF ClientSpec

-----------------------------------------------------------------------------
(* What a poll may rely on.                                                *)

\* A worker that was not overtaken asks with the limit of the tab, too.
InStepLimits ==
    NoEventPending /\ running /\ ~overtaken => job.more = (active \in raised)

\* Only refresh_once reads the rows before their version.
ReadInOrder ==
    /\ job.version <= version /\ job.at <= version
    /\ job.by # "reload" /\ job.at # 0 => job.version # 0 /\ job.version <= job.at

AnswerInOrder ==
    uiQueue # <<>> /\ uiQueue[1].do = "rows" =>
        /\ uiQueue[1].version # 0
        /\ uiQueue[1].content.of = job.source /\ uiQueue[1].content.more = job.more
        /\ uiQueue[1].by # "import" => uiQueue[1].content.tasks
        /\ uiQueue[1].by # "reload" => uiQueue[1].version <= uiQueue[1].content.at

\* The rows of the new limit are on their way.
LimitPending ==
    /\ running
    /\ job.source = active /\ job.more = (active \in raised)
    /\ \/ job.pc # "ended" /\ job.by = "reload"
       \/ uiQueue # <<>> /\ uiQueue[1].do = "rows"

\* With a version of its own, the table holds what there was at that version.
ShownAsKnown ==
    NoEventPending /\ dataVersion # 0 =>
        \/ excused[active] # {}
        \/ /\ shown[active].of = active /\ shown[active].tasks
           /\ dataVersion <= shown[active].at
           /\ shown[active].more = (active \in raised) \/ LimitPending

ChangesKnown == \A s \in Sources : changed[s] <= version

KnownInv == InStepLimits /\ ReadInOrder /\ AnswerInOrder /\ ShownAsKnown /\ ChangesKnown

LEMMA ViewKept ==
  ASSUME KnownInv, UNCHANGED uiVars,
         excused[active] # {} => excused'[active] # {},
         LimitPending => LimitPending' \/ excused'[active] # {}
  PROVE  ShownAsKnown'
  BY DEF KnownInv, ShownAsKnown, NoEventPending, uiVars

LEMMA AnswerKept ==
  ASSUME KnownInv, UNCHANGED uiQueue, uiQueue # <<>> => UNCHANGED job
  PROVE  AnswerInOrder'
  BY DEF KnownInv, AnswerInOrder

LEMMA LimitsKept ==
  ASSUME KnownInv, UNCHANGED <<uiVars, running, overtaken>>, job'.more = job.more
  PROVE  InStepLimits'
  BY DEF KnownInv, InStepLimits, NoEventPending, uiVars

\* A worker that goes on
LEMMA QueryGoesOn ==
  ASSUME IInv, KnownInv, job.pc # "ended", job'.pc # "ended",
         job'.source = job.source, job'.more = job.more, job'.by = job.by,
         UNCHANGED <<version, changed, uiVars, running, uiQueue, overtaken, excused>>
  PROVE  InStepLimits' /\ AnswerInOrder' /\ ShownAsKnown' /\ ChangesKnown'
<1>1. uiQueue = <<>>
  BY DEF IInv, WorkerSound
<1>2. InStepLimits' /\ AnswerInOrder'
  BY <1>1, LimitsKept, AnswerKept
<1>3. LimitPending => LimitPending'
  BY <1>1 DEF LimitPending, uiVars
<1>4. ShownAsKnown'
  BY <1>3, ViewKept
<1>5. ChangesKnown'
  BY DEF KnownInv, ChangesKnown
<1> QED
  BY <1>2, <1>4, <1>5

LEMMA VersionKnown == IInv /\ KnownInv /\ ReadVersion => KnownInv'
<1> SUFFICES ASSUME IInv, KnownInv, ReadVersion PROVE KnownInv'
  OBVIOUS
<1>1. /\ job \in Jobs /\ version \in Nat /\ job.pc = "run" /\ job.version = 0
      /\ job.by # "reload" \/ job.at # 0
      /\ job' = [job EXCEPT !.version = version]
      /\ UNCHANGED <<version, changed, uiVars, running, uiQueue, overtaken, excused>>
  BY DEF IInv, ClientTypeOK, ReadVersion, Asking, VersionFirst, serverVars
<1>2. /\ job'.version = version /\ job'.at = job.at /\ job'.by = job.by
      /\ job'.source = job.source /\ job'.more = job.more /\ job'.pc = job.pc
  BY <1>1 DEF Jobs
<1>3. ReadInOrder'
  BY <1>1, <1>2 DEF KnownInv, ReadInOrder
<1> QED
  BY <1>1, <1>2, <1>3, QueryGoesOn DEF KnownInv

LEMMA RowsKnown == IInv /\ KnownInv /\ ReadRows => KnownInv'
<1> SUFFICES ASSUME IInv, KnownInv, ReadRows PROVE KnownInv'
  OBVIOUS
<1>1. /\ job \in Jobs /\ version \in Nat /\ job.pc = "run"
      /\ job.by # "reload" => job.version # 0
      /\ job' = [job EXCEPT !.at = version]
      /\ UNCHANGED <<version, changed, uiVars, running, uiQueue, overtaken, excused>>
  BY DEF IInv, ClientTypeOK, ReadRows, Asking, VersionFirst, serverVars
<1>2. /\ job'.at = version /\ job'.version = job.version /\ job'.by = job.by
      /\ job'.source = job.source /\ job'.more = job.more /\ job'.pc = job.pc
  BY <1>1 DEF Jobs
<1>3. ReadInOrder'
  BY <1>1, <1>2 DEF KnownInv, ReadInOrder
<1> QED
  BY <1>1, <1>2, <1>3, QueryGoesOn DEF KnownInv

LEMMA RetryKnown ==
  IInv /\ KnownInv /\ (Recovered \/ (ConnectionRefused /\ ~(job.retried \/ recent)))
    => KnownInv'
<1> SUFFICES ASSUME IInv, KnownInv,
                    Recovered \/ (ConnectionRefused /\ ~(job.retried \/ recent))
             PROVE  KnownInv'
  OBVIOUS
<1>1. /\ job \in Jobs /\ version \in Nat /\ job.pc # "ended"
      /\ \/ job' = [job EXCEPT !.pc = "run", !.version = 0, !.at = 0, !.retried = TRUE]
         \/ job' = [job EXCEPT !.pc = "recover"]
      /\ UNCHANGED <<version, changed, uiVars, running, uiQueue, overtaken, excused>>
  BY DEF IInv, ClientTypeOK, Recovered, ConnectionRefused, serverVars
<1>2. /\ job'.by = job.by /\ job'.source = job.source /\ job'.more = job.more
      /\ job'.pc # "ended"
      /\ \/ job'.version = 0 /\ job'.at = 0
         \/ job'.version = job.version /\ job'.at = job.at
  BY <1>1 DEF Jobs
<1>3. ReadInOrder'
  BY <1>1, <1>2 DEF KnownInv, ReadInOrder
<1> QED
  BY <1>1, <1>2, <1>3, QueryGoesOn DEF KnownInv

\* What a worker that ends leaves of its query
LEMMA EndedQuery ==
  ASSUME IInv, NEW answers, Ends(answers)
  PROVE  /\ job'.source = job.source /\ job'.more = job.more /\ job'.by = "poll"
         /\ job'.pc = "ended" /\ job'.version = 0 /\ job'.at = 0
  BY DEF Ends, RequestSnapshot

LEMMA EndKnown ==
  ASSUME IInv, KnownInv, NEW answers, Ends(answers), AnswerInOrder', ShownAsKnown',
         UNCHANGED <<version, changed, uiVars, running, overtaken>>
  PROVE  KnownInv'
<1>1. /\ job'.more = job.more /\ job'.version = 0 /\ job'.at = 0
  BY EndedQuery
<1>2. InStepLimits'
  BY <1>1, LimitsKept
<1>3. ReadInOrder' /\ ChangesKnown'
  BY <1>1 DEF IInv, ClientTypeOK, KnownInv, ReadInOrder, ChangesKnown
<1> QED
  BY <1>2, <1>3 DEF KnownInv

LEMMA OneLeft ==
  ASSUME NEW c \in Callbacks, uiQueue = <<>>, uiQueue' = uiQueue \o Finished(<<c>>)
  PROVE  uiQueue' # <<>> /\ uiQueue'[1] = c
<1>1. uiQueue' = <<>> \o (<<c>> \o <<Finish>>)
  BY DEF Finished, Finish
<1> QED
  BY <1>1, Joined, FinishIsCallback

LEMMA NoneLeft ==
  ASSUME uiQueue = <<>>, uiQueue' = uiQueue \o Finished(<<>>)
  PROVE  uiQueue'[1].do = "finish"
<1>1. uiQueue' = <<>> \o (<<>> \o <<Finish>>)
  BY DEF Finished, Finish
<1>2. uiQueue'[1] = Finish
  BY <1>1, Alone, FinishIsCallback
<1> QED
  BY <1>2 DEF Finish

\* Nothing changed: whoever relied on the rows to come was no poll.
LEMMA NothingKnown == IInv /\ KnownInv /\ NothingChanged => KnownInv'
<1> SUFFICES ASSUME IInv, KnownInv, NothingChanged PROVE KnownInv'
  OBVIOUS
<1>1. /\ job.pc = "run" /\ uiQueue = <<>> /\ job.by = "poll"
      /\ UNCHANGED <<version, changed, uiVars, running, overtaken, excused>>
  BY DEF IInv, WorkerSound, NothingChanged, Asking, VersionChanged, serverVars
<1>2. ~LimitPending
  BY <1>1 DEF LimitPending
<1>3. ShownAsKnown'
  BY <1>1, <1>2, ViewKept
<1>4. PICK answers \in {<<>>, <<Callback("context")>>} : Ends(answers)
  BY DEF NothingChanged
<1>5. uiQueue'[1].do # "rows"
  <2>1. uiQueue' = uiQueue \o Finished(answers)
    BY <1>4 DEF Ends
  <2>2. CASE answers = <<>>
    BY <1>1, <2>1, <2>2, NoneLeft
  <2>3. CASE answers = <<Callback("context")>>
    <3>1. Callback("context") \in Callbacks
      BY CallbackType, AnswersAreCallbacks DEF IInv
    <3>2. uiQueue'[1] = Callback("context")
      BY <1>1, <2>1, <2>3, <3>1, OneLeft
    <3> QED
      BY <3>2 DEF Callback
  <2> QED
    BY <2>2, <2>3
<1>6. AnswerInOrder'
  BY <1>5 DEF AnswerInOrder
<1> QED
  BY <1>1, <1>3, <1>4, <1>6, EndKnown

LEMMA DeliveryKnown == IInv /\ KnownInv /\ Deliver => KnownInv'
<1> SUFFICES ASSUME IInv, KnownInv, Deliver PROVE KnownInv'
  OBVIOUS
<1> DEFINE c == Callback("rows")
<1>1. /\ job.pc = "run" /\ uiQueue = <<>> /\ running
      /\ job.version # 0 /\ job.at # 0 /\ Ends(<<c>>)
      /\ UNCHANGED <<version, changed, uiVars, running, overtaken, excused>>
  BY DEF IInv, WorkerSound, Deliver, serverVars
<1>2. c \in Callbacks
  BY CallbackType, AnswersAreCallbacks DEF IInv
<1>3. /\ c.do = "rows" /\ c.version = job.version /\ c.by = job.by
      /\ c.content.of = job.source /\ c.content.more = job.more
      /\ c.content.tasks = (job.by # "import") /\ c.content.at = job.at
  BY DEF Callback
<1> HIDE DEF c
<1>4. uiQueue' # <<>> /\ uiQueue'[1] = c
  BY <1>1, <1>2, OneLeft DEF Ends
<1>5. job'.source = job.source /\ job'.more = job.more
  BY <1>1, EndedQuery
<1>6. AnswerInOrder'
  BY <1>1, <1>3, <1>4, <1>5 DEF KnownInv, ReadInOrder, AnswerInOrder
<1>7. LimitPending => LimitPending'
  BY <1>1, <1>3, <1>4, <1>5 DEF LimitPending, uiVars
<1>8. ShownAsKnown'
  BY <1>1, <1>7, ViewKept
<1> QED
  BY <1>1, <1>6, <1>8, EndKnown

\* A reload that fails leaves an excuse, if the version is known.
LEMMA ErrorKnown ==
  ASSUME IInv, KnownInv, job.pc # "ended", EndsInError,
         UNCHANGED <<version, changed, uiVars, running, overtaken>>
  PROVE  KnownInv'
<1>1. /\ uiQueue = <<>> /\ Ends(<<>>) /\ active \in Sources
      /\ excused \in [Sources -> SUBSET Excuses]
  BY DEF IInv, ClientTypeOK, WorkerSound, EndsInError
<1>2. excused[active] # {} => excused'[active] # {}
  BY <1>1 DEF EndsInError
<1>3. AnswerInOrder'
  <2>1. uiQueue'[1].do = "finish"
    BY <1>1, NoneLeft DEF Ends
  <2> QED
    BY <2>1 DEF AnswerInOrder
<1>4. ShownAsKnown'
  <2>1. CASE dataVersion = 0
    BY <2>1 DEF ShownAsKnown, uiVars
  <2>2. CASE dataVersion # 0
    <3>1. LimitPending => job.by = "reload" /\ job.source = active
      BY <1>1 DEF LimitPending
    <3>2. LimitPending => excused'[active] # {}
      BY <1>1, <2>2, <3>1 DEF EndsInError
    <3> QED
      BY <1>2, <3>2, ViewKept
  <2> QED
    BY <2>1, <2>2
<1> QED
  BY <1>1, <1>3, <1>4, EndKnown

LEMMA WorkerKnown == IInv /\ KnownInv /\ WorkerStep => KnownInv'
<1> SUFFICES ASSUME IInv, KnownInv, WorkerStep PROVE KnownInv'
  OBVIOUS
<1>1. ASSUME \/ RequestFails \/ RecoveryFails
             \/ ConnectionRefused /\ (job.retried \/ recent)
      PROVE  KnownInv'
  <2>1. /\ job.pc # "ended" /\ EndsInError
        /\ UNCHANGED <<version, changed, uiVars, running, overtaken>>
    BY <1>1 DEF RequestFails, Asking, RecoveryFails, ConnectionRefused, serverVars
  <2> QED
    BY <2>1, ErrorKnown
<1> QED
  BY <1>1, VersionKnown, NothingKnown, RowsKnown, DeliveryKnown, RetryKnown DEF WorkerStep

\* A worker that starts has read nothing.
LEMMA StartKnown ==
  ASSUME IInv, ~running, UNCHANGED <<version, uiQueue>>,
         NEW by \in {"poll", "reload", "import"}, NEW source, NEW more,
         StartWorker(by, source, more)
  PROVE  /\ running' /\ uiQueue' = <<>>
         /\ job'.source = source /\ job'.more = more /\ job'.by = by /\ job'.pc = "run"
         /\ ReadInOrder' /\ AnswerInOrder'
<1>1. uiQueue = <<>> /\ version \in Nat
  BY IdleIsDrained DEF IInv, ClientTypeOK
<1>2. /\ running' = TRUE
      /\ job' = [by |-> by, source |-> source, more |-> more,
                 pc |-> "run", version |-> 0, at |-> 0, retried |-> FALSE]
  BY DEF StartWorker, RequestSnapshot
<1> QED
  BY <1>1, <1>2 DEF ReadInOrder, AnswerInOrder

LEMMA TimerKnown == IInv /\ KnownInv /\ PollForUpdates => KnownInv'
<1> SUFFICES ASSUME IInv, KnownInv, PollForUpdates PROVE KnownInv'
  OBVIOUS
<1> DEFINE more == active \in raised
<1>1. /\ ~running /\ StartWorker("poll", selected, more)
      /\ UNCHANGED <<version, changed, uiVars, uiQueue, overtaken, excused>>
  BY DEF PollForUpdates, serverVars
<1> HIDE DEF more
<1>2. running' /\ job'.more = more /\ ReadInOrder' /\ AnswerInOrder'
  BY <1>1, StartKnown
<1>3. ShownAsKnown'
  BY <1>1, ViewKept DEF LimitPending
<1>4. InStepLimits' /\ ChangesKnown'
  BY <1>1, <1>2 DEF KnownInv, InStepLimits, ChangesKnown, uiVars, more
<1> QED
  BY <1>2, <1>3, <1>4 DEF KnownInv

LEMMA PressKnown == IInv /\ KnownInv /\ PressRefresh => KnownInv'
<1> SUFFICES ASSUME IInv, KnownInv, PressRefresh PROVE KnownInv'
  OBVIOUS
<1> DEFINE more == active \in raised
<1>1. /\ ~running /\ StartWorker("import", active, more)
      /\ UNCHANGED <<version, changed, uiVars, uiQueue, overtaken, excused>>
  BY DEF PressRefresh, serverVars
<1> HIDE DEF more
<1>2. running' /\ job'.more = more /\ ReadInOrder' /\ AnswerInOrder'
  BY <1>1, StartKnown
<1>3. ShownAsKnown'
  BY <1>1, ViewKept DEF LimitPending
<1>4. InStepLimits' /\ ChangesKnown'
  BY <1>1, <1>2 DEF KnownInv, InStepLimits, ChangesKnown, uiVars, more
<1> QED
  BY <1>2, <1>3, <1>4 DEF KnownInv

LEMMA SelectedKnown == IInv /\ KnownInv /\ TabSelected => KnownInv'
<1> SUFFICES ASSUME IInv, KnownInv, TabSelected PROVE KnownInv'
  OBVIOUS
<1>1. /\ ~NoEventPending'
      /\ UNCHANGED <<version, changed, job, uiQueue>>
  BY DEF TabSelected, NoEventPending, workerVars, serverVars
<1> QED
  BY <1>1 DEF KnownInv, InStepLimits, ReadInOrder, AnswerInOrder, ShownAsKnown, ChangesKnown

LEMMA RefreshKnown ==
  ASSUME IInv, KnownInv, UNCHANGED <<version, uiQueue>>,
         NEW source, NEW more, Refresh(source, more)
  PROVE  /\ ReadInOrder' /\ AnswerInOrder'
         /\ ~overtaken' => job'.more = more
         /\ ~running => /\ running'
                        /\ job'.source = source /\ job'.more = more
                        /\ job'.pc = "run" /\ job'.by = "reload"
<1>1. CASE running
  <2>1. UNCHANGED job /\ overtaken' = (<<job.source, job.more>> # <<source, more>>)
    BY <1>1 DEF Refresh
  <2> QED
    BY <1>1, <2>1 DEF KnownInv, ReadInOrder, AnswerInOrder
<1>2. CASE ~running
  <2>1. StartWorker("reload", source, more)
    BY <1>2 DEF Refresh
  <2> QED
    BY <1>2, <2>1, StartKnown
<1> QED
  BY <1>1, <1>2

LEMMA SwitchKnown == IInv /\ KnownInv /\ SwitchSource => KnownInv'
<1> SUFFICES ASSUME IInv, KnownInv, SwitchSource PROVE KnownInv'
  OBVIOUS
<1> DEFINE more == selected \in raised
<1>1. /\ Refresh(selected, more) /\ active' = selected /\ dataVersion' = 0
      /\ UNCHANGED <<version, changed, selected, raised, uiQueue>>
  BY DEF SwitchSource, VersionOnSwitch, serverVars
<1> HIDE DEF more
<1>2. ReadInOrder' /\ AnswerInOrder' /\ (~overtaken' => job'.more = more)
  BY <1>1, RefreshKnown
<1>3. InStepLimits' /\ ShownAsKnown' /\ ChangesKnown'
  BY <1>1, <1>2 DEF KnownInv, InStepLimits, ShownAsKnown, ChangesKnown, more
<1> QED
  BY <1>2, <1>3 DEF KnownInv

\* Rows of the new limit are asked for, or the tab has an excuse.
LEMMA RaiseKnown == IInv /\ KnownInv /\ RaiseLimit => KnownInv'
<1> SUFFICES ASSUME IInv, KnownInv, RaiseLimit PROVE KnownInv'
  OBVIOUS
<1>1. /\ Refresh(active, TRUE) /\ raised' = raised \cup {active}
      /\ NoEventPending /\ active \in Sources /\ excused \in [Sources -> SUBSET Excuses]
      /\ UNCHANGED <<version, changed, selected, active, shown, dataVersion, uiQueue>>
      /\ excused' = [excused EXCEPT ![active] = IF running THEN @ \cup {"overtaken"} ELSE @]
  BY DEF RaiseLimit, IInv, ClientTypeOK, serverVars
<1>2. /\ ReadInOrder' /\ AnswerInOrder' /\ (~overtaken' => job'.more = TRUE)
      /\ ~running => /\ running' /\ job'.source = active /\ job'.more = TRUE
                     /\ job'.pc = "run" /\ job'.by = "reload"
  BY <1>1, RefreshKnown
<1>3. InStepLimits' /\ ChangesKnown'
  BY <1>1, <1>2 DEF KnownInv, InStepLimits, ChangesKnown
<1>4. ShownAsKnown'
  <2>1. CASE running
    BY <1>1, <2>1 DEF ShownAsKnown
  <2>2. CASE ~running
    <3>1. excused'[active] = excused[active]
      BY <1>1, <2>2
    <3>2. LimitPending'
      BY <1>1, <1>2, <2>2 DEF LimitPending
    <3> QED
      BY <1>1, <3>1, <3>2 DEF KnownInv, ShownAsKnown, NoEventPending
  <2> QED
    BY <2>1, <2>2
<1> QED
  BY <1>2, <1>3, <1>4 DEF KnownInv

\* When a callback is drained, none but the last is left.
LEMMA DrainedKnown ==
  ASSUME IInv, KnownInv, NEW do \in {"rows", "context"}, Draining(do),
         UNCHANGED <<version, job>>
  PROVE  /\ running /\ job.pc = "ended" /\ uiQueue # <<>>
         /\ Head(uiQueue) = uiQueue[1] /\ uiQueue[1].do = do
         /\ ReadInOrder' /\ AnswerInOrder'
<1>1. /\ uiQueue \in Seq(Callbacks) /\ uiQueue # <<>> /\ uiQueue' = Tail(uiQueue)
      /\ Head(uiQueue).do = do /\ Head(uiQueue) = uiQueue[1]
  BY DEF IInv, ClientTypeOK, Draining
<1>2. /\ running /\ job.pc = "ended" /\ Len(uiQueue) \in {1, 2}
      /\ uiQueue[Len(uiQueue)] = Finish
  BY <1>1 DEF IInv, QueueShape
<1>3. Len(uiQueue) = 2
  BY <1>1, <1>2 DEF Finish
<1>4. uiQueue'[1].do = "finish"
  <2>1. Tail(uiQueue)[1] = uiQueue[2]
    BY <1>1, <1>3, Pair
  <2> QED
    BY <1>1, <1>2, <1>3, <2>1 DEF Finish
<1> QED
  BY <1>1, <1>2, <1>4 DEF KnownInv, ReadInOrder, AnswerInOrder

\* What is rendered without an excuse is what its version asks for.
LEMMA RenderKnown == IInv /\ KnownInv /\ RenderRows => KnownInv'
<1> SUFFICES ASSUME IInv, KnownInv, RenderRows PROVE KnownInv'
  OBVIOUS
<1> DEFINE c == uiQueue[1]
<1>1. /\ Draining("rows") /\ NoEventPending
      /\ UNCHANGED <<version, changed, selected, active, raised, running, job, overtaken>>
  BY DEF RenderRows, Draining, serverVars, workerVars
<1>2. /\ running /\ uiQueue # <<>> /\ Head(uiQueue) = c /\ c.do = "rows"
      /\ ReadInOrder' /\ AnswerInOrder'
  BY <1>1, DrainedKnown
<1>3. /\ active \in Sources /\ shown \in [Sources -> Contents]
      /\ excused \in [Sources -> SUBSET Excuses]
      /\ c.version \in Nat /\ c.content.at \in Nat
  <2>1. c \in Answers
    BY <1>1, <1>2, Rendered
  <2> QED
    BY <2>1 DEF IInv, ClientTypeOK, Answers, Contents
<1>4. /\ c.content.of = job.source /\ c.content.more = job.more
      /\ c.by # "import" => c.content.tasks
      /\ c.by # "reload" => c.version <= c.content.at
  BY <1>2 DEF KnownInv, AnswerInOrder
<1> HIDE DEF c
<1>5. /\ dataVersion' = c.version /\ shown'[active] = c.content
      /\ excused'[active] = Causes(c)
  BY <1>2, <1>3 DEF RenderRows
<1>6. InStepLimits' /\ ChangesKnown'
  BY <1>1 DEF KnownInv, InStepLimits, ChangesKnown, NoEventPending
<1>7. ShownAsKnown'
  <2>1. SUFFICES ASSUME Causes(c) = {}
                 PROVE  /\ c.content.of = active /\ c.content.tasks
                        /\ c.version <= c.content.at
                        /\ c.content.more = (active \in raised)
    BY <1>1, <1>5 DEF ShownAsKnown
  <2>2. /\ ~overtaken /\ c.by # "import"
        /\ c.by = "reload" => ~(c.content.at < c.version)
    BY <2>1 DEF Causes
  <2>3. job.source = active /\ job.more = (active \in raised)
    BY <1>1, <1>2, <2>2 DEF IInv, InStep, KnownInv, InStepLimits
  <2> QED
    BY <1>3, <1>4, <2>2, <2>3
<1> QED
  BY <1>2, <1>6, <1>7 DEF KnownInv

LEMMA RenderFailsKnown == IInv /\ KnownInv /\ RenderRowsFails => KnownInv'
<1> SUFFICES ASSUME IInv, KnownInv, RenderRowsFails PROVE KnownInv'
  OBVIOUS
<1>1. /\ Draining("rows") /\ active \in Sources /\ excused \in [Sources -> SUBSET Excuses]
      /\ excused' = [excused EXCEPT ![active] = @ \cup {"failed"}]
      /\ UNCHANGED <<version, changed, selected, active, raised, running, job, overtaken>>
  BY DEF RenderRowsFails, serverVars, workerVars, IInv, ClientTypeOK
<1>2. ReadInOrder' /\ AnswerInOrder'
  BY <1>1, DrainedKnown
<1>3. InStepLimits' /\ ChangesKnown' /\ ShownAsKnown'
  BY <1>1 DEF KnownInv, InStepLimits, ChangesKnown, ShownAsKnown, NoEventPending
<1> QED
  BY <1>2, <1>3 DEF KnownInv

LEMMA ContextKnown == IInv /\ KnownInv /\ RenderSourceContext => KnownInv'
<1> SUFFICES ASSUME IInv, KnownInv, RenderSourceContext PROVE KnownInv'
  OBVIOUS
<1> DEFINE c == Head(uiQueue)
<1>1. /\ Draining("context") /\ active \in Sources /\ shown \in [Sources -> Contents]
      /\ excused \in [Sources -> SUBSET Excuses]
      /\ UNCHANGED <<version, changed, selected, active, raised, dataVersion, running, job,
                     overtaken>>
  BY DEF RenderSourceContext, serverVars, workerVars, IInv, ClientTypeOK
<1>2. /\ job.pc = "ended" /\ uiQueue[1].do = "context"
      /\ ReadInOrder' /\ AnswerInOrder'
  BY <1>1, DrainedKnown
<1>3. ~LimitPending
  BY <1>2 DEF LimitPending
<1>4. /\ shown' = [shown EXCEPT ![active].context = c.content.context]
      /\ excused' = [excused EXCEPT ![active] = @ \cup Causes(c)]
  BY DEF RenderSourceContext
<1> HIDE DEF c
<1>5. /\ shown'[active].of = shown[active].of /\ shown'[active].at = shown[active].at
      /\ shown'[active].more = shown[active].more
      /\ shown'[active].tasks = shown[active].tasks
      /\ excused[active] \subseteq excused'[active]
  BY <1>1, <1>4 DEF Contents
<1>6. InStepLimits' /\ ChangesKnown' /\ ShownAsKnown'
  BY <1>1, <1>3, <1>5 DEF KnownInv, InStepLimits, ChangesKnown, ShownAsKnown, NoEventPending
<1> QED
  BY <1>2, <1>6 DEF KnownInv

LEMMA FinishKnown == IInv /\ KnownInv /\ FinishWorker => KnownInv'
<1> SUFFICES ASSUME IInv, KnownInv, FinishWorker PROVE KnownInv'
  OBVIOUS
<1>1. /\ uiQueue \in Seq(Callbacks) /\ uiQueue # <<>> /\ uiQueue' = Tail(uiQueue)
      /\ Head(uiQueue).do = "finish" /\ job' = NoJob /\ ~running' /\ version \in Nat
      /\ UNCHANGED <<version, changed, uiVars, excused>>
  BY DEF IInv, ClientTypeOK, FinishWorker, Draining, serverVars
<1>2. /\ job.pc = "ended" /\ Len(uiQueue) = 1 /\ uiQueue[1] = Finish
  BY <1>1 DEF IInv, QueueShape, Answers
<1>3. uiQueue' = <<>>
  BY <1>1, <1>2, HeadTailProperties
<1>4. ~LimitPending
  BY <1>2 DEF LimitPending, Finish
<1>5. ShownAsKnown'
  BY <1>1, <1>4, ViewKept
<1>6. job'.version = 0 /\ job'.at = 0
  BY <1>1 DEF NoJob, RequestSnapshot
<1>7. InStepLimits' /\ ReadInOrder' /\ AnswerInOrder' /\ ChangesKnown'
  BY <1>1, <1>3, <1>6 DEF KnownInv, InStepLimits, ReadInOrder, AnswerInOrder, ChangesKnown
<1> QED
  BY <1>5, <1>7 DEF KnownInv

LEMMA OutsideKnown ==
  IInv /\ KnownInv /\ (ServerStep \/ RetryWindowPasses \/ UNCHANGED clientVars) => KnownInv'
<1> SUFFICES ASSUME IInv, KnownInv,
                    ServerStep \/ RetryWindowPasses \/ UNCHANGED clientVars
             PROVE  KnownInv'
  OBVIOUS
<1>1. UNCHANGED <<uiVars, running, job, uiQueue, overtaken, excused>>
  BY DEF ServerStep, DataChanges, ServerDies, ChildServes, ChildExits, RetryWindowPasses,
         clientVars, workerVars
<1>2. version <= version' /\ ChangesKnown'
  <2>1. /\ version \in Nat /\ changed \in [Sources -> 1 .. MaxVersion]
    BY DEF IInv, ClientTypeOK
  <2>2. CASE DataChanges
    <3>1. PICK s \in Sources : changed' = [changed EXCEPT ![s] = version']
      BY <2>2 DEF DataChanges
    <3> QED
      BY <2>1, <2>2, <3>1, ClientBoundsAssumption DEF DataChanges, KnownInv, ChangesKnown
  <2>3. CASE ~DataChanges
    <3>1. UNCHANGED <<version, changed>>
      BY <2>3 DEF ServerStep, ServerDies, ChildServes, ChildExits, RetryWindowPasses,
                  clientVars, serverVars
    <3> QED
      BY <2>1, <3>1 DEF KnownInv, ChangesKnown
  <2> QED
    BY <2>2, <2>3
<1>3. ReadInOrder'
  <2>1. version \in Nat /\ version' \in Nat /\ job.version \in Nat /\ job.at \in Nat
    BY <1>1 DEF IInv, ClientTypeOK, Jobs, ServerStep, DataChanges, ServerDies, ChildServes,
      ChildExits, RetryWindowPasses, clientVars, serverVars
  <2> QED
    BY <1>1, <1>2, <2>1 DEF KnownInv, ReadInOrder
<1>4. InStepLimits' /\ AnswerInOrder'
  BY <1>1, LimitsKept, AnswerKept
<1>5. ShownAsKnown'
  <2>1. LimitPending => LimitPending'
    BY <1>1 DEF LimitPending, uiVars
  <2> QED
    BY <1>1, <2>1, ViewKept
<1> QED
  BY <1>2, <1>3, <1>4, <1>5 DEF KnownInv

LEMMA InitKnown == ClientInit => KnownInv
<1> SUFFICES ASSUME ClientInit PROVE KnownInv
  OBVIOUS
<1>1. job.version = 0 /\ job.at = 0 /\ job.more = FALSE
  BY DEF ClientInit, RequestSnapshot
<1>2. version = 1 /\ raised = {} /\ uiQueue = <<>> /\ dataVersion = 0
  BY DEF ClientInit
<1>3. InStepLimits
  <2>1. (active \in raised) = FALSE
    BY <1>2
  <2> QED
    BY <1>1, <2>1 DEF InStepLimits
<1>4. ReadInOrder /\ AnswerInOrder /\ ShownAsKnown
  BY <1>1, <1>2 DEF ReadInOrder, AnswerInOrder, ShownAsKnown
<1>5. ChangesKnown
  <2> SUFFICES ASSUME NEW s \in Sources PROVE changed[s] <= version
    BY DEF ChangesKnown
  <2>1. changed[s] = version /\ version \in Nat
    BY DEF ClientInit
  <2> QED
    BY <2>1
<1> QED
  BY <1>3, <1>4, <1>5 DEF KnownInv

LEMMA ClientKnowsAll == ClientInit /\ [][ClientNext]_clientVars => []KnownInv
<1>1. IInv /\ KnownInv /\ [ClientNext]_clientVars => KnownInv'
  BY WorkerKnown, TimerKnown, PressKnown, SelectedKnown, SwitchKnown, RaiseKnown, RenderKnown,
     RenderFailsKnown, ContextKnown, FinishKnown, OutsideKnown
  DEF ClientNext, EventLoopStep, UserStep
<1> QED
  BY <1>1, InitKnown, ClientIInv, PTL

LEMMA KnownShows == IInv /\ KnownInv => PollsHideNothing
<1> SUFFICES ASSUME IInv, KnownInv, NoEventPending, ~running, dataVersion = version,
                    excused[active] = {}
             PROVE  UpToDate(active)
  BY DEF PollsHideNothing
<1>1. /\ active \in Sources /\ version \in 1 .. MaxVersion /\ version # 0
      /\ changed[active] \in Nat /\ version \in Nat /\ shown[active].at \in Nat
  BY ClientBoundsAssumption DEF IInv, ClientTypeOK, Contents
<1>2. /\ shown[active].of = active /\ shown[active].tasks
      /\ version <= shown[active].at /\ shown[active].more = (active \in raised)
  BY <1>1 DEF KnownInv, ShownAsKnown, LimitPending
<1>3. changed[active] <= version
  BY <1>1 DEF KnownInv, ChangesKnown
<1> QED
  BY <1>1, <1>2, <1>3 DEF UpToDate

(***************************************************************************)
(* However many tabs, versions, inputs and faults there are: a poll that    *)
(* will be told that nothing has changed leaves no rows hidden, unless the  *)
(* tab has one of the four excuses.  poll_once takes the version before the *)
(* rows, and what it brings is rendered while worker_running is set.        *)
(***************************************************************************)
THEOREM PollsAreHonest == ClientSpec => []PollsHideNothing
  BY KnownShows, ClientKnowsAll, ClientIInv, PTL DEF ClientSpec

-----------------------------------------------------------------------------
(* Settings.                                                                *)

\* Nothing holds settings that were never chosen.
Chosen ==
    /\ primary.holds <= chosen /\ backup.holds <= chosen
    /\ settings <= chosen /\ wish <= chosen /\ saved <= chosen

\* A file that can be read is not behind the last save.
NoFileBehind ==
    /\ primary.state = "whole" => primary.holds >= saved
    /\ backup.state = "whole" => backup.holds >= saved

\* What was saved can be read from the file or, if that is damaged, from the
\* backup.
OneReadable ==
    \/ saved = 0
    \/ primary.state = "whole"
    \/ primary.state = "corrupt" /\ backup.state = "whole"

\* Whoever writes may, and a repair writes what the widgets show.
WritersAllowed ==
    /\ phase \in Writing \cup WritingBackup => saveEnabled
    /\ phase \in Loading => settings = wish

\* The backup is written when the file has been.
FileFirst ==
    phase \in WritingBackup =>
        /\ primary.state # "missing"
        /\ primary.state = "whole" => primary.holds >= Written

TimerAllowed == saveTimer => MaySave

Kept ==
    /\ Chosen /\ NoFileBehind /\ OneReadable /\ WritersAllowed /\ FileFirst
    /\ ClientHasSettings /\ TimerAllowed /\ ChangesWaitForSave

SettingsInv == SettingsTypeOK /\ Kept

-----------------------------------------------------------------------------
LEMMA InitSettingsInv == SettingsInit => SettingsInv
<1> SUFFICES ASSUME SettingsInit PROVE SettingsInv
  OBVIOUS
<1> USE DEF SettingsInit
<1>1. SettingsTypeOK
  BY DEF SettingsTypeOK, Files, Missing, Phases
<1>2. Chosen /\ NoFileBehind /\ OneReadable
  BY DEF Chosen, NoFileBehind, OneReadable, Missing
<1>3. WritersAllowed /\ FileFirst
  BY DEF WritersAllowed, FileFirst, Writing, WritingBackup, Loading
<1>4. ClientHasSettings /\ TimerAllowed /\ ChangesWaitForSave
  BY DEF ClientHasSettings, TimerAllowed, ChangesWaitForSave, MaySave
<1> QED
  BY <1>1, <1>2, <1>3, <1>4 DEF SettingsInv, Kept

\* A start keeps the types, whichever file the settings came from.
LEMMA StartTypes ==
  ASSUME SettingsTypeOK, NEW s \in Nat, NEW e \in BOOLEAN, Start(s, e),
         primary' \in Files, phase' \in Phases, saved' \in Nat, accidents' \in Nat
  PROVE  SettingsTypeOK'
  BY DEF SettingsTypeOK, Start

LEMMA FileTypes ==
  /\ Missing \in Files /\ Corrupt \in Files
  /\ \A s \in Nat : Whole(s) \in Files
  BY DEF Files, Missing, Corrupt, Whole

LEMMA AccidentType == SettingsTypeOK /\ Accident => accidents' \in Nat
  BY SettingsBoundsAssumption DEF SettingsTypeOK, Accident

LEMMA LoadTypes == SettingsTypeOK /\ Load => SettingsTypeOK'
<1> SUFFICES ASSUME SettingsTypeOK, Load PROVE SettingsTypeOK'
  OBVIOUS
<1> USE FileTypes, AccidentType
<1>0. primary.holds \in Nat /\ backup.holds \in Nat
  BY DEF SettingsTypeOK, Files
<1>1. CASE LoadPrimary
  BY <1>0, <1>1, StartTypes DEF LoadPrimary, SettingsTypeOK, Phases
<1>2. CASE LoadDefaults
  BY <1>2, StartTypes DEF LoadDefaults, SettingsTypeOK, Phases
<1>3. CASE LoadUnopened
  BY <1>0, <1>3, StartTypes DEF LoadUnopened, SettingsTypeOK, Phases
<1>4. CASE LoadBackup
  BY <1>0, <1>4, StartTypes DEF LoadBackup, SettingsTypeOK, Phases
<1>5. CASE LoadNothing
  BY <1>5, StartTypes DEF LoadNothing, SettingsTypeOK, Phases
<1>6. CASE LoadNeither
  BY <1>6, StartTypes DEF LoadNeither, SettingsTypeOK, Phases
<1> QED
  BY <1>1, <1>2, <1>3, <1>4, <1>5, <1>6 DEF Load

LEMMA NextTypes == SettingsTypeOK /\ [SettingsNext]_settingsVars => SettingsTypeOK'
<1> SUFFICES ASSUME SettingsTypeOK, [SettingsNext]_settingsVars PROVE SettingsTypeOK'
  OBVIOUS
<1> USE FileTypes, AccidentType DEF fileVars, widgetVars, settingsHistory
<1>w. Written \in Nat
  BY DEF Written, SettingsTypeOK
<1>1. CASE Load
  BY <1>1, LoadTypes
<1>2. CASE EnableSettingsSave
  BY <1>2 DEF EnableSettingsSave, SettingsTypeOK
<1>3. CASE Change
  BY <1>3 DEF Change, MaySave, SettingsTypeOK
<1>4. CASE SaveSettingsNow
  BY <1>4 DEF SaveSettingsNow, SettingsTypeOK, Phases
<1>5. CASE Close
  BY <1>5 DEF Close, SettingsTypeOK, Phases
<1>6. CASE WritePrimary
  BY <1>6, <1>w DEF WritePrimary, Writing, SettingsTypeOK, Phases
<1>7. CASE WriteBackup
  BY <1>7, <1>w DEF WriteBackup, AfterSave, SettingsTypeOK, Phases
<1>8. CASE WriteFails
  BY <1>8 DEF WriteFails, AfterSave, SettingsTypeOK, Phases
<1>9. CASE Die
  BY <1>9 DEF Die, Torn, SettingsTypeOK, Phases
<1>10. CASE Damage
  BY <1>10 DEF Damage, SettingsTypeOK
<1>11. CASE DeleteSettings
  BY <1>11 DEF DeleteSettings, SettingsTypeOK
<1>12. CASE UNCHANGED settingsVars
  BY <1>12 DEF settingsVars, SettingsTypeOK
<1> QED
  BY <1>1, <1>2, <1>3, <1>4, <1>5, <1>6, <1>7, <1>8, <1>9, <1>10, <1>11, <1>12
  DEF SettingsNext

-----------------------------------------------------------------------------
\* A start from settings at least as new as the last save, or one that may not
\* save
Starts ==
    /\ settings' = wish' /\ wish' <= chosen /\ saved' <= saved
    /\ saveEnabled' => wish' >= saved'
    /\ saveTimer' = FALSE
    /\ phase' \in {"on", "repair"} /\ (phase' = "repair" => saveEnabled')
    /\ backup' = backup /\ chosen' = chosen
    /\ primary'.holds <= chosen /\ (primary'.state = "whole" => primary' = primary)
    /\ OneReadable'

LEMMA StartKeeps == SettingsInv /\ SettingsTypeOK' /\ Starts => Kept'
<1> SUFFICES ASSUME SettingsInv, SettingsTypeOK', Starts PROVE Kept'
  OBVIOUS
<1> USE DEF Starts
<1>0. /\ Chosen /\ NoFileBehind
      /\ primary.holds \in Nat /\ backup.holds \in Nat
      /\ saved \in Nat /\ saved' \in Nat /\ chosen \in Nat
  BY DEF SettingsInv, Kept, SettingsTypeOK, Files
<1>1. Chosen' /\ NoFileBehind'
  BY <1>0 DEF Chosen, NoFileBehind
<1>2. WritersAllowed' /\ FileFirst'
  BY DEF WritersAllowed, FileFirst, Writing, WritingBackup, Loading
<1>3. ClientHasSettings' /\ TimerAllowed' /\ ChangesWaitForSave'
  BY DEF ClientHasSettings, TimerAllowed, ChangesWaitForSave
<1> QED
  BY <1>1, <1>2, <1>3 DEF Kept

LEMMA LoadKeeps == SettingsInv /\ SettingsTypeOK' /\ Load => Kept'
<1> SUFFICES ASSUME SettingsInv, SettingsTypeOK', Load PROVE Kept'
  OBVIOUS
<1>0. /\ primary.holds \in Nat /\ backup.holds \in Nat
      /\ saved \in Nat /\ chosen \in Nat
      /\ primary.holds <= chosen /\ backup.holds <= chosen
      /\ NoFileBehind /\ OneReadable
  BY DEF SettingsInv, SettingsTypeOK, Files, Kept, Chosen
<1>1. CASE LoadPrimary
  <2>1. Starts
    BY <1>0, <1>1 DEF LoadPrimary, Start, Starts, OneReadable, NoFileBehind
  <2> QED
    BY <2>1, StartKeeps
<1>2. CASE LoadDefaults
  <2>1. Starts
    BY <1>0, <1>2 DEF LoadDefaults, Start, Starts, OneReadable
  <2> QED
    BY <2>1, StartKeeps
<1>3. CASE LoadUnopened
  <2>1. Starts
    BY <1>0, <1>3 DEF LoadUnopened, Start, Starts, OneReadable, NoFileBehind
  <2> QED
    BY <2>1, StartKeeps
<1>4. CASE LoadBackup
  <2>1. Starts
    BY <1>0, <1>4 DEF LoadBackup, Start, Starts, OneReadable, NoFileBehind
  <2> QED
    BY <2>1, StartKeeps
<1>5. CASE LoadNothing
  <2>1. Starts
    BY <1>0, <1>5 DEF LoadNothing, Start, Starts, OneReadable, Missing
  <2> QED
    BY <2>1, StartKeeps
<1>6. CASE LoadNeither
  <2>1. Starts
    BY <1>0, <1>6 DEF LoadNeither, Start, Starts, OneReadable, Missing
  <2> QED
    BY <2>1, StartKeeps
<1> QED
  BY <1>1, <1>2, <1>3, <1>4, <1>5, <1>6 DEF Load

LEMMA WritePrimaryKeeps == SettingsInv /\ WritePrimary => Kept'
<1> SUFFICES ASSUME SettingsInv, WritePrimary PROVE Kept'
  OBVIOUS
<1>0. /\ phase \in Writing /\ phase' \in WritingBackup
      /\ phase' \in Loading <=> phase \in Loading
      /\ primary' = Whole(Written) /\ backup' = backup
      /\ UNCHANGED <<widgetVars, settingsHistory>>
  BY DEF WritePrimary, Writing, WritingBackup, Loading
<1>1. /\ Written \in Nat /\ Written' = Written
      /\ Written >= saved /\ Written <= chosen
  <2>1. Written = wish
    BY <1>0 DEF SettingsInv, Kept, WritersAllowed, Written
  <2>2. Written' = Written
    BY <1>0 DEF Written, widgetVars
  <2>3. wish \in Nat /\ wish >= saved /\ wish <= chosen
    BY <1>0 DEF SettingsInv, SettingsTypeOK, Kept, WritersAllowed, ClientHasSettings, Chosen, Writing
  <2> QED
    BY <2>1, <2>2, <2>3
<1>2. Chosen' /\ NoFileBehind' /\ OneReadable'
  BY <1>0, <1>1 DEF SettingsInv, Kept, Chosen, NoFileBehind, OneReadable, Whole, widgetVars,
                    settingsHistory
<1>3. WritersAllowed'
  BY <1>0 DEF SettingsInv, Kept, WritersAllowed, widgetVars
<1>4. FileFirst'
  BY <1>0, <1>1 DEF FileFirst, Whole
<1>5. ClientHasSettings'
  BY <1>0 DEF SettingsInv, Kept, ClientHasSettings, Writing, widgetVars, settingsHistory
<1>6. TimerAllowed' /\ ChangesWaitForSave'
  BY <1>0 DEF SettingsInv, Kept, TimerAllowed, MaySave, ChangesWaitForSave, WritingBackup, widgetVars
<1> QED
  BY <1>2, <1>3, <1>4, <1>5, <1>6 DEF Kept

LEMMA WriteBackupKeeps == SettingsInv /\ WriteBackup => Kept'
<1> SUFFICES ASSUME SettingsInv, WriteBackup PROVE Kept'
  OBVIOUS
<1>0. /\ phase \in WritingBackup /\ phase' \in {"on", "off"}
      /\ primary' = primary /\ backup' = Whole(Written)
      /\ saved' = Written /\ settings' = Written
      /\ wish' = wish /\ chosen' = chosen
      /\ saveEnabled' = saveEnabled /\ ready' = ready /\ saveTimer' = saveTimer
  BY DEF WriteBackup, AfterSave
<1>1. Written = wish /\ wish \in Nat /\ wish <= chosen
  BY DEF SettingsInv, SettingsTypeOK, Kept, WritersAllowed, Written, Chosen
<1>2. Chosen'
  BY <1>0, <1>1 DEF SettingsInv, Kept, Chosen, Whole
<1>3. NoFileBehind'
  BY <1>0, <1>1 DEF SettingsInv, Kept, FileFirst, NoFileBehind, Whole
<1>4. OneReadable'
  BY <1>0 DEF SettingsInv, SettingsTypeOK, Files, Kept, FileFirst, OneReadable, Whole
<1>5. WritersAllowed' /\ FileFirst'
  BY <1>0 DEF WritersAllowed, FileFirst, Writing, WritingBackup, Loading
<1>6. ClientHasSettings'
  BY <1>0, <1>1 DEF ClientHasSettings
<1>7. TimerAllowed'
  BY <1>0 DEF SettingsInv, Kept, TimerAllowed, MaySave
<1>8. ChangesWaitForSave'
  BY <1>0, <1>1 DEF ChangesWaitForSave
<1> QED
  BY <1>2, <1>3, <1>4, <1>5, <1>6, <1>7, <1>8 DEF Kept

LEMMA ChangeKeeps == SettingsInv /\ Change => Kept'
<1> SUFFICES ASSUME SettingsInv, Change PROVE Kept'
  OBVIOUS
<1>0. /\ phase = "on" /\ phase' = "on"
      /\ chosen' = chosen + 1 /\ wish' = chosen'
      /\ UNCHANGED <<primary, backup, settings, saved, saveEnabled, ready>>
  BY DEF Change, fileVars
<1>1. chosen \in Nat /\ saved \in Nat /\ settings \in Nat /\ Chosen
      /\ primary.holds \in Nat /\ backup.holds \in Nat
  BY DEF SettingsInv, SettingsTypeOK, Files, Kept
<1>2. Chosen' /\ ClientHasSettings'
  BY <1>0, <1>1 DEF Chosen, ClientHasSettings
<1>3. NoFileBehind' /\ OneReadable'
  BY <1>0 DEF SettingsInv, Kept, NoFileBehind, OneReadable
<1>4. WritersAllowed' /\ FileFirst'
  BY <1>0 DEF WritersAllowed, FileFirst, Writing, WritingBackup, Loading
<1>5. TimerAllowed' /\ ChangesWaitForSave'
  <2>1. (saveTimer \/ MaySave) => MaySave
    BY DEF SettingsInv, Kept, TimerAllowed
  <2>2. saveTimer' = (saveTimer \/ MaySave) /\ unsaved' = (unsaved \/ ~MaySave)
    BY DEF Change
  <2>3. MaySave' = MaySave
    BY <1>0 DEF MaySave
  <2> QED
    BY <2>1, <2>2, <2>3 DEF TimerAllowed, ChangesWaitForSave
<1> QED
  BY <1>2, <1>3, <1>4, <1>5 DEF Kept

\* One file may be lost as long as the other can be read, or nothing was saved.
LEMMA DamageKeeps == SettingsInv /\ Damage => Kept'
<1> SUFFICES ASSUME SettingsInv, Damage PROVE Kept'
  OBVIOUS
<1>0. UNCHANGED <<phase, widgetVars, settingsHistory>>
  BY DEF Damage
<1>1. /\ primary' \in {primary, Corrupt} /\ backup' \in {backup, Corrupt}
      /\ primary'.state = "missing" => primary.state = "missing"
  BY DEF Damage, Corrupt
<1>2. Corrupt.holds = 0 /\ Corrupt.state = "corrupt"
  BY DEF Corrupt
<1>3. Chosen'
  BY <1>0, <1>1, <1>2 DEF SettingsInv, SettingsTypeOK, Kept, Chosen, widgetVars, settingsHistory
<1>4. NoFileBehind'
  BY <1>0, <1>1, <1>2 DEF SettingsInv, Kept, NoFileBehind, settingsHistory
<1>5. OneReadable'
  BY <1>0, <1>2 DEF Damage, SettingsInv, Kept, OneReadable, settingsHistory
<1>6. WritersAllowed' /\ ClientHasSettings' /\ TimerAllowed' /\ ChangesWaitForSave'
  BY <1>0 DEF SettingsInv, Kept, WritersAllowed, ClientHasSettings, TimerAllowed, MaySave,
              ChangesWaitForSave, widgetVars, settingsHistory
<1>7. FileFirst'
  BY <1>0, <1>1, <1>2 DEF SettingsInv, Kept, FileFirst, Written, widgetVars
<1> QED
  BY <1>3, <1>4, <1>5, <1>6, <1>7 DEF Kept

LEMMA NextKeeps == SettingsInv /\ SettingsTypeOK' /\ [SettingsNext]_settingsVars => Kept'
<1> SUFFICES ASSUME SettingsInv, SettingsTypeOK', [SettingsNext]_settingsVars PROVE Kept'
  OBVIOUS
<1> USE DEF SettingsInv, SettingsTypeOK, Kept, Chosen, NoFileBehind, OneReadable, WritersAllowed,
            FileFirst, ClientHasSettings, TimerAllowed, ChangesWaitForSave, MaySave, Written,
            Writing, WritingBackup, Loading, Files, fileVars, widgetVars, settingsHistory
<1>1. CASE EnableSettingsSave
  BY <1>1 DEF EnableSettingsSave
<1>2. CASE SaveSettingsNow
  BY <1>2 DEF SaveSettingsNow
<1>3. CASE Close
  BY <1>3 DEF Close
<1>4. CASE WriteFails
  BY <1>4 DEF WriteFails, AfterSave
<1>5. CASE Die
  BY <1>5 DEF Die, Torn
<1>6. CASE DeleteSettings
  BY <1>6 DEF DeleteSettings, Missing
<1>7. CASE UNCHANGED settingsVars
  BY <1>7 DEF settingsVars
<1> HIDE DEF SettingsInv, Kept, SettingsTypeOK
<1> QED
  BY <1>1, <1>2, <1>3, <1>4, <1>5, <1>6, <1>7, LoadKeeps, ChangeKeeps, WritePrimaryKeeps,
     WriteBackupKeeps, DamageKeeps
  DEF SettingsNext

-----------------------------------------------------------------------------
LEMMA Invariance == SettingsSpec => []SettingsInv
<1>1. SettingsInv /\ [SettingsNext]_settingsVars => SettingsInv'
  BY NextTypes, NextKeeps DEF SettingsInv
<1> QED
  BY InitSettingsInv, <1>1, PTL DEF SettingsSpec

(***************************************************************************)
(* Whatever a client loads, writes or leaves half done, its variables and   *)
(* the two files keep their types.                                          *)
(***************************************************************************)
THEOREM SettingsTypes == SettingsSpec => []SettingsTypeOK
<1>1. SettingsInv => SettingsTypeOK
  BY DEF SettingsInv
<1> QED
  BY Invariance, <1>1, PTL

(***************************************************************************)
(* For any number of choices, deaths, failed accesses and damages: what was *)
(* saved can be read back, no client that may save started from less, and   *)
(* every change waits for its save (save_mini_settings and                  *)
(* load_mini_settings_with_status).                                         *)
(***************************************************************************)
THEOREM SavedSettingsSurvive == SettingsSpec => []SettingsSurvive
<1>1. SettingsInv => SettingsSurvive
  BY DEF SettingsInv, SettingsTypeOK, Files, Kept, NoFileBehind, OneReadable, SettingsSurvive,
         FilesKeepSettings
<1> QED
  BY Invariance, <1>1, PTL
-----------------------------------------------------------------------------
(* Signals.                                                                *)

\* What maybe_signal remembers of a row is no less than the least value it had
\* on screen since the last signal, thresholds have not been higher than the
\* highest, and what is not loud was within the threshold when last rendered.
Remembered ==
    /\ initialized = rendered
    /\ \A t \in Tasks : lowest[t] <= values[t] /\ lowest[t] <= visible[t]
    /\ \A t \in Tasks \ seen : values[t] = 0
    /\ lastThreshold <= highest /\ threshold <= highest
    /\ rendered => \A t \in Tasks \ loud : values[t] <= lastThreshold

SignalsInv == SignalsTypeOK /\ Remembered

LEMMA VisibleType == SignalsTypeOK => visible \in Values
<1> SUFFICES ASSUME SignalsTypeOK PROVE visible \in Values
  OBVIOUS
<1>1. 0 \in 0 .. MaxValue
  BY SignalsAssumption
<1>2. list \in Values
  BY DEF SignalsTypeOK
<1> QED
  BY <1>1, <1>2 DEF visible, Values

\* All that is compared is a number.
LEMMA SignalNumbers ==
    SignalsTypeOK =>
        /\ threshold \in Nat /\ lastThreshold \in Nat /\ highest \in Nat
        /\ \A t \in Tasks : visible[t] \in Nat /\ values[t] \in Nat /\ lowest[t] \in Nat
<1> SUFFICES ASSUME SignalsTypeOK
             PROVE  /\ threshold \in Nat /\ lastThreshold \in Nat /\ highest \in Nat
                    /\ \A t \in Tasks : visible[t] \in Nat /\ values[t] \in Nat /\ lowest[t] \in Nat
  OBVIOUS
<1>1. threshold \in Nat /\ lastThreshold \in Nat /\ highest \in Nat
  BY SignalsAssumption DEF SignalsTypeOK
<1>2. visible \in Values /\ values \in Values /\ lowest \in Values
  BY VisibleType DEF SignalsTypeOK
<1>3. 0 .. MaxValue \subseteq Nat
  BY SignalsAssumption
<1> HIDE DEF visible
<1>4. \A t \in Tasks : visible[t] \in Nat /\ values[t] \in Nat /\ lowest[t] \in Nat
  BY <1>2, <1>3 DEF Values
<1> QED
  BY <1>1, <1>4

LEMMA NothingSeen == NoRows \in Values /\ NoKey \in Keys /\ \A t \in Tasks : NoRows[t] = 0
<1>1. NoRows \in Values
  BY SignalsAssumption DEF NoRows, Values
<1>2. NoKey \in Keys
  BY DEF NoKey, Keys
<1>3. \A t \in Tasks : NoRows[t] = 0
  BY DEF NoRows
<1> QED
  BY <1>1, <1>2, <1>3

LEMMA InitSignals == SignalsInit => SignalsInv
<1> SUFFICES ASSUME SignalsInit PROVE SignalsInv
  OBVIOUS
<1>1. SignalsTypeOK
  BY NothingSeen, SignalsAssumption DEF SignalsInit, SignalsTypeOK
<1>2. \A t \in Tasks : visible[t] \in Nat /\ threshold \in Nat
  BY <1>1, SignalNumbers
<1> HIDE DEF visible
<1>3. /\ lowest = NoRows /\ values = NoRows /\ highest = threshold /\ lastThreshold = 0
      /\ initialized = FALSE /\ rendered = FALSE /\ threshold \in Nat
  BY SignalsAssumption DEF SignalsInit
<1>4. \A t \in Tasks : lowest[t] = 0 /\ values[t] = 0
  BY <1>3, NothingSeen
<1>5. \A t \in Tasks : lowest[t] <= values[t] /\ lowest[t] <= visible[t]
  BY <1>2, <1>4
<1> HIDE DEF visible
<1>6. Remembered
  <2>1. threshold \in Nat /\ highest = threshold /\ lastThreshold = 0
    BY <1>3
  <2>3. lastThreshold <= highest /\ threshold <= highest
    BY ONLY <2>1
  <2>4. initialized = rendered /\ ~rendered
    BY <1>3, Zenon
  <2>2. \A t \in Tasks \ seen : values[t] = 0
    BY <1>4
  <2> QED
    BY <1>5, <2>2, <2>3, <2>4 DEF Remembered
<1> QED
  BY <1>1, <1>6 DEF SignalsInv

\* Between two renders rows only make the least value on screen smaller.
LEMMA WatchedKeeps ==
    ASSUME SignalsInv, Watched, list' \in Values, listVersion' \in Nat,
           hidden' \in SUBSET Tasks,
           UNCHANGED <<ownerVars, memoryVars, renderHistory, highest>>
    PROVE  SignalsInv'
<1>1. visible' \in Values
  <2>1. 0 \in 0 .. MaxValue
    BY SignalsAssumption
  <2> QED
    BY <2>1 DEF visible, Values
<1>2. \A t \in Tasks : visible'[t] \in Nat /\ visible'[t] \in 0 .. MaxValue
  <2> HIDE DEF visible
  <2> QED
    BY <1>1, SignalsAssumption DEF Values
<1>3. \A t \in Tasks : lowest[t] \in Nat /\ lowest[t] \in 0 .. MaxValue /\ values[t] \in Nat
  BY SignalNumbers DEF SignalsInv, SignalsTypeOK, Values
<1>4. \A t \in Tasks : lowest[t] <= values[t]
  BY DEF SignalsInv, Remembered
<1> HIDE DEF visible
<1>5. lowest' \in Values
  BY <1>2, <1>3 DEF Watched, Values
<1>6. \A t \in Tasks : lowest'[t] <= values[t] /\ lowest'[t] <= visible'[t]
  BY <1>2, <1>3, <1>4 DEF Watched
<1>7. SignalsTypeOK'
  BY <1>5 DEF SignalsInv, SignalsTypeOK, ownerVars, memoryVars, renderHistory
<1>8. Remembered'
  BY <1>6 DEF SignalsInv, Remembered, ownerVars, memoryVars, renderHistory
<1> QED
  BY <1>7, <1>8 DEF SignalsInv

LEMMA RenderRemembers == SignalsInv /\ MaybeSignal => SignalsInv'
<1> SUFFICES ASSUME SignalsInv, MaybeSignal PROVE SignalsInv'
  OBVIOUS
<1>1. visible \in Values /\ SignalsTypeOK /\ Remembered
  BY VisibleType DEF SignalsInv
<1>2. visible' = visible /\ UNCHANGED <<rowVars, ownerVars>>
  BY DEF MaybeSignal, visible, rowVars
<1>3. /\ threshold \in Nat /\ highest \in Nat
      /\ \A t \in Tasks : visible[t] \in Nat /\ lowest[t] \in Nat
  BY <1>1, SignalNumbers
<1> HIDE DEF visible
<1>4. SignalKey \in Keys
  BY <1>1, SignalsAssumption DEF SignalsTypeOK, SignalKey, Keys, OverLimit
<1>5. lastKey' \in Keys /\ signals' \in Nat
  <2>1. CASE PlaySignal
    BY <1>1, <1>4, <2>1 DEF MaybeSignal, SignalsTypeOK
  <2>2. CASE ~PlaySignal
    BY <1>1, <2>2 DEF MaybeSignal, SignalsTypeOK
  <2> QED
    BY <2>1, <2>2
<1>6. /\ lowest' \in Values /\ highest' \in Thresholds
      /\ \A t \in Tasks : lowest'[t] <= visible[t]
      /\ threshold <= highest'
  <2>1. CASE PlaySignal \/ ~rendered
    BY <1>1, <1>3, <2>1 DEF MaybeSignal, SignalsTypeOK
  <2>2. CASE ~(PlaySignal \/ ~rendered)
    BY <1>1, <1>3, <2>2 DEF MaybeSignal, SignalsTypeOK, Remembered
  <2> QED
    BY <2>1, <2>2
<1>7. SignalsTypeOK'
  <2>1. /\ seen' \subseteq Tasks /\ loud' \subseteq Tasks /\ values' \in Values
        /\ initialized' \in BOOLEAN /\ rendered' \in BOOLEAN /\ renders' \in Nat
        /\ lastThreshold' \in Thresholds \cup {0}
    BY <1>1 DEF MaybeSignal, SignalsTypeOK, LoudRows
  <2> QED
    BY <1>1, <1>2, <1>5, <1>6, <2>1 DEF SignalsTypeOK, rowVars, ownerVars
<1>8. Remembered'
  <2>1. \A t \in Tasks \ seen' : values'[t] = 0
    BY <1>3 DEF MaybeSignal
  <2>2. \A t \in Tasks \ loud' : values'[t] <= lastThreshold'
    BY <1>3 DEF MaybeSignal, LoudRows
  <2>3. /\ initialized' = rendered' /\ values' = visible
        /\ lastThreshold' = threshold /\ threshold' = threshold
    BY <1>2 DEF MaybeSignal, ownerVars
  <2> QED
    BY <1>2, <1>6, <2>1, <2>2, <2>3 DEF Remembered
<1> QED
  BY <1>7, <1>8 DEF SignalsInv

LEMMA SwitchForgets == SignalsInv /\ SwitchSourceOfSignals => SignalsInv'
<1> SUFFICES ASSUME SignalsInv, SwitchSourceOfSignals PROVE SignalsInv'
  OBVIOUS
<1>1. SignalsTypeOK'
  BY NothingSeen DEF SignalsInv, SignalsTypeOK, SwitchSourceOfSignals
<1>2. visible' \in Values
  <2>1. 0 \in 0 .. MaxValue /\ list' \in Values
    BY <1>1, SignalsAssumption DEF SignalsTypeOK
  <2> QED
    BY <2>1 DEF visible, Values
<1>3. \A t \in Tasks : visible'[t] \in Nat
  <2> HIDE DEF visible
  <2> QED
    BY <1>2, SignalsAssumption DEF Values
<1>4. /\ lowest' = NoRows /\ values' = NoRows /\ highest' = threshold' /\ lastThreshold' = 0
      /\ initialized' = FALSE /\ rendered' = FALSE /\ threshold' \in Nat
  BY SignalsAssumption DEF SwitchSourceOfSignals
<1>5. \A t \in Tasks : lowest'[t] = 0 /\ values'[t] = 0
  BY <1>4, NothingSeen
<1> HIDE DEF visible
<1>6. \A t \in Tasks : lowest'[t] <= values'[t] /\ lowest'[t] <= visible'[t]
  BY <1>3, <1>5
<1>7. Remembered'
  <2>1. threshold' \in Nat /\ highest' = threshold' /\ lastThreshold' = 0
    BY <1>4
  <2>3. lastThreshold' <= highest' /\ threshold' <= highest'
    BY ONLY <2>1
  <2>4. initialized' = rendered' /\ ~rendered'
    BY <1>4, Zenon
  <2>2. \A t \in Tasks \ seen' : values'[t] = 0
    BY <1>5
  <2> QED
    BY <1>6, <2>2, <2>3, <2>4 DEF Remembered
<1> QED
  BY <1>1, <1>7 DEF SignalsInv

LEMMA NextSignals == SignalsInv /\ [SignalsNext]_signalVars => SignalsInv'
<1> SUFFICES ASSUME SignalsInv, [SignalsNext]_signalVars PROVE SignalsInv'
  OBVIOUS
<1>1. CASE NewCalls
  BY <1>1, WatchedKeeps DEF NewCalls, SignalsInv, SignalsTypeOK
<1>2. CASE SetLimit
  BY <1>2, WatchedKeeps DEF SetLimit, SignalsInv, SignalsTypeOK
<1>3. CASE SwitchSourceOfSignals
  BY <1>3, SwitchForgets
<1>4. CASE SetThreshold
  <2>1. visible' = visible
    BY <1>4 DEF SetThreshold, rowVars, visible
  <2>2. threshold \in Nat /\ highest \in Nat /\ lastThreshold \in Nat
    BY SignalNumbers DEF SignalsInv
  <2>3. /\ threshold' \in Thresholds /\ highest' \in Thresholds
        /\ threshold' <= highest' /\ highest <= highest' /\ highest' \in Nat
    BY <1>4, <2>2, SignalsAssumption DEF SetThreshold, SignalsInv, SignalsTypeOK
  <2>4. UNCHANGED <<list, listVersion, hidden, enabled, seen, values, initialized,
                    lastThreshold, lastKey, signals, loud, rendered, renders, lowest>>
    BY <1>4 DEF SetThreshold, rowVars, memoryVars, renderHistory
  <2>5. SignalsTypeOK'
    BY <2>3, <2>4 DEF SignalsInv, SignalsTypeOK
  <2>6. lastThreshold' <= highest'
    BY <2>2, <2>3, <2>4 DEF SignalsInv, Remembered
  <2> HIDE DEF visible
  <2>7. Remembered'
    BY <2>1, <2>3, <2>4, <2>6 DEF SignalsInv, Remembered
  <2> QED
    BY <2>5, <2>7 DEF SignalsInv
<1>5. CASE ToggleSignal
  <2>1. visible' = visible
    BY <1>5 DEF ToggleSignal, rowVars, visible
  <2> HIDE DEF visible
  <2> QED
    BY <1>5, <2>1 DEF ToggleSignal, SignalsInv, SignalsTypeOK, Remembered, rowVars, memoryVars,
                      renderHistory
<1>6. CASE MaybeSignal
  BY <1>6, RenderRemembers
<1>7. CASE UNCHANGED signalVars
  <2>1. visible' = visible
    BY <1>7 DEF signalVars, rowVars, visible
  <2> HIDE DEF visible
  <2> QED
    BY <1>7, <2>1 DEF signalVars, SignalsInv, SignalsTypeOK, Remembered, rowVars, ownerVars,
                      memoryVars, renderHistory
<1> QED
  BY <1>1, <1>2, <1>3, <1>4, <1>5, <1>6, <1>7 DEF SignalsNext

LEMMA SignalsInvariance == SignalsSpec => []SignalsInv
  BY InitSignals, NextSignals, PTL DEF SignalsSpec

\* What is signalled had crossed a threshold since the last signal.
LEMMA SignalIsOfNews == SignalsInv /\ PlaySignal => SomethingCrossed
<1> SUFFICES ASSUME SignalsInv, PlaySignal PROVE SomethingCrossed
  OBVIOUS
<1>1. PICK t \in Tasks : CrossedThreshold(t) \/ CrossedLowered(t)
  BY DEF PlaySignal, OverLimit
<1>2. /\ threshold \in Nat /\ lastThreshold \in Nat /\ highest \in Nat
      /\ visible[t] \in Nat /\ values[t] \in Nat /\ lowest[t] \in Nat
  BY SignalNumbers DEF SignalsInv
<1>3. /\ lowest[t] <= values[t] /\ (t \notin seen => values[t] = 0)
      /\ lastThreshold <= highest /\ threshold <= highest
  BY DEF SignalsInv, Remembered
<1> HIDE DEF visible
<1>4. visible[t] > threshold /\ lowest[t] <= highest
  BY <1>1, <1>2, <1>3 DEF CrossedThreshold, CrossedLowered
<1> QED
  BY <1>4 DEF SomethingCrossed

\* A row that was within the threshold when it was shown is not missed.
LEMMA NewlyLoudIsOver == SignalsInv /\ rendered /\ NewlyLoud => OverLimit # {}
<1> SUFFICES ASSUME SignalsInv, rendered, NewlyLoud PROVE OverLimit # {}
  OBVIOUS
<1>1. PICK t \in Tasks \ loud : visible[t] > threshold
  BY DEF NewlyLoud
<1>2. /\ threshold \in Nat /\ lastThreshold \in Nat
      /\ visible[t] \in Nat /\ values[t] \in Nat
  BY SignalNumbers DEF SignalsInv
<1>3. values[t] <= lastThreshold
  BY DEF SignalsInv, Remembered
<1> HIDE DEF visible
<1>4. CrossedThreshold(t) \/ CrossedLowered(t)
  <2>1. CASE threshold < lastThreshold
    BY <1>1, <1>3, <2>1 DEF CrossedLowered
  <2>2. CASE ~(threshold < lastThreshold)
    <3>1. values[t] <= threshold
      BY <1>2, <1>3, <2>2
    <3> QED
      BY <1>1, <3>1 DEF CrossedThreshold
  <2> QED
    BY <2>1, <2>2
<1> QED
  BY <1>4 DEF OverLimit

(***************************************************************************)
(* The model's variables of the signals keep their types (maybe_signal and  *)
(* what it remembers).                                                      *)
(***************************************************************************)
THEOREM SignalTypes == SignalsSpec => []SignalsTypeOK
<1>1. SignalsInv => SignalsTypeOK
  BY DEF SignalsInv
<1> QED
  BY <1>1, SignalsInvariance, PTL

(***************************************************************************)
(* However rows come and go, whatever the threshold, the check box and the  *)
(* tab do in between, a render signals only what has crossed a threshold or *)
(* come on screen since the last signal, and it misses no row that has      *)
(* become too costly since it was shown last: the attributes maybe_signal   *)
(* keeps of the last render are enough for both.                            *)
(***************************************************************************)
THEOREM SignalsTellNews == SignalsSpec => SignalsOnce
<1> DEFINE Told == renders' # renders =>
                /\ signals' # signals => SomethingCrossed
                /\ rendered /\ enabled /\ threshold > 0 /\ NewlyLoud /\ ~LastSignalWasOfThese
                    => signals' = signals + 1
<1>1. SignalsInv /\ [SignalsNext]_signalVars => Told
  <2> SUFFICES ASSUME SignalsInv, [SignalsNext]_signalVars, renders' # renders
               PROVE  Told
    OBVIOUS
  <2>1. MaybeSignal
    BY DEF SignalsNext, NewCalls, SetLimit, SwitchSourceOfSignals, SetThreshold, ToggleSignal,
           signalVars, renderHistory
  <2>2. signals' # signals => PlaySignal
    BY <2>1 DEF MaybeSignal
  <2>3. rendered /\ enabled /\ threshold > 0 /\ NewlyLoud /\ ~LastSignalWasOfThese => PlaySignal
    <3> SUFFICES ASSUME rendered, enabled, threshold > 0, NewlyLoud, ~LastSignalWasOfThese
                 PROVE  PlaySignal
      OBVIOUS
    <3>1. OverLimit # {}
      BY NewlyLoudIsOver
    <3>2. SignalKey # lastKey
      BY DEF SignalKey, LastSignalWasOfThese
    <3>3. initialized
      BY DEF SignalsInv, Remembered
    <3> QED
      BY <3>1, <3>2, <3>3 DEF PlaySignal
  <2>4. PlaySignal => signals' = signals + 1
    BY <2>1 DEF MaybeSignal
  <2> QED
    BY <2>2, <2>3, <2>4, SignalIsOfNews
<1>2. SignalsInv /\ [SignalsNext]_signalVars => [Told]_signalVars
  BY <1>1
<1> QED
  BY <1>2, SignalsInvariance, PTL DEF SignalsSpec, SignalsOnce
=============================================================================
