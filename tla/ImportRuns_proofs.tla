-------------------------- MODULE ImportRuns_proofs --------------------------
(***************************************************************************)
(* Proofs about ImportRuns, for every number of handler threads, rows and  *)
(* failures.                                                               *)
(***************************************************************************)
EXTENDS ImportRuns, TLAPS

(***************************************************************************)
(* A thread between taking the lock and giving it back is its holder; the  *)
(* published status is "running" for the importing stages alone, and after *)
(* them it is that of the thread's own run until another run begins.       *)
(***************************************************************************)
Holding(t) == pc[t] \in {"warnings", "codex", "opencode", "publish", "release"}

LockInv ==
    /\ \A t \in Threads : Holding(t) => lock = t
    /\ state.status = "running" <=> \E t \in Threads : Importing(t)

StatusInv ==
    \A t \in Threads :
        pc[t] = "release" \/ (pc[t] = "status" /\ ~overtaken[t])
            => state = FinalState(failed[t])

(***************************************************************************)
(* The sources a thread's run is done with.                                *)
(***************************************************************************)
DoneWith(t, s) ==
    \/ s = "codex" /\ pc[t] \in {"opencode", "publish", "release", "status", "load"}
    \/ s = "opencode" /\ pc[t] \in {"publish", "release", "status", "load"}

FreshInv ==
    /\ \A s \in Sources : data[s] <= rows[s]
    /\ \A t \in Threads, s \in Sources : asked[t][s] <= rows[s]
    /\ \A t \in Threads : \A s \in configured \ failed[t] :
          DoneWith(t, s) => data[s] >= asked[t][s]

IInv == TypeOK /\ LockInv /\ StatusInv /\ FreshInv

-----------------------------------------------------------------------------
(***************************************************************************)
(* Nobody holds the lock for a thread, and the threads are those named.    *)
(***************************************************************************)
LEMMA ThreadFacts == Nobody \notin Threads /\ Background \in Threads /\ Handlers \subseteq Threads
  BY ThreadAssumption DEF Threads

LEMMA InitEstablishesIInv == Init => IInv
  <1> SUFFICES ASSUME Init PROVE IInv
    OBVIOUS
  <1>1. TypeOK
    BY RunBoundsAssumption
    DEF Init, TypeOK, Rested, IdleState, NoRows, Stages, Threads
  <1>2. \A t \in Threads : pc[t] \in {"idle", "ended", "asleep"}
    BY DEF Init, Rested
  <1>3. LockInv /\ StatusInv
    BY <1>2 DEF Init, LockInv, StatusInv, Holding, Importing, IdleState
  <1>4. FreshInv
    BY <1>2 DEF Init, FreshInv, NoRows, DoneWith
  <1> QED
    BY <1>1, <1>3, <1>4 DEF IInv

(***************************************************************************)
(* The sources and the threads that only begin to wait.                    *)
(***************************************************************************)
LEMMA SourceLogsKeepsIInv == IInv /\ SourceLogs => IInv'
  <1> SUFFICES ASSUME IInv, SourceLogs PROVE IInv'
    OBVIOUS
  <1>1. PICK s \in configured : rows[s] < MaxRows /\ rows' = [rows EXCEPT ![s] = @ + 1]
    BY DEF SourceLogs
  <1>2. s \in Sources /\ rows' \in [Sources -> 0 .. MaxRows]
    BY <1>1, RunBoundsAssumption DEF IInv, TypeOK
  <1>3. \A r \in Sources : rows'[r] >= rows[r]
    BY <1>1, <1>2, RunBoundsAssumption DEF IInv, TypeOK
  <1>4. TypeOK'
    BY <1>2 DEF IInv, TypeOK, SourceLogs, history
  <1>5. LockInv' /\ StatusInv'
    BY DEF IInv, LockInv, StatusInv, Holding, Importing, SourceLogs, history
  <1>6. FreshInv'
    BY <1>2, <1>3, RunBoundsAssumption
    DEF IInv, TypeOK, FreshInv, DoneWith, SourceLogs, history
  <1> QED
    BY <1>4, <1>5, <1>6 DEF IInv

LEMMA AsksKeepsIInv ==
    ASSUME IInv, NEW t \in Threads, NEW kind \in {"refresh", "import", "auto"},
           pc[t] \in {"idle", "asleep"}, Asks(t, kind)
    PROVE  IInv'
  <1>1. /\ pc' = [pc EXCEPT ![t] = "waiting"]
        /\ asked' = [asked EXCEPT ![t] = IF kind = "refresh" THEN rows ELSE NoRows]
        /\ rows' = rows /\ data' = data /\ lock' = lock /\ state' = state
        /\ failed' = failed /\ overtaken' = overtaken /\ configured' = configured
    BY DEF Asks, environment
  <1>2. NoRows \in [Sources -> 0 .. MaxRows]
    BY RunBoundsAssumption DEF NoRows
  <1>3. TypeOK'
    BY <1>1, <1>2 DEF IInv, TypeOK, Asks, environment, Stages
  <1>4. LockInv' /\ StatusInv'
    BY <1>1 DEF IInv, TypeOK, LockInv, StatusInv, Holding, Importing
  <1>5. FreshInv'
    BY <1>1, <1>2 DEF IInv, TypeOK, FreshInv, DoneWith, NoRows
  <1> QED
    BY <1>3, <1>4, <1>5 DEF IInv

(***************************************************************************)
(* A thread that takes the lock finds no other in its stages.              *)
(***************************************************************************)
LEMMA AcquireKeepsIInv ==
    ASSUME IInv, NEW t \in Threads, AcquireLock(t)
    PROVE  IInv'
  <1>1. /\ pc[t] = "waiting" /\ lock = Nobody /\ lock' = t
        /\ pc' = [pc EXCEPT ![t] = "warnings"]
        /\ rows' = rows /\ data' = data /\ state' = state /\ asked' = asked
        /\ failed' = failed /\ overtaken' = overtaken /\ configured' = configured
    BY DEF AcquireLock, MayEnter, environment, history
  <1>2. TypeOK'
    BY <1>1 DEF IInv, TypeOK, AcquireLock, environment, history, Stages
  <1>3. LockInv'
    BY <1>1, ThreadFacts DEF IInv, TypeOK, LockInv, Holding, Importing
  <1>4. StatusInv'
    BY <1>1 DEF IInv, TypeOK, StatusInv
  <1>5. FreshInv'
    BY <1>1 DEF IInv, TypeOK, FreshInv, DoneWith
  <1> QED
    BY <1>2, <1>3, <1>4, <1>5 DEF IInv

(***************************************************************************)
(* The holder of the lock is alone in the stages that need it.             *)
(***************************************************************************)
LEMMA HolderIsAlone ==
    ASSUME IInv, NEW t \in Threads, Holding(t)
    PROVE  lock = t /\ \A u \in Threads : u # t => ~Holding(u) /\ ~Importing(u)
  BY DEF IInv, LockInv, Holding, Importing

LEMMA BeginKeepsIInv ==
    ASSUME IInv, NEW t \in Threads, BeginRun(t)
    PROVE  IInv'
  <1>1. /\ pc[t] = "warnings" /\ state' = [status |-> "running", error |-> {}]
        /\ overtaken' = [u \in Threads |-> overtaken[u] \/ pc[u] = "status"]
        /\ pc' = [pc EXCEPT ![t] = "codex"]
        /\ rows' = rows /\ data' = data /\ lock' = lock /\ asked' = asked
        /\ failed' = failed /\ configured' = configured
    BY DEF BeginRun, RunningState, environment
  <1>2. \A u \in Threads : u # t => ~Holding(u) /\ ~Importing(u)
    BY <1>1, HolderIsAlone DEF Holding
  <1>3. TypeOK'
    BY <1>1 DEF IInv, TypeOK, BeginRun, RunningState, environment, Stages
  <1>4. LockInv'
    BY <1>1, <1>2 DEF IInv, TypeOK, LockInv, Holding, Importing
  <1>5. StatusInv'
    BY <1>1, <1>2 DEF IInv, TypeOK, StatusInv, Holding
  <1>6. FreshInv'
    BY <1>1 DEF IInv, TypeOK, FreshInv, DoneWith
  <1> QED
    BY <1>3, <1>4, <1>5, <1>6 DEF IInv

(***************************************************************************)
(* The import of one source, whether it succeeds or raises.                *)
(***************************************************************************)
LEMMA SourceStepKeepsIInv ==
    ASSUME IInv, NEW t \in Threads, NEW s \in Sources, ImportSource(t, s) \/ SourceFails(t, s)
    PROVE  IInv'
  <1>1. /\ pc[t] = s /\ pc' = [pc EXCEPT ![t] = Following[s]]
        /\ rows' = rows /\ lock' = lock /\ state' = state /\ asked' = asked
        /\ overtaken' = overtaken /\ configured' = configured
    BY DEF ImportSource, SourceFails, AfterFailure, environment, history
  <1>2. /\ s = "codex" => Following[s] = "opencode"
        /\ s = "opencode" => Following[s] = "publish"
        /\ s \in {"codex", "opencode"}
    BY DEF Following, Sources
  <1>3. Holding(t) /\ Importing(t)
    BY <1>1, <1>2 DEF Holding, Importing
  <1>4. \A u \in Threads : u # t => ~Holding(u) /\ ~Importing(u)
    BY <1>3, HolderIsAlone
  <1>5. \/ /\ ImportSource(t, s)
           /\ data' = (IF s \in configured THEN [data EXCEPT ![s] = rows[s]] ELSE data)
           /\ failed' = failed
        \/ /\ SourceFails(t, s)
           /\ data' = data
           /\ failed' = [failed EXCEPT ![t] = @ \cup {s}]
    BY DEF ImportSource, SourceFails
  <1>6. TypeOK'
    <2>1. data' \in [Sources -> 0 .. MaxRows]
      BY <1>5 DEF IInv, TypeOK
    <2>a. failed' \in [Threads -> SUBSET Sources]
      <3>1. failed[t] \cup {s} \in SUBSET Sources
        BY DEF IInv, TypeOK
      <3>2. failed \in [Threads -> SUBSET Sources]
        BY DEF IInv, TypeOK
      <3> QED
        BY <1>5, <3>1, <3>2
    <2>2. pc' \in [Threads -> Stages]
      BY <1>1, <1>2 DEF IInv, TypeOK, Stages
    <2>3. failures' \in 0 .. MaxFailures
      BY RunBoundsAssumption DEF IInv, TypeOK, ImportSource, SourceFails
    <2> QED
      BY <1>1, <2>1, <2>a, <2>2, <2>3
      DEF IInv, TypeOK, ImportSource, SourceFails, environment, history
  <1>7. LockInv'
    BY <1>1, <1>2, <1>3, <1>4 DEF IInv, TypeOK, LockInv, Holding, Importing
  <1>8. StatusInv'
    BY <1>1, <1>2, <1>5 DEF IInv, TypeOK, StatusInv
  <1>9. FreshInv'
    <2>1. \A r \in Sources : data'[r] <= rows[r] /\ data'[r] >= data[r]
      BY <1>5, RunBoundsAssumption DEF IInv, TypeOK, FreshInv
    <2>2. \A u \in Threads : \A r \in configured \ failed'[u] :
            DoneWith(u, r)' => data'[r] >= asked[u][r]
      <3> SUFFICES ASSUME NEW u \in Threads, NEW r \in configured \ failed'[u], DoneWith(u, r)'
                   PROVE  data'[r] >= asked[u][r]
        OBVIOUS
      <3>1. r \in Sources /\ r \notin failed[u]
        BY <1>5 DEF IInv, TypeOK
      <3>2. CASE DoneWith(u, r)
        <4>1. data[r] >= asked[u][r]
          BY <3>1, <3>2 DEF IInv, FreshInv
        <4>2. data[r] \in Nat /\ data'[r] \in Nat /\ asked[u][r] \in Nat
          BY <1>5, <3>1, RunBoundsAssumption DEF IInv, TypeOK
        <4> QED
          BY <2>1, <3>1, <4>1, <4>2
      <3>3. CASE ~DoneWith(u, r)
        <4>1. u = t /\ r = s
          BY <1>1, <1>2, <3>1, <3>3 DEF DoneWith, IInv, TypeOK, Sources
        <4>2. data'[s] = rows[s]
          BY <1>5, <4>1 DEF IInv, TypeOK
        <4> QED
          BY <3>1, <4>1, <4>2 DEF IInv, FreshInv
      <3> QED
        BY <3>2, <3>3
    <2> QED
      BY <1>1, <2>1, <2>2 DEF IInv, FreshInv
  <1> QED
    BY <1>6, <1>7, <1>8, <1>9 DEF IInv

(***************************************************************************)
(* The run's own state is published: no status is "running" any more.      *)
(***************************************************************************)
LEMMA PublishKeepsIInv ==
    ASSUME IInv, NEW t \in Threads, PublishRun(t)
    PROVE  IInv'
  <1>1. /\ pc[t] = "publish" /\ state' = FinalState(failed[t])
        /\ pc' = [pc EXCEPT ![t] = "release"]
        /\ rows' = rows /\ data' = data /\ lock' = lock /\ asked' = asked
        /\ failed' = failed /\ overtaken' = overtaken /\ configured' = configured
    BY DEF PublishRun, environment, history
  <1>2. Holding(t) /\ Importing(t)
    BY <1>1 DEF Holding, Importing
  <1>3. \A u \in Threads : u # t => ~Holding(u) /\ ~Importing(u)
    BY <1>2, HolderIsAlone
  <1>4. \A e : FinalState(e).status # "running"
    BY DEF FinalState
  <1>5. \A u \in Threads : ~(pc[u] = "status" /\ ~overtaken[u])
    BY <1>2, <1>4 DEF IInv, LockInv, StatusInv
  <1>6. TypeOK'
    BY <1>1 DEF IInv, TypeOK, PublishRun, FinalState, environment, history, Stages
  <1>7. LockInv'
    BY <1>1, <1>2, <1>3, <1>4 DEF IInv, TypeOK, LockInv, Holding, Importing
  <1>8. StatusInv'
    BY <1>1, <1>3, <1>5 DEF IInv, TypeOK, StatusInv, Holding
  <1>9. FreshInv'
    BY <1>1 DEF IInv, TypeOK, FreshInv, DoneWith
  <1> QED
    BY <1>6, <1>7, <1>8, <1>9 DEF IInv

LEMMA RestIsStage ==
    ASSUME NEW t \in Threads
    PROVE  AfterRaise(t) \in {"idle", "asleep", "ended"}
  BY DEF AfterRaise

(***************************************************************************)
(* A thread's call ends, by an exception or an answer.                     *)
(***************************************************************************)
LEMMA ForgetKeepsIInv ==
    ASSUME IInv, NEW t \in Threads, NEW rest \in {"idle", "asleep", "ended"},
           ~Importing(t), Forget(t), pc' = [pc EXCEPT ![t] = rest],
           \/ lock' = lock
           \/ Holding(t) /\ lock' = Nobody,
           UNCHANGED <<environment, data, state, call>>, failures' \in 0 .. MaxFailures
    PROVE  IInv'
  <1>1. /\ rows' = rows /\ data' = data /\ state' = state /\ configured' = configured
        /\ failed' = [failed EXCEPT ![t] = {}]
        /\ asked' = [asked EXCEPT ![t] = NoRows]
        /\ overtaken' = [overtaken EXCEPT ![t] = FALSE]
    BY DEF Forget, environment
  <1>2. NoRows \in [Sources -> 0 .. MaxRows] /\ \A s \in Sources : NoRows[s] = 0
    BY RunBoundsAssumption DEF NoRows
  <1>3. TypeOK'
    BY <1>1, <1>2 DEF IInv, TypeOK, environment, Stages
  <1>4. \A u \in Threads : u # t => (Holding(u) => lock' = u)
    BY HolderIsAlone DEF IInv, LockInv
  <1>5. LockInv'
    BY <1>1, <1>4 DEF IInv, TypeOK, LockInv, Holding, Importing
  <1>6. StatusInv'
    BY <1>1 DEF IInv, TypeOK, StatusInv
  <1>7. FreshInv'
    BY <1>1, <1>2 DEF IInv, TypeOK, FreshInv, DoneWith
  <1> QED
    BY <1>3, <1>5, <1>6, <1>7 DEF IInv

LEMMA ReleaseKeepsIInv ==
    ASSUME IInv, NEW t \in Threads, ReleaseLock(t)
    PROVE  IInv'
  <1>1. CASE call[t] = "refresh"
    <2>1. /\ pc[t] = "release" /\ lock' = Nobody /\ pc' = [pc EXCEPT ![t] = "status"]
          /\ rows' = rows /\ data' = data /\ state' = state /\ asked' = asked
          /\ failed' = failed /\ overtaken' = overtaken /\ configured' = configured
      BY <1>1 DEF ReleaseLock, environment, history
    <2>2. \A u \in Threads : u # t => ~Holding(u) /\ ~Importing(u)
      BY <2>1, HolderIsAlone DEF Holding
    <2>3. TypeOK'
      BY <1>1, <2>1 DEF IInv, TypeOK, ReleaseLock, environment, history, Stages
    <2>4. LockInv'
      BY <2>1, <2>2 DEF IInv, TypeOK, LockInv, Holding, Importing
    <2>5. StatusInv'
      BY <2>1 DEF IInv, TypeOK, StatusInv
    <2>6. FreshInv'
      BY <2>1 DEF IInv, TypeOK, FreshInv, DoneWith
    <2> QED
      BY <2>3, <2>4, <2>5, <2>6 DEF IInv
  <1>2. CASE call[t] # "refresh"
    <2>1. /\ pc[t] = "release" /\ lock' = Nobody
          /\ pc' = [pc EXCEPT ![t] = AfterRaise(t)] /\ Forget(t)
          /\ UNCHANGED <<environment, data, state, call>> /\ failures' = failures
      BY <1>2 DEF ReleaseLock
    <2>2. ~Importing(t) /\ Holding(t)
      BY <2>1 DEF Importing, Holding
    <2>3. failures' \in 0 .. MaxFailures
      BY <2>1 DEF IInv, TypeOK
    <2> QED
      BY <2>1, <2>2, <2>3, RestIsStage, ForgetKeepsIInv
  <1> QED
    BY <1>1, <1>2

LEMMA WarningsRaiseKeepsIInv ==
    ASSUME IInv, NEW t \in Threads, WarningsRaise(t)
    PROVE  IInv'
  <1>1. /\ pc[t] = "warnings" /\ lock' = Nobody
        /\ pc' = [pc EXCEPT ![t] = AfterRaise(t)] /\ Forget(t)
        /\ UNCHANGED <<environment, data, state, call>>
    BY DEF WarningsRaise, LockAfterRaise
  <1>2. ~Importing(t) /\ Holding(t)
    BY <1>1 DEF Importing, Holding
  <1>3. failures' \in 0 .. MaxFailures
    BY RunBoundsAssumption DEF IInv, TypeOK, WarningsRaise
  <1> QED
    BY <1>1, <1>2, <1>3, RestIsStage, ForgetKeepsIInv

LEMMA AnswerKeepsIInv ==
    ASSUME IInv, NEW t \in Threads, ReadStatus(t) \/ LoadDashboard(t)
    PROVE  IInv'
  <1>1. CASE ReadStatus(t)
    <2>1. /\ pc[t] = "status" /\ pc' = [pc EXCEPT ![t] = "load"]
          /\ rows' = rows /\ data' = data /\ lock' = lock /\ state' = state /\ asked' = asked
          /\ failed' = failed /\ overtaken' = overtaken /\ configured' = configured
      BY <1>1 DEF ReadStatus, environment, history
    <2>2. TypeOK'
      BY <1>1, <2>1 DEF IInv, TypeOK, ReadStatus, environment, history, Stages
    <2>3. LockInv' /\ StatusInv' /\ FreshInv'
      BY <2>1 DEF IInv, TypeOK, LockInv, StatusInv, FreshInv, DoneWith, Holding, Importing
    <2> QED
      BY <2>2, <2>3 DEF IInv
  <1>2. CASE LoadDashboard(t)
    <2>1. /\ pc[t] = "load" /\ lock' = lock /\ pc' = [pc EXCEPT ![t] = "idle"] /\ Forget(t)
          /\ UNCHANGED <<environment, data, state, call>> /\ failures' \in 0 .. MaxFailures
      BY <1>2 DEF LoadDashboard, IInv, TypeOK
    <2>2. ~Importing(t)
      BY <2>1 DEF Importing
    <2> QED
      BY <2>1, <2>2, ForgetKeepsIInv
  <1> QED
    BY <1>1, <1>2

LEMMA RestartKeepsIInv == IInv /\ ServerRestarts => IInv'
  <1> SUFFICES ASSUME IInv, ServerRestarts PROVE IInv'
    OBVIOUS
  <1>1. /\ pc' = Rested(mode) /\ state' = IdleState /\ lock' = Nobody
        /\ failed' = [t \in Threads |-> {}]
        /\ asked' = [t \in Threads |-> NoRows]
        /\ overtaken' = [t \in Threads |-> FALSE]
        /\ rows' = rows /\ data' = data /\ configured' = configured
    BY DEF ServerRestarts, environment
  <1>2. \A t \in Threads : pc'[t] \in {"idle", "ended", "asleep"}
    BY <1>1 DEF Rested
  <1>3. NoRows \in [Sources -> 0 .. MaxRows]
    BY RunBoundsAssumption DEF NoRows
  <1>4. failures' \in 0 .. MaxFailures
    BY RunBoundsAssumption DEF IInv, TypeOK, ServerRestarts
  <1>5. TypeOK'
    BY <1>1, <1>3, <1>4
    DEF IInv, TypeOK, ServerRestarts, Rested, IdleState, Stages, environment, Threads
  <1>6. LockInv' /\ StatusInv'
    BY <1>1, <1>2 DEF LockInv, StatusInv, Holding, Importing, IdleState
  <1>7. FreshInv'
    BY <1>1, <1>2, <1>3 DEF IInv, TypeOK, FreshInv, DoneWith, NoRows
  <1> QED
    BY <1>5, <1>6, <1>7 DEF IInv

LEMMA StutterKeepsIInv == IInv /\ UNCHANGED vars => IInv'
  BY DEF IInv, TypeOK, LockInv, StatusInv, FreshInv, DoneWith, Holding, Importing, vars

LEMMA IInvInductive == IInv /\ [Next]_vars => IInv'
  <1> SUFFICES ASSUME IInv, [Next]_vars PROVE IInv'
    OBVIOUS
  <1>1. CASE AutoWakes
    <2>1. Background \in Threads /\ pc[Background] \in {"idle", "asleep"} /\ Asks(Background, "auto")
      BY <1>1, ThreadFacts DEF AutoWakes
    <2> QED
      BY <2>1, AsksKeepsIInv
  <1>2. ASSUME NEW h \in Handlers, ClientAsks(h) PROVE IInv'
    BY <1>2, AsksKeepsIInv, ThreadFacts DEF ClientAsks
  <1>3. ASSUME NEW t \in Threads, AcquireLock(t) \/ RunStep(t) \/ Raises(t) PROVE IInv'
    BY <1>3, AcquireKeepsIInv, BeginKeepsIInv, SourceStepKeepsIInv, PublishKeepsIInv,
       ReleaseKeepsIInv, AnswerKeepsIInv, WarningsRaiseKeepsIInv
    DEF RunStep, Raises
  <1> QED
    BY <1>1, <1>2, <1>3, SourceLogsKeepsIInv, RestartKeepsIInv, StutterKeepsIInv DEF Next

(***************************************************************************)
(* IInv holds in every reachable state.                                    *)
(***************************************************************************)
THEOREM Invariance == Spec => []IInv
  BY InitEstablishesIInv, IInvInductive, PTL DEF Spec

(***************************************************************************)
(* Type correctness of the lock, the published state and the threads.      *)
(***************************************************************************)
THEOREM TypeCorrect == Spec => []TypeOK
  <1>1. IInv => TypeOK
    BY DEF IInv
  <1> QED
    BY <1>1, Invariance, PTL

(***************************************************************************)
(* Imports never overlap, and "running" is published exactly during one.   *)
(***************************************************************************)
THEOREM ImportsAreSerialised == Spec => []RunningIsTrue
  <1>1. IInv => RunningIsTrue
    BY DEF IInv, LockInv, RunningIsTrue, Importing, Holding
  <1> QED
    BY <1>1, Invariance, PTL

(***************************************************************************)
(* A refresh that no later run has overtaken reports the status of its own *)
(* run (run_import_capture).                                               *)
(***************************************************************************)
THEOREM StatusIsOwn == Spec => []StatusAgrees
  <1>1. IInv => StatusAgrees
    BY DEF IInv, StatusInv, StatusAgrees, FinalState
  <1> QED
    BY <1>1, Invariance, PTL

(***************************************************************************)
(* A refresh shows what its sources had logged when it was asked, however  *)
(* many requests and background imports run beside it (refresh_dashboard). *)
(***************************************************************************)
THEOREM RefreshesAreFresh == Spec => []RefreshIsFresh
  <1>1. IInv => RefreshIsFresh
    BY DEF IInv, TypeOK, FreshInv, RefreshIsFresh, DoneWith, Sources
  <1> QED
    BY <1>1, Invariance, PTL

-----------------------------------------------------------------------------
(* One importer.                                                           *)

\* A run begins with no failure of its own on record.
NoneFailedYet ==
    \A t \in Threads :
        failed[t] # {} => pc[t] \in {"opencode", "publish", "release", "status", "load"}

LEMMA InitNoneFailed == Init => NoneFailedYet
  BY DEF Init, NoneFailedYet

LEMMA NextNoneFailed == IInv /\ NoneFailedYet /\ [Next]_vars => NoneFailedYet'
  <1> SUFFICES ASSUME IInv, NoneFailedYet, [Next]_vars PROVE NoneFailedYet'
    OBVIOUS
  <1> USE DEF NoneFailedYet
  <1>1. CASE SourceLogs \/ UNCHANGED vars
    BY <1>1 DEF SourceLogs, vars
  <1>2. CASE AutoWakes \/ \E h \in Handlers : ClientAsks(h)
    BY <1>2, ThreadFacts DEF AutoWakes, ClientAsks, Asks, IInv, TypeOK
  <1>3. CASE ServerRestarts
    BY <1>3 DEF ServerRestarts
  <1>4. ASSUME NEW t \in Threads, AcquireLock(t) \/ BeginRun(t) \/ PublishRun(t) \/ ReadStatus(t)
        PROVE  NoneFailedYet'
    BY <1>4 DEF AcquireLock, BeginRun, PublishRun, ReadStatus, history, IInv, TypeOK
  <1>5. ASSUME NEW t \in Threads, ReleaseLock(t) \/ LoadDashboard(t) \/ WarningsRaise(t)
        PROVE  NoneFailedYet'
    BY <1>5 DEF ReleaseLock, LoadDashboard, WarningsRaise, Forget, IInv, TypeOK
  <1>6. ASSUME NEW t \in Threads, NEW s \in Sources, ImportSource(t, s) \/ SourceFails(t, s)
        PROVE  NoneFailedYet'
    BY <1>6 DEF ImportSource, SourceFails, AfterFailure, Following, Sources, IInv, TypeOK
  <1> QED
    BY <1>1, <1>2, <1>3, <1>4, <1>5, <1>6 DEF Next, RunStep, Raises

\* What the variables of SerialImports stand for
MappingSound ==
    /\ (\A t \in Threads : ~Importing(t)) => SerialStage = "off" /\ SerialErrors = {}
    /\ \A t \in Threads : Importing(t) => SerialStage = pc[t] /\ SerialErrors = failed[t]

LEMMA MappingIsSound == IInv => MappingSound
  <1> SUFFICES ASSUME IInv, NEW t \in Threads, Importing(t)
               PROVE  SerialStage = pc[t] /\ SerialErrors = failed[t]
    BY DEF MappingSound, SerialStage, SerialErrors
  <1>1. \A u \in Threads : Importing(u) => u = t
    BY HolderIsAlone DEF Importing, Holding
  <1>2. Importer \in Threads /\ Importing(Importer)
    BY DEF Importer
  <1> QED
    BY <1>1, <1>2 DEF SerialStage, SerialErrors

LEMMA MappingStaysSound == IInv' => MappingSound'
  BY MappingIsSound, PTL

\* A step beside the importing stages, of which no reader is aware
LEMMA QuietStep ==
    ASSUME MappingSound, MappingSound', UNCHANGED <<rows, configured, data, state>>,
           \A u \in Threads : Importing(u) <=> Importing(u)',
           \A u \in Threads : Importing(u) => pc'[u] = pc[u] /\ failed'[u] = failed[u]
    PROVE  UNCHANGED Serial!vars
  <1>1. SerialStage' = SerialStage /\ SerialErrors' = SerialErrors
    <2>1. CASE \A u \in Threads : ~Importing(u)
      BY <2>1 DEF MappingSound
    <2>2. ASSUME NEW u \in Threads, Importing(u)
          PROVE  SerialStage' = SerialStage /\ SerialErrors' = SerialErrors
      BY <2>2 DEF MappingSound
    <2> QED
      BY <2>1, <2>2
  <1> QED
    BY <1>1 DEF Serial!vars

LEMMA InitIsSerial == Init => Serial!Init
  <1> SUFFICES ASSUME Init PROVE Serial!Init
    OBVIOUS
  <1>1. \A t \in Threads : ~Importing(t)
    BY DEF Init, Rested, Importing
  <1>2. SerialStage = "off" /\ SerialErrors = {}
    BY <1>1 DEF SerialStage, SerialErrors
  <1> QED
    BY <1>2 DEF Init, Serial!Init, Serial!Nothing, Serial!Sources, NoRows, Sources, IdleState

LEMMA SourceLogsIsSerial ==
    ASSUME MappingSound, MappingSound', SourceLogs
    PROVE  Serial!LogGrows
  <1>1. \A u \in Threads : (Importing(u) <=> Importing(u)') /\ pc' = pc /\ failed' = failed
    BY DEF SourceLogs, Importing
  <1>2. SerialStage' = SerialStage /\ SerialErrors' = SerialErrors
    <2>1. CASE \A u \in Threads : ~Importing(u)
      BY <1>1, <2>1 DEF MappingSound
    <2>2. ASSUME NEW u \in Threads, Importing(u)
          PROVE  SerialStage' = SerialStage /\ SerialErrors' = SerialErrors
      BY <1>1, <2>2 DEF MappingSound
    <2> QED
      BY <2>1, <2>2
  <1> QED
    BY <1>2 DEF SourceLogs, Serial!LogGrows

LEMMA BeginIsSerial ==
    ASSUME IInv, IInv', NoneFailedYet, NEW t \in Threads, BeginRun(t)
    PROVE  Serial!Begin
  <1> USE MappingIsSound, MappingStaysSound
  <1>1. /\ pc[t] = "warnings" /\ pc' = [pc EXCEPT ![t] = "codex"]
        /\ state' = [status |-> "running", error |-> {}]
        /\ rows' = rows /\ data' = data /\ configured' = configured /\ failed' = failed
    BY DEF BeginRun, RunningState, environment
  <1>2. \A u \in Threads : ~Importing(u)
    BY <1>1, HolderIsAlone DEF Holding, Importing
  <1>3. Importing(t)' /\ pc'[t] = "codex"
    BY <1>1 DEF Importing, IInv, TypeOK
  <1>4. failed[t] = {}
    BY <1>1 DEF NoneFailedYet
  <1> QED
    BY <1>1, <1>2, <1>3, <1>4 DEF MappingSound, Serial!Begin

LEMMA SourceStepIsSerial ==
    ASSUME IInv, IInv', NEW t \in Threads, NEW s \in Sources, ImportSource(t, s) \/ SourceFails(t, s)
    PROVE  Serial!Import(s) \/ Serial!Fail(s)
  <1> USE MappingIsSound, MappingStaysSound
  <1>1. /\ pc[t] = s /\ pc' = [pc EXCEPT ![t] = Following[s]]
        /\ rows' = rows /\ state' = state /\ configured' = configured
    BY DEF ImportSource, SourceFails, AfterFailure, environment
  <1>2. Following[s] = Serial!After(s) /\ Following[s] \in {"opencode", "publish"}
    BY DEF Following, Sources, Serial!After
  <1>3. Importing(t) /\ Importing(t)'
    BY <1>1, <1>2 DEF Importing, Sources, IInv, TypeOK
  <1>4. /\ SerialStage = s /\ SerialStage' = Serial!After(s)
        /\ SerialErrors = failed[t] /\ SerialErrors' = failed'[t]
    BY <1>1, <1>2, <1>3 DEF MappingSound, IInv, TypeOK
  <1>5. CASE ImportSource(t, s)
    BY <1>1, <1>4, <1>5 DEF ImportSource, Serial!Import, IInv, TypeOK
  <1>6. CASE SourceFails(t, s)
    <2>1. failed'[t] = failed[t] \cup {s} /\ data' = data
      BY <1>6 DEF SourceFails, IInv, TypeOK
    <2> QED
      BY <1>1, <1>4, <2>1 DEF Serial!Fail
  <1> QED
    BY <1>5, <1>6

LEMMA PublishIsSerial ==
    ASSUME IInv, IInv', NEW t \in Threads, PublishRun(t)
    PROVE  Serial!Publish
  <1> USE MappingIsSound, MappingStaysSound
  <1>1. /\ pc[t] = "publish" /\ pc' = [pc EXCEPT ![t] = "release"]
        /\ state' = FinalState(failed[t])
        /\ rows' = rows /\ data' = data /\ configured' = configured
    BY DEF PublishRun, environment
  <1>2. Importing(t) /\ \A u \in Threads : u # t => ~Importing(u)
    BY <1>1, HolderIsAlone DEF Holding, Importing
  <1>3. \A u \in Threads : ~Importing(u)'
    BY <1>1, <1>2 DEF Importing, IInv, TypeOK
  <1>4. SerialStage = "publish" /\ SerialErrors = failed[t] /\ SerialStage' = "off" /\ SerialErrors' = {}
    BY <1>1, <1>2, <1>3 DEF MappingSound
  <1> QED
    BY <1>1, <1>4 DEF Serial!Publish, FinalState

LEMMA RestartIsSerial == ASSUME IInv, IInv', ServerRestarts PROVE Serial!Restart
  <1>1. \A u \in Threads : ~Importing(u)'
    BY DEF ServerRestarts, Rested, Importing
  <1>2. SerialStage' = "off" /\ SerialErrors' = {}
    BY <1>1, MappingStaysSound DEF MappingSound
  <1> QED
    BY <1>2 DEF ServerRestarts, Serial!Restart, IdleState, environment

\* Waiting, taking and releasing the lock, and what follows the release
LEMMA OthersAreQuiet ==
    ASSUME IInv, IInv', NEW t \in Threads,
           \/ \E kind \in {"refresh", "import", "auto"} :
                 pc[t] \in {"idle", "asleep"} /\ Asks(t, kind)
           \/ AcquireLock(t) \/ WarningsRaise(t) \/ ReleaseLock(t) \/ ReadStatus(t)
           \/ LoadDashboard(t)
    PROVE  UNCHANGED Serial!vars
  <1>1. UNCHANGED <<rows, configured, data, state>>
    BY DEF Asks, AcquireLock, WarningsRaise, ReleaseLock, ReadStatus, LoadDashboard, environment
  <1>2. ~Importing(t)
    BY DEF Importing, AcquireLock, WarningsRaise, ReleaseLock, ReadStatus, LoadDashboard
  <1>3. ~Importing(t)'
    BY DEF Importing, Asks, AcquireLock, WarningsRaise, ReleaseLock, ReadStatus, LoadDashboard,
           AfterRaise, IInv, TypeOK
  <1>4. \A u \in Threads : u # t => pc'[u] = pc[u] /\ failed'[u] = failed[u]
    BY DEF Asks, AcquireLock, WarningsRaise, ReleaseLock, ReadStatus, LoadDashboard,
           Forget, history, IInv, TypeOK
  <1> QED
    BY <1>1, <1>2, <1>3, <1>4, QuietStep, MappingIsSound, MappingStaysSound DEF Importing

LEMMA NextIsSerial ==
    IInv /\ NoneFailedYet /\ [Next]_vars => [Serial!Next]_Serial!vars
  <1> SUFFICES ASSUME IInv, NoneFailedYet, [Next]_vars PROVE [Serial!Next]_Serial!vars
    OBVIOUS
  <1>1. IInv'
    BY IInvInductive
  <1>2. CASE SourceLogs
    BY <1>1, <1>2, SourceLogsIsSerial, MappingIsSound, MappingStaysSound DEF Serial!Next
  <1>3. CASE AutoWakes
    BY <1>1, <1>3, ThreadFacts, OthersAreQuiet DEF AutoWakes
  <1>4. ASSUME NEW h \in Handlers, ClientAsks(h) PROVE UNCHANGED Serial!vars
    BY <1>1, <1>4, ThreadFacts, OthersAreQuiet DEF ClientAsks
  <1>5. CASE ServerRestarts
    BY <1>1, <1>5, RestartIsSerial DEF Serial!Next
  <1>6. ASSUME NEW t \in Threads,
               AcquireLock(t) \/ WarningsRaise(t) \/ ReleaseLock(t) \/ ReadStatus(t) \/ LoadDashboard(t)
        PROVE  UNCHANGED Serial!vars
    BY <1>1, <1>6, OthersAreQuiet
  <1>7. ASSUME NEW t \in Threads, BeginRun(t) \/ PublishRun(t) PROVE Serial!Next
    BY <1>1, <1>7, BeginIsSerial, PublishIsSerial DEF Serial!Next
  <1>8. ASSUME NEW t \in Threads, NEW s \in Sources, ImportSource(t, s) \/ SourceFails(t, s)
        PROVE  Serial!Next
    BY <1>1, <1>8, SourceStepIsSerial DEF Serial!Next, Serial!Sources, Sources
  <1>9. CASE UNCHANGED vars
    <2>1. UNCHANGED <<rows, configured, data, state, pc, failed>>
      BY <1>9 DEF vars
    <2>2. \A u \in Threads : Importing(u) <=> Importing(u)'
      BY <2>1 DEF Importing
    <2> QED
      BY <1>1, <2>1, <2>2, QuietStep, MappingIsSound, MappingStaysSound
  <1> QED
    BY <1>2, <1>3, <1>4, <1>5, <1>6, <1>7, <1>8, <1>9 DEF Next, RunStep, Raises

(***************************************************************************)
(* Any number of threads that import looks to the readers of IMPORT_STATE   *)
(* and of the analytics like one importer that does one run after another.  *)
(***************************************************************************)
THEOREM OneImporter == Spec => ImplementsSerial
  <1>1. NoneFailedYet /\ IInv /\ [Next]_vars => NoneFailedYet'
    BY NextNoneFailed
  <1>2. Spec => []NoneFailedYet
    BY <1>1, InitNoneFailed, Invariance, PTL DEF Spec
  <1> QED
    BY <1>2, InitIsSerial, NextIsSerial, Invariance, PTL DEF Spec, ImplementsSerial, Serial!Spec
=============================================================================
