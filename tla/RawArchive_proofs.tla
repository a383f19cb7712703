-------------------------- MODULE RawArchive_proofs --------------------------
(***************************************************************************)
(* Proofs about RawArchive, for every batch size, window, number of rows,  *)
(* months and failed imports.                                              *)
(***************************************************************************)
EXTENDS RawArchive, TLAPS

(***************************************************************************)
(* What both the committed tables and the open transaction's keep.         *)
(***************************************************************************)
Sound(a) ==
    /\ a.archived <= Len(source)
    /\ a.rows \subseteq 1 .. a.archived
    /\ \A i \in a.rows : i .. a.archived \subseteq a.rows
    /\ a.bodies \subseteq a.rows
    /\ \A i \in a.rows : source[i] >= now => i \in a.bodies

IInv ==
    /\ TypeOK
    /\ window < FirstMonth
    /\ FirstMonth <= now
    /\ \A i \in 1 .. Len(source) : source[i] <= now
    /\ Sound(db)
    /\ Sound(tx)

(***************************************************************************)
(* With a window that is never widened cutoffs only grow, so the recorded  *)
(* one stands for the running import once its batches are done, and before *)
(* that no old body is left among the ids the batches have passed.         *)
(***************************************************************************)
Narrowing == \A e \in WindowEdits : e[2] <= e[1]

Recent(a, from) == \A i \in a.bodies : source[i] >= from

RInv ==
    /\ tx.record = db.record
    /\ db.record <= CutoffMonth
    /\ pc # "idle" => cutoff <= CutoffMonth
    /\ Recent(db, db.record)
    /\ Recent(tx, db.record)
    /\ pc = "clear" => /\ db.record < cutoff
                       /\ tx = db
                       /\ \A i \in db.bodies : i <= last => source[i] >= cutoff
    /\ pc \in {"archive", "commit"} => db.record = cutoff

-----------------------------------------------------------------------------
(***************************************************************************)
(* The window is shorter than the months passed: a cutoff is a month, and  *)
(* never a future one.                                                     *)
(***************************************************************************)
LEMMA CutoffIsPast == IInv => CutoffMonth \in 0 .. now /\ CutoffMonth >= 1
  BY MonthAssumption DEF IInv, TypeOK, CutoffMonth

LEMMA InitEstablishesIInv == Init => IInv
  <1> SUFFICES ASSUME Init PROVE IInv
    OBVIOUS
  <1>1. TypeOK
    BY MonthAssumption, WindowAssumption DEF Init, TypeOK, Archive
  <1>2. Sound(db) /\ Sound(tx)
    BY DEF Init, Sound
  <1> QED
    BY <1>1, <1>2, MonthAssumption, WindowAssumption DEF Init, IInv

LEMMA CodexWritesKeepsIInv == IInv /\ CodexWrites => IInv'
  <1> SUFFICES ASSUME IInv, CodexWrites PROVE IInv'
    OBVIOUS
  <1> USE DEF IInv
  <1>1. PICK m \in FirstMonth - 1 .. now : source' = Append(source, m)
    BY DEF CodexWrites
  <1>2. m \in Nat /\ m <= now
    BY <1>1, MonthAssumption, WindowAssumption DEF TypeOK
  <1>3. source' \in Seq(Nat) /\ Len(source') = Len(source) + 1
    BY <1>1, <1>2 DEF TypeOK
  <1>4. \A i \in 1 .. Len(source) : source'[i] = source[i]
    BY <1>1, <1>2 DEF TypeOK
  <1>5. source'[Len(source')] = m
    BY <1>1, <1>2 DEF TypeOK
  <1>6. TypeOK'
    BY <1>3 DEF TypeOK, CodexWrites
  <1>7. (\A i \in 1 .. Len(source) : source[i] <= now)'
    BY <1>2, <1>3, <1>4, <1>5 DEF CodexWrites, TypeOK
  <1>8. ASSUME NEW a \in Archive, Sound(a)
        PROVE  /\ a.archived <= Len(source')
               /\ a.rows \subseteq 1 .. a.archived
               /\ \A i \in a.rows : i .. a.archived \subseteq a.rows
               /\ a.bodies \subseteq a.rows
               /\ \A i \in a.rows : source'[i] >= now' => i \in a.bodies
    <2>1. \A i \in a.rows : i \in 1 .. Len(source)
      BY <1>8 DEF Sound, Archive, TypeOK
    <2> QED
      BY <1>3, <1>4, <1>8, <2>1 DEF Sound, Archive, TypeOK, CodexWrites
  <1>9. Sound(db)' /\ Sound(tx)'
    BY <1>8 DEF Sound, CodexWrites, TypeOK
  <1> QED
    BY <1>6, <1>7, <1>9 DEF CodexWrites

LEMMA CalendarKeepsIInv == IInv /\ (MonthPasses \/ OwnerEditsWindow) => IInv'
  <1> SUFFICES ASSUME IInv, MonthPasses \/ OwnerEditsWindow PROVE IInv'
    OBVIOUS
  <1> USE DEF IInv
  <1>1. CASE MonthPasses
    <2>1. TypeOK'
      BY <1>1 DEF TypeOK, MonthPasses
    <2>2. ASSUME NEW a \in Archive, Sound(a)
          PROVE  \A i \in a.rows : source[i] >= now + 1 => i \in a.bodies
      <3>1. \A i \in a.rows : i \in 1 .. Len(source)
        BY <2>2 DEF Sound, Archive, TypeOK
      <3> QED
        BY <2>2, <3>1 DEF Sound, TypeOK
    <2>3. Sound(db)' /\ Sound(tx)'
      BY <1>1, <2>2 DEF Sound, MonthPasses, TypeOK
    <2> QED
      BY <1>1, <2>1, <2>3, MonthAssumption DEF MonthPasses, TypeOK
  <1>2. CASE OwnerEditsWindow
    <2>1. PICK e \in WindowEdits : window' = e[2]
      BY <1>2 DEF OwnerEditsWindow
    <2>2. window' \in Nat \ {0} /\ window' < FirstMonth
      BY <2>1, WindowAssumption, MonthAssumption
    <2> QED
      BY <1>2, <2>2 DEF OwnerEditsWindow, TypeOK, Sound
  <1> QED
    BY <1>1, <1>2

LEMMA StartKeepsIInv == IInv /\ StartImport => IInv'
  <1> SUFFICES ASSUME IInv, StartImport PROVE IInv'
    OBVIOUS
  <1>1. TypeOK'
    BY CutoffIsPast DEF IInv, TypeOK, StartImport, environment
  <1> QED
    BY <1>1 DEF IInv, StartImport, environment, Sound

(***************************************************************************)
(* A batch takes only bodies that are older than the cutoff.               *)
(***************************************************************************)
LEMMA ClearBatchKeepsIInv == IInv /\ ClearBatch => IInv'
  <1> SUFFICES ASSUME IInv, ClearBatch PROVE IInv'
    OBVIOUS
  <1> USE DEF IInv
  <1>1. PICK end \in BatchEnds :
          db' = [db EXCEPT !.bodies = @ \ Batch(end)] /\ last' = end
    BY DEF ClearBatch
  <1>2. end \in db.bodies
    BY DEF BatchEnds, OldBodies
  <1>3. TypeOK'
    BY <1>1, <1>2 DEF TypeOK, Archive, ClearBatch, environment
  <1>4. \A i \in db.rows : i \in 1 .. Len(source) /\ source[i] \in Nat
    BY DEF Sound, Archive, TypeOK
  <1>5. \A i \in db.rows : source[i] >= now => i \notin Batch(end)
    BY <1>4 DEF Batch, OldBodies, TypeOK
  <1>6. Sound(db)'
    BY <1>1, <1>5 DEF Sound, Archive, TypeOK, ClearBatch, environment
  <1>7. Sound(tx)'
    BY <1>6 DEF ClearBatch, Sound
  <1> QED
    BY <1>3, <1>6, <1>7 DEF ClearBatch, environment

LEMMA RecordKeepsIInv == IInv /\ RecordCutoff => IInv'
  <1> SUFFICES ASSUME IInv, RecordCutoff PROVE IInv'
    OBVIOUS
  <1>1. db' = [db EXCEPT !.record = cutoff] /\ tx' = db' /\ cutoff \in Nat
    BY DEF IInv, TypeOK, RecordCutoff
  <1>2. /\ db' \in Archive
        /\ db'.rows = db.rows /\ db'.bodies = db.bodies /\ db'.archived = db.archived
    BY <1>1 DEF IInv, TypeOK, Archive
  <1>3. TypeOK'
    BY <1>1, <1>2 DEF IInv, TypeOK, RecordCutoff, environment
  <1>4. Sound(db)' /\ Sound(tx)'
    BY <1>1, <1>2 DEF IInv, Sound, RecordCutoff, environment
  <1> QED
    BY <1>3, <1>4 DEF IInv, RecordCutoff, environment

(***************************************************************************)
(* The new rows begin behind the archive cursor, so they close up with the *)
(* rows before it, and those of the current month have their bodies.       *)
(***************************************************************************)
LEMMA ArchiveKeepsIInv == IInv /\ ArchiveRawLogs => IInv'
  <1> SUFFICES ASSUME IInv, ArchiveRawLogs PROVE IInv'
    OBVIOUS
  <1> USE DEF IInv
  <1>a. source' = source /\ now' = now /\ window' = window
    BY DEF ArchiveRawLogs, environment
  <1>b. ASSUME tx' \in Archive PROVE TypeOK'
    BY <1>a, <1>b DEF TypeOK, ArchiveRawLogs
  <1>1. CASE tx.archived = 0
    <2>1. tx' = [tx EXCEPT !.archived = Len(source)]
      BY <1>1 DEF ArchiveRawLogs
    <2>2. tx.rows = {} /\ tx.bodies = {}
      BY <1>1 DEF Sound
    <2>3. /\ tx' \in Archive
          /\ tx'.rows = {} /\ tx'.bodies = {} /\ tx'.archived = Len(source)
      BY <2>1, <2>2 DEF TypeOK, Archive
    <2>4. Sound(tx)'
      BY <2>3, <1>a DEF Sound, TypeOK
    <2> QED
      BY <1>a, <1>b, <2>3, <2>4 DEF ArchiveRawLogs, Sound
  <1>2. CASE tx.archived # 0
    <2>1. tx' = [tx EXCEPT !.rows = @ \cup NewRows,
                           !.bodies = @ \cup WithBody(NewRows),
                           !.archived = Len(source)]
      BY <1>2 DEF ArchiveRawLogs
    <2>2. NewRows \subseteq Nat /\ WithBody(NewRows) \subseteq NewRows
      BY DEF NewRows, WithBody, TypeOK, Archive
    <2>3. tx' \in Archive
      <3>1. tx \in Archive /\ Len(source) \in Nat
        BY DEF TypeOK
      <3>2. tx.rows \cup NewRows \in SUBSET Nat
        BY <2>2, <3>1 DEF Archive
      <3>3. tx.bodies \cup WithBody(NewRows) \in SUBSET Nat
        BY <2>2, <3>1 DEF Archive
      <3> HIDE DEF IInv
      <3> QED
        BY <2>1, <3>1, <3>2, <3>3 DEF Archive
    <2>4. /\ tx'.archived = Len(source)
          /\ tx'.rows = tx.rows \cup NewRows
          /\ tx'.bodies = tx.bodies \cup WithBody(NewRows)
      BY <2>1 DEF TypeOK, Archive
    <2>5. tx'.rows \subseteq 1 .. tx'.archived /\ tx'.bodies \subseteq tx'.rows
      BY <2>2, <2>4 DEF TypeOK, Archive, Sound, NewRows
    <2>6. \A i \in tx'.rows : i .. tx'.archived \subseteq tx'.rows
      <3>1. SUFFICES ASSUME NEW i \in tx'.rows, NEW j \in i .. Len(source)
                     PROVE  j \in tx.rows \cup NewRows
        BY <2>4
      <3>2. CASE j > tx.archived
        BY <3>2 DEF NewRows, TypeOK, Archive
      <3>3. CASE j <= tx.archived
        <4>1. i \in tx.rows
          BY <2>4, <3>3 DEF NewRows, TypeOK, Archive
        <4> QED
          BY <3>3, <4>1 DEF Sound, TypeOK, Archive
      <3> QED
        BY <3>2, <3>3, <2>5 DEF TypeOK, Archive
    <2>7. \A i \in tx'.rows : source[i] >= now => i \in tx'.bodies
      <3>1. \A i \in NewRows : source[i] >= now => i \in WithBody(NewRows)
        BY DEF NewRows, WithBody, TypeOK, Archive
      <3> QED
        BY <2>4, <3>1 DEF Sound
    <2>8. Sound(tx)'
      BY <1>a, <2>4, <2>5, <2>6, <2>7 DEF Sound, TypeOK
    <2> QED
      BY <1>a, <1>b, <2>3, <2>8 DEF ArchiveRawLogs, Sound
  <1> QED
    BY <1>1, <1>2

LEMMA EndKeepsIInv == IInv /\ (CommitImport \/ FailImport \/ UNCHANGED vars) => IInv'
  <1> SUFFICES ASSUME IInv, CommitImport \/ FailImport \/ UNCHANGED vars PROVE IInv'
    OBVIOUS
  <1>1. TypeOK'
    BY DEF IInv, TypeOK, CommitImport, FailImport, AfterFailure, Return, environment, vars
  <1>2. Sound(db)' /\ Sound(tx)'
    BY DEF IInv, Sound, CommitImport, FailImport, AfterFailure, environment, vars
  <1> QED
    BY <1>1, <1>2 DEF IInv, CommitImport, FailImport, environment, vars

LEMMA IInvInductive == IInv /\ [Next]_vars => IInv'
  BY CodexWritesKeepsIInv, CalendarKeepsIInv, StartKeepsIInv, ClearBatchKeepsIInv,
     RecordKeepsIInv, ArchiveKeepsIInv, EndKeepsIInv
  DEF Next, ImportStep

(***************************************************************************)
(* IInv holds in every reachable state.                                    *)
(***************************************************************************)
THEOREM Invariance == Spec => []IInv
  BY InitEstablishesIInv, IInvInductive, PTL DEF Spec

(***************************************************************************)
(* Every variable keeps its type, and no import has a cutoff in the        *)
(* future.                                                                 *)
(***************************************************************************)
THEOREM TypeCorrect == Spec => []TypeOK
  <1>1. IInv => TypeOK
    BY DEF IInv
  <1> QED
    BY <1>1, Invariance, PTL

(***************************************************************************)
(* No body of the current month is ever lost from the archive, however the *)
(* window is edited (retention_cutoff_day, _clear_old_bodies).             *)
(***************************************************************************)
THEOREM CurrentMonthIsKept == Spec => []CurrentMonthKept
  <1>1. IInv => CurrentMonthKept
    BY DEF IInv, Sound, CurrentMonthKept
  <1> QED
    BY <1>1, Invariance, PTL

(***************************************************************************)
(* The archive never has a gap between its first row and its cursor        *)
(* (archive_raw_logs, insert_raw_log).                                     *)
(***************************************************************************)
THEOREM ArchiveHasNoGap == Spec => []GapFree
  <1>1. IInv => GapFree
    BY DEF IInv, Sound, GapFree
  <1> QED
    BY <1>1, Invariance, PTL

-----------------------------------------------------------------------------
(* The recorded cutoff, with a window that is never widened.               *)

LEMMA InitEstablishesRInv == IInv /\ Init => RInv
  BY CutoffIsPast DEF Init, RInv, Recent

(***************************************************************************)
(* Nothing the environment does moves a cutoff back or a row's month.      *)
(***************************************************************************)
LEMMA EnvironmentKeepsRInv ==
    ASSUME Narrowing, IInv, RInv, CodexWrites \/ MonthPasses \/ OwnerEditsWindow
    PROVE  RInv'
  <1>1. /\ db' = db /\ tx' = tx /\ pc' = pc /\ cutoff' = cutoff /\ last' = last
        /\ db \in Archive /\ tx \in Archive
    BY DEF IInv, TypeOK, CodexWrites, MonthPasses, OwnerEditsWindow
  <1>2. CutoffMonth' >= CutoffMonth
    <2>1. CASE OwnerEditsWindow
      <3>1. PICK e \in WindowEdits : e[1] = window /\ window' = e[2]
        BY <2>1 DEF OwnerEditsWindow
      <3>2. window' <= window /\ window' \in Nat
        BY <3>1, WindowAssumption DEF Narrowing
      <3> QED
        BY <2>1, <3>2 DEF OwnerEditsWindow, CutoffMonth, IInv, TypeOK
    <2>2. CASE CodexWrites \/ MonthPasses
      BY <2>2 DEF CodexWrites, MonthPasses, CutoffMonth, IInv, TypeOK
    <2> QED
      BY <2>1, <2>2
  <1>3. \A i \in 1 .. Len(source) : source'[i] = source[i]
    <2>1. CASE CodexWrites
      <3>1. PICK m \in FirstMonth - 1 .. now : source' = Append(source, m)
        BY <2>1 DEF CodexWrites
      <3> QED
        BY <3>1, MonthAssumption, WindowAssumption DEF IInv, TypeOK
    <2> QED
      BY <2>1 DEF MonthPasses, OwnerEditsWindow
  <1>4. \A i \in db.bodies \cup tx.bodies : source'[i] = source[i]
    BY <1>1, <1>3 DEF IInv, Sound, Archive, TypeOK
  <1>5. CutoffMonth \in Int /\ CutoffMonth' \in Int /\ db.record \in Nat /\ cutoff \in Nat
    <2>1. now' \in Nat /\ window' \in Nat
      BY WindowAssumption
      DEF IInv, TypeOK, CodexWrites, MonthPasses, OwnerEditsWindow
    <2> QED
      BY <1>1, <2>1 DEF IInv, TypeOK, CutoffMonth, Archive
  <1>6. (db.record <= CutoffMonth)' /\ (pc # "idle" => cutoff <= CutoffMonth)'
    BY <1>1, <1>2, <1>5 DEF RInv
  <1> QED
    BY <1>1, <1>4, <1>6 DEF RInv, Recent

LEMMA StartKeepsRInv ==
    ASSUME IInv, RInv, StartImport, tx = db
    PROVE  RInv'
  <1>1. /\ cutoff' = CutoffMonth /\ last' = 0 /\ db' = db /\ tx' = tx
        /\ pc' = IF db.record >= cutoff' THEN "archive" ELSE "clear"
        /\ CutoffMonth' = CutoffMonth /\ source' = source
    BY DEF StartImport, environment, CutoffMonth
  <1>2. CutoffMonth \in Nat /\ db.record \in Nat
    BY CutoffIsPast DEF IInv, TypeOK, Archive
  <1>3. \A i \in db.bodies : i \in Nat /\ i >= 1
    BY DEF IInv, Sound, TypeOK, Archive
  <1>4. (pc = "clear" => \A i \in db.bodies : i <= last => source[i] >= cutoff)'
    BY <1>1, <1>3
  <1> QED
    BY <1>1, <1>2, <1>4 DEF RInv, Recent

(***************************************************************************)
(* A batch clears every old body up to its last id.                        *)
(***************************************************************************)
LEMMA ClearBatchKeepsRInv ==
    ASSUME IInv, RInv, ClearBatch
    PROVE  RInv'
  <1>1. PICK end \in BatchEnds :
          db' = [db EXCEPT !.bodies = @ \ Batch(end)] /\ last' = end
    BY DEF ClearBatch
  <1>2. /\ pc = "clear" /\ pc' = pc /\ tx' = db' /\ cutoff' = cutoff /\ source' = source
        /\ CutoffMonth' = CutoffMonth
    BY DEF ClearBatch, environment, CutoffMonth
  <1>3. /\ db'.bodies = db.bodies \ Batch(end)
        /\ db'.record = db.record
    BY <1>1 DEF IInv, TypeOK, Archive
  <1>4. \A i \in db.bodies : i \in 1 .. Len(source) /\ source[i] \in Nat
    BY DEF IInv, Sound, TypeOK, Archive
  <1>5. \A i \in db'.bodies : i <= end => source[i] >= cutoff
    <2> SUFFICES ASSUME NEW i \in db'.bodies, i <= end PROVE source[i] >= cutoff
      OBVIOUS
    <2>1. i \in db.bodies /\ i \notin OldBodies(last)
      BY <1>3 DEF Batch
    <2>2. CASE i <= last
      BY <1>2, <2>1, <2>2 DEF RInv
    <2>3. CASE i > last
      BY <1>4, <2>1, <2>3 DEF OldBodies, IInv, TypeOK
    <2> QED
      BY <1>4, <2>1, <2>2, <2>3 DEF IInv, TypeOK
  <1> QED
    BY <1>1, <1>2, <1>3, <1>5 DEF RInv, Recent

(***************************************************************************)
(* The cutoff is recorded when no old body is left behind the last batch.  *)
(***************************************************************************)
LEMMA RecordKeepsRInv ==
    ASSUME IInv, RInv, RecordCutoff
    PROVE  RInv'
  <1>1. /\ pc = "clear" /\ OldBodies(last) = {} /\ db' = [db EXCEPT !.record = cutoff]
        /\ tx' = db' /\ pc' = "archive" /\ cutoff' = cutoff /\ source' = source
        /\ CutoffMonth' = CutoffMonth
    BY DEF RecordCutoff, MayRecord, environment, CutoffMonth
  <1>2. db'.record = cutoff /\ db'.bodies = db.bodies
    BY <1>1 DEF IInv, TypeOK, Archive
  <1>3. \A i \in db.bodies : i \in 1 .. Len(source) /\ source[i] \in Nat
    BY DEF IInv, Sound, TypeOK, Archive
  <1>4. \A i \in db.bodies : source[i] >= cutoff
    <2> TAKE i \in db.bodies
    <2>1. CASE i <= last
      BY <1>1, <2>1 DEF RInv
    <2>2. CASE i > last
      BY <1>1, <1>3, <2>2 DEF OldBodies, IInv, TypeOK
    <2> QED
      BY <1>3, <2>1, <2>2 DEF IInv, TypeOK
  <1> QED
    BY <1>1, <1>2, <1>4 DEF RInv, Recent

LEMMA ArchiveKeepsRInv ==
    ASSUME IInv, RInv, ArchiveRawLogs
    PROVE  RInv'
  <1>1. /\ pc = "archive" /\ pc' = "commit" /\ db' = db /\ cutoff' = cutoff
        /\ source' = source /\ CutoffMonth' = CutoffMonth
    BY DEF ArchiveRawLogs, environment, CutoffMonth
  <1>2. tx'.record = tx.record /\ tx'.bodies \subseteq tx.bodies \cup WithBody(NewRows)
    BY DEF ArchiveRawLogs, IInv, TypeOK, Archive
  <1>3. \A i \in WithBody(NewRows) : source[i] >= cutoff
    BY DEF WithBody
  <1> QED
    BY <1>1, <1>2, <1>3 DEF RInv, Recent

(***************************************************************************)
(* Outside the transaction it is a copy of the committed tables.           *)
(***************************************************************************)
CopyInv == pc # "commit" => tx = db

LEMMA CopyInvInductive == CopyInv /\ [Next]_vars => CopyInv'
  BY DEF CopyInv, Next, ImportStep, vars, CodexWrites, MonthPasses, OwnerEditsWindow,
         StartImport, ClearBatch, RecordCutoff, ArchiveRawLogs, CommitImport, FailImport, Return

LEMMA EndKeepsRInv ==
    ASSUME IInv, RInv, CommitImport \/ FailImport \/ UNCHANGED vars
    PROVE  RInv'
  BY DEF RInv, Recent, CommitImport, FailImport, AfterFailure, Return, environment, vars,
         CutoffMonth

LEMMA RInvInductive ==
    ASSUME Narrowing
    PROVE  IInv /\ CopyInv /\ RInv /\ [Next]_vars => RInv'
  <1> SUFFICES ASSUME IInv, CopyInv, RInv, [Next]_vars PROVE RInv'
    OBVIOUS
  <1>1. CASE CodexWrites \/ MonthPasses \/ OwnerEditsWindow
    BY <1>1, EnvironmentKeepsRInv
  <1>2. CASE StartImport
    BY <1>2, StartKeepsRInv DEF CopyInv, StartImport
  <1>3. CASE ClearBatch
    BY <1>3, ClearBatchKeepsRInv
  <1>4. CASE RecordCutoff
    BY <1>4, RecordKeepsRInv
  <1>5. CASE ArchiveRawLogs
    BY <1>5, ArchiveKeepsRInv
  <1>6. CASE CommitImport \/ FailImport \/ UNCHANGED vars
    BY <1>6, EndKeepsRInv
  <1> QED
    BY <1>1, <1>2, <1>3, <1>4, <1>5, <1>6 DEF Next, ImportStep

LEMMA RInvAlways ==
    ASSUME Narrowing
    PROVE  Spec => [](IInv /\ CopyInv /\ RInv)
  <1>1. Init => IInv /\ CopyInv /\ RInv
    BY InitEstablishesIInv, InitEstablishesRInv DEF Init, CopyInv
  <1>2. IInv /\ CopyInv /\ RInv /\ [Next]_vars => (IInv /\ CopyInv /\ RInv)'
    BY IInvInductive, CopyInvInductive, RInvInductive
  <1> QED
    BY <1>1, <1>2, PTL DEF Spec

(***************************************************************************)
(* With a window that is never widened no committed body is older than the *)
(* recorded cutoff, wherever an import stopped: a later import that trusts *)
(* the record misses nothing (apply_raw_log_retention).                    *)
(***************************************************************************)
THEOREM RecordIsHonoured ==
    ASSUME Narrowing
    PROVE  Spec => []RecordHonoured
  <1>1. RInv => RecordHonoured
    BY DEF RInv, Recent, RecordHonoured
  <1> QED
    BY <1>1, RInvAlways, PTL

(***************************************************************************)
(* With a window that is never widened every committed import leaves only  *)
(* bodies inside the window it was configured with.                        *)
(***************************************************************************)
THEOREM WindowIsKept ==
    ASSUME Narrowing
    PROVE  Spec => OnlyWindowRetained
  <1>1. IInv /\ RInv /\ [Next]_vars
          => [pc = "commit" /\ pc' = "idle" /\ db' # db =>
                \A i \in db'.bodies : source[i] >= cutoff]_vars
    <2> SUFFICES ASSUME RInv, [Next]_vars, pc = "commit", pc' = "idle", db' # db
                 PROVE  \A i \in db'.bodies : source[i] >= cutoff
      OBVIOUS
    <2>1. db' = tx
      BY DEF Next, ImportStep, vars, CodexWrites, MonthPasses, OwnerEditsWindow, StartImport,
             ClearBatch, RecordCutoff, ArchiveRawLogs, CommitImport, FailImport, AfterFailure
    <2> QED
      BY <2>1 DEF RInv, Recent
  <1> QED
    BY <1>1, RInvAlways, PTL DEF Spec, OnlyWindowRetained
=============================================================================
