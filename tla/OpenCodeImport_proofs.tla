------------------------ MODULE OpenCodeImport_proofs ------------------------
(***************************************************************************)
(* Proofs about OpenCodeImport, for every lookback and any number of       *)
(* messages, lines, replaced files and failures.                           *)
(***************************************************************************)
EXTENDS OpenCodeImport, TLAPS

(***************************************************************************)
(* What a pair of cursors and the rows stored with them keep.  The same is *)
(* asked of the committed pair and of the import's own.                    *)
(***************************************************************************)
MessageKept(turns, i) ==
    \/ messages[i] = 0
    \/ i \in late
    \/ [id |-> RowId(i), tok |-> messages[i]] \in turns
    \/ RowId(i) \in logged /\ Stored(turns, RowId(i))

MessagesSaved(c, turns) ==
    c.of = inst =>
        /\ c.rowid # 0 => c.rowid \in DOMAIN messages /\ messages[c.rowid] # 0
        /\ \A i \in DOMAIN messages : i + Lookback > c.rowid \/ MessageKept(turns, i)

LinesSaved(c, turns) ==
    c.logOf = gen =>
        /\ c.offset <= Len(file)
        /\ \A j \in 1 .. c.offset :
              file[j].tok = 0 \/ j \in torn \/ Stored(turns, file[j].id)

(***************************************************************************)
(* Whoever holds the write lock is alone; without it the import sees what  *)
(* is committed.  What the reader has passed without moving the offset is  *)
(* torn.                                                                   *)
(***************************************************************************)
LockInv ==
    /\ ~locked => tx = db.turns
    /\ locked => pc \in {"open", "read"}

HistoryInv ==
    /\ db.cur.of <= inst /\ db.cur.logOf <= gen
    /\ pc # "idle" => cur.of <= inst /\ cur.logOf <= gen
    /\ \A j \in DOMAIN file : file[j].id \in logged

PushInv == \A id \in pushed : Stored(db.turns, id) /\ Stored(tx, id)

ReadInv ==
    pc = "read" /\ cur.logOf = gen =>
        /\ cur.offset <= pos
        /\ pos <= Len(file)
        /\ \A j \in cur.offset + 1 .. pos : j \in torn

MessagesInv ==
    /\ MessagesSaved(db.cur, db.turns)
    /\ pc # "idle" => MessagesSaved(cur, tx)

LinesInv ==
    /\ LinesSaved(db.cur, db.turns)
    /\ pc # "idle" => LinesSaved(cur, tx)

IInv == TypeOK /\ LockInv /\ HistoryInv /\ PushInv /\ ReadInv /\ MessagesInv /\ LinesInv

-----------------------------------------------------------------------------
(* The rows upsert_turn leaves.                                            *)

(***************************************************************************)
(* An upsert keeps every message stored, changes only the rows it names,   *)
(* and stores those.                                                       *)
(***************************************************************************)
LEMMA UpsertKeeps ==
    ASSUME NEW T \in SUBSET Turns, NEW N \in SUBSET Turns
    PROVE  /\ Upsert(T, N) \in SUBSET Turns
           /\ N \subseteq Upsert(T, N)
           /\ \A id \in Ids : Stored(T, id) => Stored(Upsert(T, N), id)
           /\ \A r \in T : (\A n \in N : n.id # r.id) => r \in Upsert(T, N)
           /\ \A n \in N : Stored(Upsert(T, N), n.id)
  BY DEF Upsert, Stored

(***************************************************************************)
(* The messages of the lines and of the rows are messages.                 *)
(***************************************************************************)
LEMMA IdsOfFiles ==
    ASSUME TypeOK
    PROVE  /\ \A j \in DOMAIN file : file[j] \in Lines /\ file[j].id \in Ids
           /\ \A i \in DOMAIN messages : RowId(i) \in Ids
  <1>1. \A j \in DOMAIN file : file[j] \in Lines
    BY DEF TypeOK
  <1>2. \A r \in Lines : r.id \in Ids
    BY DEF Lines
  <1>3. \A i \in DOMAIN messages : RowId(i) \in Ids
    BY DEF TypeOK, RowId, Ids
  <1> QED
    BY <1>1, <1>2, <1>3

\* No line is a log of any kind.
LEMMA EmptyLog == ASSUME NEW S PROVE <<>> \in Seq(S)
  OBVIOUS

LEMMA InitEstablishesIInv == Init => IInv
  <1> SUFFICES ASSUME Init PROVE IInv
    OBVIOUS
  <1>1. NoCursors \in Cursors /\ db.cur = NoCursors /\ db.turns = {}
    BY DEF NoCursors, Cursors, Init
  <1>2. TypeOK
    BY <1>1, EmptyLog DEF Init, TypeOK
  <1>3. LockInv /\ HistoryInv /\ PushInv /\ ReadInv
    BY <1>1 DEF Init, LockInv, HistoryInv, PushInv, ReadInv, NoCursors
  <1>4. MessagesInv /\ LinesInv
    BY <1>1 DEF Init, MessagesInv, LinesInv, MessagesSaved, LinesSaved, NoCursors
  <1> QED
    BY <1>2, <1>3, <1>4 DEF IInv

-----------------------------------------------------------------------------
(* OpenCode writes.                                                        *)

(***************************************************************************)
(* A new row is beyond every cursor, so within reach.                      *)
(***************************************************************************)
LEMMA MessageAddedKeepsIInv == IInv /\ MessageAdded => IInv'
  <1> SUFFICES ASSUME IInv, MessageAdded PROVE IInv'
    OBVIOUS
  <1>1. PICK k \in 0 .. MaxTokens : messages' = Append(messages, k)
    BY DEF MessageAdded
  <1>2. /\ messages' \in Seq(Nat)
        /\ DOMAIN messages' = DOMAIN messages \cup {Len(messages) + 1}
        /\ \A i \in DOMAIN messages : messages'[i] = messages[i]
        /\ \A i \in DOMAIN messages : i \in Nat /\ i <= Len(messages)
    BY <1>1, SizesAssumption DEF IInv, TypeOK
  <1>3. /\ inst' = inst /\ file' = file /\ gen' = gen /\ db' = db /\ tx' = tx /\ late' = late
        /\ locked' = locked /\ pc' = pc /\ cur' = cur /\ pos' = pos /\ torn' = torn
        /\ logged' = logged /\ pushed' = pushed
    BY DEF MessageAdded, importVars
  <1>4. TypeOK'
    BY <1>2, <1>3 DEF IInv, TypeOK, MessageAdded, importVars
  <1>5. ASSUME NEW c \in Cursors, NEW T, MessagesSaved(c, T)
        PROVE  MessagesSaved(c, T)'
    <2> SUFFICES ASSUME c.of = inst
                 PROVE  /\ c.rowid # 0 => c.rowid \in DOMAIN messages' /\ messages'[c.rowid] # 0
                        /\ \A i \in DOMAIN messages' :
                              i + Lookback > c.rowid \/ MessageKept(T, i)'
      BY <1>3 DEF MessagesSaved
    <2>1. c.rowid \in Nat /\ Lookback \in Nat /\ Len(messages) \in Nat
      BY LookbackAssumption DEF Cursors, IInv, TypeOK
    <2>2. Len(messages) + 1 + Lookback > c.rowid
      BY <1>2, <1>5, <2>1 DEF MessagesSaved
    <2>3. \A i \in DOMAIN messages : i + Lookback > c.rowid \/ MessageKept(T, i)'
      BY <1>2, <1>3, <1>5 DEF MessagesSaved, MessageKept, RowId, Stored
    <2> QED
      BY <1>2, <1>5, <2>2, <2>3 DEF MessagesSaved
  <1>6. MessagesInv'
    BY <1>3, <1>5 DEF IInv, TypeOK, MessagesInv
  <1>7. (LockInv /\ HistoryInv /\ PushInv /\ ReadInv /\ LinesInv)'
    BY <1>3 DEF IInv, LockInv, HistoryInv, PushInv, ReadInv, LinesInv, LinesSaved, Stored
  <1> QED
    BY <1>4, <1>6, <1>7 DEF IInv

(***************************************************************************)
(* A row that is filled in is within reach of every cursor, which stands   *)
(* at a complete row, or it is late.                                       *)
(***************************************************************************)
LEMMA MessageUpdatedKeepsIInv == IInv /\ MessageUpdated => IInv'
  <1> SUFFICES ASSUME IInv, MessageUpdated PROVE IInv'
    OBVIOUS
  <1>0. PICK m \in DOMAIN messages : \E k \in messages[m] + 1 .. MaxTokens :
            /\ messages' = [messages EXCEPT ![m] = k]
            /\ late' = IF OutOfReach(m) THEN late \cup {m} ELSE late
    BY DEF MessageUpdated
  <1>1. PICK k \in messages[m] + 1 .. MaxTokens :
            /\ messages' = [messages EXCEPT ![m] = k]
            /\ late' = IF OutOfReach(m) THEN late \cup {m} ELSE late
    BY <1>0
  <1>2. /\ messages' \in Seq(Nat)
        /\ DOMAIN messages' = DOMAIN messages
        /\ DOMAIN messages \subseteq Nat
        /\ messages'[m] = k /\ k # 0
        /\ \A i \in DOMAIN messages \ {m} : messages'[i] = messages[i]
        /\ messages[m] \in Nat
    BY <1>1, SizesAssumption DEF IInv, TypeOK
  <1>3. /\ inst' = inst /\ file' = file /\ gen' = gen /\ db' = db /\ tx' = tx
        /\ locked' = locked /\ pc' = pc /\ cur' = cur /\ pos' = pos /\ torn' = torn
        /\ logged' = logged /\ pushed' = pushed
    BY DEF MessageUpdated, importVars
  <1>4. TypeOK'
    BY <1>1, <1>2, <1>3 DEF IInv, TypeOK, MessageUpdated, importVars
  <1>5. ASSUME NEW c \in Cursors, NEW T, MessagesSaved(c, T)
        PROVE  MessagesSaved(c, T)'
    <2> SUFFICES ASSUME c.of = inst
                 PROVE  /\ c.rowid # 0 => c.rowid \in DOMAIN messages' /\ messages'[c.rowid] # 0
                        /\ \A i \in DOMAIN messages' :
                              i + Lookback > c.rowid \/ MessageKept(T, i)'
      BY <1>3 DEF MessagesSaved
    <2>1. c.rowid \in Nat /\ Lookback \in Nat /\ m \in Nat \ {0}
      BY LookbackAssumption DEF Cursors, IInv, TypeOK
    <2>2. m + Lookback > c.rowid \/ m \in late'
      <3> SUFFICES ASSUME ~OutOfReach(m) PROVE m + Lookback > c.rowid
        BY <1>1
      <3>1. CASE c.rowid = 0
        BY <2>1, <3>1
      <3>2. CASE c.rowid # 0
        <4>1. c.rowid \in DOMAIN messages /\ messages[c.rowid] # 0
          BY <1>5, <3>2 DEF MessagesSaved
        <4>2. c.rowid <= Len(messages)
          BY <4>1 DEF IInv, TypeOK
        <4>3. c.rowid \notin m + Lookback .. Len(messages)
          BY <4>1 DEF OutOfReach
        <4> QED
          BY <2>1, <4>2, <4>3
      <3> QED
        BY <3>1, <3>2
    <2>3. MessageKept(T, m)' \/ m + Lookback > c.rowid
      BY <2>2 DEF MessageKept
    <2>4. \A i \in DOMAIN messages \ {m} : i + Lookback > c.rowid \/ MessageKept(T, i)'
      BY <1>1, <1>2, <1>3, <1>5 DEF MessagesSaved, MessageKept, RowId, Stored
    <2>5. c.rowid # 0 => c.rowid \in DOMAIN messages' /\ messages'[c.rowid] # 0
      BY <1>2, <1>5 DEF MessagesSaved
    <2> QED
      BY <1>2, <2>3, <2>4, <2>5
  <1>6. MessagesInv'
    BY <1>3, <1>5 DEF IInv, TypeOK, MessagesInv
  <1>7. (LockInv /\ HistoryInv /\ PushInv /\ ReadInv /\ LinesInv)'
    BY <1>3 DEF IInv, LockInv, HistoryInv, PushInv, ReadInv, LinesInv, LinesSaved, Stored
  <1> QED
    BY <1>4, <1>6, <1>7 DEF IInv

(***************************************************************************)
(* After a replacement no cursor is one of the new file.                   *)
(***************************************************************************)
LEMMA DatabaseReplacedKeepsIInv == IInv /\ DatabaseReplaced => IInv'
  <1> SUFFICES ASSUME IInv, DatabaseReplaced PROVE IInv'
    OBVIOUS
  <1>1. /\ messages' = <<>> /\ late' = {} /\ inst' = inst + 1
        /\ file' = file /\ partial' = partial /\ gen' = gen /\ db' = db /\ tx' = tx
        /\ locked' = locked /\ pc' = pc /\ cur' = cur /\ pos' = pos /\ mid' = mid
        /\ torn' = torn /\ logged' = logged /\ pushed' = pushed /\ failures' = failures
    BY DEF DatabaseReplaced, importVars
  <1>2. TypeOK'
    BY <1>1 DEF IInv, TypeOK
  <1>3. \A c \in Cursors, n \in Nat : c.of <= n => c.of <= n + 1 /\ c.of # n + 1
    BY DEF Cursors
  <1>4. HistoryInv'
    BY <1>1, <1>3 DEF IInv, TypeOK, HistoryInv
  <1>5. MessagesInv'
    BY <1>1, <1>3 DEF IInv, TypeOK, HistoryInv, MessagesInv, MessagesSaved
  <1>6. (LockInv /\ PushInv /\ ReadInv /\ LinesInv)'
    BY <1>1 DEF IInv, LockInv, PushInv, ReadInv, LinesInv, LinesSaved, Stored
  <1> QED
    BY <1>2, <1>4, <1>5, <1>6 DEF IInv

LEMMA LineEndedKeepsIInv == IInv /\ (LineBegun \/ LineEnded) => IInv'
  <1> SUFFICES ASSUME IInv, LineBegun \/ LineEnded PROVE IInv'
    OBVIOUS
  <1>1. /\ messages' = messages /\ late' = late /\ inst' = inst /\ gen' = gen
        /\ db' = db /\ tx' = tx /\ locked' = locked /\ pc' = pc /\ cur' = cur /\ pos' = pos
        /\ mid' = mid /\ torn' = torn /\ pushed' = pushed /\ failures' = failures
        /\ partial' \in BOOLEAN
    BY DEF LineBegun, LineEnded, importVars
  <1>2. /\ file' \in Seq(Lines)
        /\ Len(file') >= Len(file)
        /\ \A j \in 1 .. Len(file) : file'[j] = file[j]
        /\ logged' \in SUBSET Ids
        /\ logged \subseteq logged'
        /\ \A j \in DOMAIN file' : file'[j].id \in logged'
    <2>1. CASE LineBegun
      BY <2>1 DEF LineBegun, IInv, TypeOK, HistoryInv
    <2>2. CASE LineEnded
      <3>1. PICK i \in DOMAIN messages, k \in 0 .. MaxTokens :
                /\ file' = Append(file, [id |-> RowId(i), tok |-> k])
                /\ logged' = logged \cup {RowId(i)}
        BY <2>2 DEF LineEnded
      <3>2. [id |-> RowId(i), tok |-> k] \in Lines
        BY SizesAssumption DEF IInv, TypeOK, RowId, Ids, Lines
      <3>3. RowId(i) \in Ids
        BY DEF IInv, TypeOK, RowId, Ids
      <3> QED
        BY <3>1, <3>2, <3>3 DEF IInv, TypeOK, HistoryInv
    <2> QED
      BY <2>1, <2>2
  <1>3. TypeOK'
    BY <1>1, <1>2 DEF IInv, TypeOK
  <1>4. (LockInv /\ HistoryInv /\ PushInv)'
    BY <1>1, <1>2 DEF IInv, LockInv, HistoryInv, PushInv, Stored
  <1>5. Len(file) \in Nat /\ Len(file') \in Nat /\ pos \in Nat
    BY <1>2 DEF IInv, TypeOK
  <1>6. ReadInv'
    BY <1>1, <1>2, <1>5 DEF IInv, TypeOK, ReadInv
  <1>7. ASSUME NEW c \in Cursors, NEW T
        PROVE  /\ MessagesSaved(c, T) => MessagesSaved(c, T)'
               /\ LinesSaved(c, T) => LinesSaved(c, T)'
    <2>1. MessagesSaved(c, T) => MessagesSaved(c, T)'
      BY <1>1, <1>2 DEF MessagesSaved, MessageKept, RowId, Stored
    <2>2. LinesSaved(c, T) => LinesSaved(c, T)'
      <3>1. c.offset \in Nat
        BY DEF Cursors
      <3> QED
        BY <1>1, <1>2, <1>5, <3>1 DEF LinesSaved, Stored
    <2> QED
      BY <2>1, <2>2
  <1>8. MessagesInv' /\ LinesInv'
    BY <1>1, <1>7 DEF IInv, TypeOK, MessagesInv, LinesInv
  <1> QED
    BY <1>3, <1>4, <1>6, <1>8 DEF IInv

LEMMA TokenLogReplacedKeepsIInv == IInv /\ TokenLogReplaced => IInv'
  <1> SUFFICES ASSUME IInv, TokenLogReplaced PROVE IInv'
    OBVIOUS
  <1>0. file' = <<>>
    BY DEF TokenLogReplaced
  <1>1. /\ messages' = messages /\ late' = late /\ inst' = inst
        /\ partial' = FALSE /\ gen' = gen + 1 /\ db' = db /\ tx' = tx
        /\ locked' = locked /\ pc' = pc /\ cur' = cur /\ pos' = pos /\ mid' = mid
        /\ torn' = {} /\ logged' = logged /\ pushed' = pushed /\ failures' = failures
    BY DEF TokenLogReplaced, importVars
  <1>2. TypeOK'
    <2>1. file' \in Seq(Lines)
      BY <1>0, EmptyLog
    <2>2. gen' \in Nat
      BY <1>1 DEF IInv, TypeOK
    <2>3. partial' \in BOOLEAN /\ torn' \subseteq Nat
      BY <1>1
    <2> QED
      BY <1>1, <2>1, <2>2, <2>3 DEF IInv, TypeOK
  <1>3. \A c \in Cursors, n \in Nat : c.logOf <= n => c.logOf <= n + 1 /\ c.logOf # n + 1
    BY DEF Cursors
  <1>4. HistoryInv'
    BY <1>0, <1>1, <1>3 DEF IInv, TypeOK, HistoryInv
  <1>5. ReadInv' /\ LinesInv'
    BY <1>0, <1>1, <1>3 DEF IInv, TypeOK, HistoryInv, ReadInv, LinesInv, LinesSaved
  <1>6. (LockInv /\ PushInv)'
    BY <1>1 DEF IInv, LockInv, PushInv, Stored
  <1>7. MessagesInv'
    BY <1>1 DEF IInv, MessagesInv, MessagesSaved, MessageKept, RowId, Stored
  <1> QED
    BY <1>2, <1>4, <1>5, <1>6, <1>7 DEF IInv

-----------------------------------------------------------------------------
(* A push, and the import.                                                 *)

(***************************************************************************)
(* Storing more rows keeps what a pair of cursors has saved, as long as    *)
(* only messages the log or a push reported lose their own counts.         *)
(***************************************************************************)
LEMMA SavedUpsert ==
    ASSUME TypeOK, NEW c \in Cursors, NEW T \in SUBSET Turns, NEW N \in SUBSET Turns,
           \A n \in N : n.id \in logged
    PROVE  /\ MessagesSaved(c, T) => MessagesSaved(c, Upsert(T, N))
           /\ LinesSaved(c, T) => LinesSaved(c, Upsert(T, N))
  <1> DEFINE U == Upsert(T, N)
  <1>1. /\ \A id \in Ids : Stored(T, id) => Stored(U, id)
        /\ \A r \in T : (\A n \in N : n.id # r.id) => r \in U
        /\ \A n \in N : Stored(U, n.id)
    BY UpsertKeeps
  <1>2. \A i \in DOMAIN messages : RowId(i) \in Ids
    BY IdsOfFiles
  <1>3. \A j \in DOMAIN file : file[j].id \in Ids
    BY IdsOfFiles
  <1> HIDE DEF U
  <1>4. \A i \in DOMAIN messages : MessageKept(T, i) => MessageKept(U, i)
    <2> SUFFICES ASSUME NEW i \in DOMAIN messages, MessageKept(T, i)
                 PROVE  MessageKept(U, i)
      OBVIOUS
    <2> DEFINE own == [id |-> RowId(i), tok |-> messages[i]]
    <2>1. CASE own \in T /\ \A n \in N : n.id # RowId(i)
      <3>1. own \in U
        BY <1>1, <2>1
      <3> QED
        BY <3>1 DEF MessageKept
    <2>2. CASE own \in T /\ \E n \in N : n.id = RowId(i)
      <3>1. RowId(i) \in logged /\ Stored(U, RowId(i))
        BY <1>1, <2>2
      <3> QED
        BY <3>1 DEF MessageKept
    <2>3. CASE RowId(i) \in logged /\ Stored(T, RowId(i))
      BY <1>1, <1>2, <2>3 DEF MessageKept
    <2> QED
      BY <2>1, <2>2, <2>3 DEF MessageKept
  <1>5. MessagesSaved(c, T) => MessagesSaved(c, U)
    BY <1>4 DEF MessagesSaved
  <1>6. LinesSaved(c, T) => LinesSaved(c, U)
    <2>1. \A j \in 1 .. c.offset : c.offset <= Len(file) => j \in DOMAIN file
      BY DEF TypeOK, Cursors
    <2> QED
      BY <1>1, <1>3, <2>1 DEF LinesSaved
  <1> QED
    BY <1>5, <1>6 DEF U

LEMMA PushKeepsIInv == IInv /\ Push => IInv'
  <1> SUFFICES ASSUME IInv, Push PROVE IInv'
    OBVIOUS
  <1>0. PICK i \in DOMAIN messages : \E k \in 1 .. MaxTokens :
            /\ db' = [db EXCEPT !.turns = Upsert(@, {[id |-> RowId(i), tok |-> k]})]
            /\ tx' = IF locked THEN tx ELSE db'.turns
            /\ pushed' = pushed \cup {RowId(i)}
            /\ logged' = logged \cup {RowId(i)}
    BY DEF Push
  <1>1. PICK k \in 1 .. MaxTokens :
            /\ db' = [db EXCEPT !.turns = Upsert(@, {[id |-> RowId(i), tok |-> k]})]
            /\ tx' = IF locked THEN tx ELSE db'.turns
            /\ pushed' = pushed \cup {RowId(i)}
            /\ logged' = logged \cup {RowId(i)}
    BY <1>0
  <1> DEFINE N == {[id |-> RowId(i), tok |-> k]}
  <1>2. /\ messages' = messages /\ late' = late /\ inst' = inst /\ gen' = gen /\ file' = file
        /\ partial' = partial /\ locked' = locked /\ pc' = pc /\ cur' = cur /\ pos' = pos
        /\ mid' = mid /\ torn' = torn /\ failures' = failures
    BY DEF Push, codeVars, importVars
  <1>3. ~locked /\ tx = db.turns
    BY DEF Push, MayPush, IInv, LockInv
  <1>4. RowId(i) \in Ids /\ N \in SUBSET Turns
    BY SizesAssumption DEF IInv, TypeOK, RowId, Ids, Turns
  <1>5. /\ db.turns \in SUBSET Turns /\ db.cur \in Cursors
        /\ db'.turns = Upsert(db.turns, N) /\ db'.cur = db.cur /\ tx' = db'.turns
    BY <1>1, <1>3 DEF IInv, TypeOK
  <1>6. /\ db'.turns \in SUBSET Turns
        /\ \A id \in Ids : Stored(db.turns, id) => Stored(db'.turns, id)
        /\ Stored(db'.turns, RowId(i))
    <2>1. [id |-> RowId(i), tok |-> k] \in N
      OBVIOUS
    <2> HIDE DEF N
    <2>2. /\ Upsert(db.turns, N) \in SUBSET Turns
          /\ \A id \in Ids : Stored(db.turns, id) => Stored(Upsert(db.turns, N), id)
          /\ \A n \in N : Stored(Upsert(db.turns, N), n.id)
      BY <1>4, <1>5, UpsertKeeps
    <2>3. Stored(Upsert(db.turns, N), RowId(i))
      BY <2>1, <2>2
    <2> QED
      BY <1>5, <2>2, <2>3
  <1>7. TypeOK'
    BY <1>1, <1>2, <1>4, <1>5, <1>6 DEF IInv, TypeOK
  <1>8. (LockInv /\ HistoryInv /\ ReadInv)'
    BY <1>1, <1>2, <1>5 DEF IInv, LockInv, HistoryInv, ReadInv
  <1>9. PushInv'
    <2>1. \A id \in pushed : id \in Ids /\ Stored(db.turns, id)
      BY DEF IInv, TypeOK, PushInv
    <2>2. \A id \in pushed' : Stored(db'.turns, id)
      BY <1>1, <1>6, <2>1
    <2> QED
      BY <1>5, <2>2 DEF PushInv
  <1>10. ASSUME NEW c \in Cursors
         PROVE  /\ MessagesSaved(c, db.turns) => MessagesSaved(c, db.turns)'
                /\ LinesSaved(c, db.turns) => LinesSaved(c, db.turns)'
    <2> DEFINE more == logged \cup {RowId(i)}
    <2>1. ASSUME NEW j \in DOMAIN messages, MessageKept(db.turns, j)
          PROVE  MessageKept(db.turns, j)'
      <3>1. CASE RowId(j) = RowId(i)
        BY <1>1, <1>2, <1>6, <3>1 DEF MessageKept, RowId
      <3>2. CASE RowId(j) # RowId(i)
        <4>1. [id |-> RowId(j), tok |-> messages[j]] \in db.turns
                => [id |-> RowId(j), tok |-> messages[j]] \in db'.turns
          BY <1>5, <3>2 DEF Upsert
        <4>2. Stored(db.turns, RowId(j)) => Stored(db'.turns, RowId(j))
          BY <1>6, IdsOfFiles DEF IInv
        <4> QED
          BY <1>1, <1>2, <2>1, <4>1, <4>2 DEF MessageKept, RowId
      <3> QED
        BY <3>1, <3>2
    <2>2. MessagesSaved(c, db.turns) => MessagesSaved(c, db.turns)'
      BY <1>2, <2>1 DEF MessagesSaved
    <2>3. LinesSaved(c, db.turns) => LinesSaved(c, db.turns)'
      <3>1. \A j \in DOMAIN file : file[j].id \in Ids
        BY IdsOfFiles DEF IInv
      <3>2. \A j \in 1 .. c.offset : c.offset <= Len(file) => j \in DOMAIN file
        BY DEF IInv, TypeOK, Cursors
      <3> QED
        BY <1>2, <1>6, <3>1, <3>2 DEF LinesSaved
    <2> QED
      BY <2>2, <2>3
  <1>11. (MessagesInv /\ LinesInv)'
    BY <1>2, <1>3, <1>5, <1>10 DEF IInv, TypeOK, MessagesInv, LinesInv
  <1> QED
    BY <1>7, <1>8, <1>9, <1>11 DEF IInv

(***************************************************************************)
(* A step of the import itself only has to keep what concerns its own rows *)
(* and cursors.                                                            *)
(***************************************************************************)
LEMMA ImportKeepsIInv ==
    ASSUME IInv,
           UNCHANGED <<codeVars, db, logged, pushed>>,
           torn \subseteq torn',
           TypeOK', LockInv', ReadInv',
           \A id \in pushed : Stored(tx', id),
           pc' # "idle" => cur'.of <= inst /\ cur'.logOf <= gen,
           pc' # "idle" => MessagesSaved(cur, tx)' /\ LinesSaved(cur, tx)'
    PROVE  IInv'
  <1>1. /\ messages' = messages /\ inst' = inst /\ file' = file /\ partial' = partial
        /\ gen' = gen /\ late' = late /\ db' = db /\ logged' = logged /\ pushed' = pushed
    BY DEF codeVars
  <1>2. HistoryInv'
    BY <1>1 DEF IInv, HistoryInv
  <1>3. PushInv'
    BY <1>1 DEF IInv, PushInv, Stored
  <1>4. MessagesSaved(db.cur, db.turns)'
    BY <1>1 DEF IInv, MessagesInv, MessagesSaved, MessageKept, RowId, Stored
  <1>5. LinesSaved(db.cur, db.turns)'
    BY <1>1 DEF IInv, LinesInv, LinesSaved, Stored
  <1> QED
    BY <1>2, <1>3, <1>4, <1>5 DEF IInv, MessagesInv, LinesInv

(***************************************************************************)
(* The import starts from what is committed, or from nothing.              *)
(***************************************************************************)
LEMMA StartImportKeepsIInv == IInv /\ StartImport => IInv'
  <1> SUFFICES ASSUME IInv, StartImport PROVE IInv'
    OBVIOUS
  <1>1. /\ UNCHANGED <<codeVars, db, tx, locked, pos, mid, torn, logged, pushed, failures>>
        /\ pc = "idle" /\ pc' = "scan"
        /\ cur' = [db.cur EXCEPT !.rowid = StartRowid, !.of = IF StartRowid = 0 THEN inst ELSE @]
    BY DEF StartImport
  <1>2. /\ messages' = messages /\ inst' = inst /\ file' = file /\ partial' = partial
        /\ gen' = gen /\ late' = late /\ db' = db /\ tx' = tx /\ locked' = locked
        /\ pos' = pos /\ mid' = mid /\ torn' = torn /\ logged' = logged /\ pushed' = pushed
        /\ failures' = failures
    BY <1>1 DEF codeVars
  <1>3. db.cur \in Cursors /\ inst \in Nat
    BY DEF IInv, TypeOK
  <1>4. StartRowid \in Nat /\ (StartRowid = 0 \/ StartRowid = db.cur.rowid)
    BY <1>3 DEF StartRowid, Cursors
  <1>5. /\ cur' \in Cursors
        /\ cur'.rowid = StartRowid
        /\ cur'.of = IF StartRowid = 0 THEN inst ELSE db.cur.of
        /\ cur'.offset = db.cur.offset
        /\ cur'.logOf = db.cur.logOf
    BY <1>1, <1>3, <1>4 DEF Cursors
  <1>6. tx = db.turns
    BY <1>1 DEF IInv, LockInv
  <1>7. TypeOK'
    BY <1>1, <1>2, <1>5 DEF IInv, TypeOK
  <1>8. LockInv' /\ ReadInv'
    BY <1>1, <1>2, <1>6 DEF IInv, LockInv, ReadInv
  <1>9. cur'.of <= inst /\ cur'.logOf <= gen
    BY <1>3, <1>5 DEF IInv, HistoryInv
  <1>10. MessagesSaved(cur, tx)'
    <2>1. CASE StartRowid = 0
      <3>1. \A i \in DOMAIN messages : i + Lookback > 0
        BY LookbackAssumption DEF IInv, TypeOK
      <3> QED
        BY <1>2, <1>5, <2>1, <3>1 DEF MessagesSaved
    <2>2. CASE StartRowid # 0
      BY <1>2, <1>4, <1>5, <1>6, <2>2
        DEF IInv, MessagesInv, MessagesSaved, MessageKept, RowId, Stored
    <2> QED
      BY <2>1, <2>2
  <1>11. LinesSaved(cur, tx)'
    BY <1>2, <1>5, <1>6 DEF IInv, LinesInv, LinesSaved, Stored
  <1>12. \A id \in pushed : Stored(tx', id)
    BY <1>2 DEF IInv, PushInv, Stored
  <1> QED
    BY <1>1, <1>2, <1>7, <1>8, <1>9, <1>10, <1>11, <1>12, ImportKeepsIInv

(***************************************************************************)
(* A scan stores the complete rows within reach as they are now, and the   *)
(* cursor only moves to one of them.                                       *)
(***************************************************************************)
LEMMA ScanMessagesKeepsIInv == IInv /\ ScanMessages => IInv'
  <1> SUFFICES ASSUME IInv, ScanMessages PROVE IInv'
    OBVIOUS
  <1> DEFINE N == {[id |-> RowId(i), tok |-> messages[i]] : i \in UsageRows}
  <1>1. /\ UNCHANGED <<codeVars, db, pos, mid, torn, logged, pushed, failures>>
        /\ pc = "scan" /\ pc' = "open"
        /\ tx' = Upsert(tx, N)
        /\ locked' = (UsageRows # {})
        /\ \/ UsageRows = {} /\ cur' = cur
           \/ \E last \in UsageRows :
                (\A i \in UsageRows : i <= last) /\ cur' = [cur EXCEPT !.rowid = last]
    BY DEF ScanMessages
  <1>2. /\ messages' = messages /\ inst' = inst /\ file' = file /\ partial' = partial
        /\ gen' = gen /\ late' = late /\ db' = db
        /\ pos' = pos /\ mid' = mid /\ torn' = torn /\ logged' = logged /\ pushed' = pushed
        /\ failures' = failures
    BY <1>1 DEF codeVars
  <1>3. /\ UsageRows \subseteq DOMAIN messages
        /\ \A i \in UsageRows : messages[i] \in Nat \ {0}
        /\ \A i \in DOMAIN messages : i \in Nat
        /\ cur \in Cursors /\ tx \in SUBSET Turns
    BY DEF UsageRows, IInv, TypeOK
  <1>4. N \in SUBSET Turns
    BY <1>3, IdsOfFiles DEF Turns, IInv
  <1>5. \A i \in UsageRows : [id |-> RowId(i), tok |-> messages[i]] \in N
    OBVIOUS
  <1>6. \A n \in N : \E i \in UsageRows : n = [id |-> RowId(i), tok |-> messages[i]]
    OBVIOUS
  <1> HIDE DEF N
  <1>7. /\ tx' \in SUBSET Turns
        /\ N \subseteq tx'
        /\ \A id \in Ids : Stored(tx, id) => Stored(tx', id)
        /\ \A r \in tx : (\A n \in N : n.id # r.id) => r \in tx'
    BY <1>1, <1>3, <1>4, UpsertKeeps
  <1>8. /\ cur' \in Cursors
        /\ cur'.of = cur.of /\ cur'.offset = cur.offset /\ cur'.logOf = cur.logOf
        /\ \/ UsageRows = {} /\ cur'.rowid = cur.rowid
           \/ cur'.rowid \in UsageRows
    BY <1>1, <1>3 DEF Cursors
  <1>9. TypeOK'
    BY <1>1, <1>2, <1>7, <1>8 DEF IInv, TypeOK
  <1>10. LockInv' /\ ReadInv'
    <2>1. UsageRows = {} => tx' = tx
      BY <1>1, <1>6 DEF Upsert
    <2>2. tx = db.turns
      BY <1>1 DEF IInv, LockInv
    <2> QED
      BY <1>1, <1>2, <2>1, <2>2 DEF LockInv, ReadInv, IInv
  <1>11. cur'.of <= inst /\ cur'.logOf <= gen
    BY <1>1, <1>8 DEF IInv, HistoryInv
  <1>12. MessagesSaved(cur, tx)'
    <2>1. ASSUME NEW i \in DOMAIN messages, i \in UsageRows
          PROVE  MessageKept(tx, i)'
      BY <1>2, <1>5, <1>7, <2>1 DEF MessageKept, RowId
    <2>2. ASSUME NEW i \in DOMAIN messages, i \notin UsageRows, MessageKept(tx, i)
          PROVE  MessageKept(tx, i)'
      <3>1. \A n \in N : n.id # RowId(i)
        BY <1>3, <1>6, <2>2 DEF RowId
      <3>2. [id |-> RowId(i), tok |-> messages[i]] \in tx
              => [id |-> RowId(i), tok |-> messages[i]] \in tx'
        BY <1>7, <3>1
      <3>3. Stored(tx, RowId(i)) => Stored(tx', RowId(i))
        BY <1>7, IdsOfFiles DEF IInv
      <3> QED
        BY <1>2, <2>2, <3>2, <3>3 DEF MessageKept, RowId, Stored
    <2>3. ASSUME NEW i \in DOMAIN messages, i \notin UsageRows, i + Lookback > cur.rowid
          PROVE  MessageKept(tx, i)'
      BY <1>2, <2>3 DEF MessageKept, UsageRows, Scanned
    <2>4. MessagesSaved(cur, tx)
      BY <1>1 DEF IInv, MessagesInv
    <2>5. cur.of = inst => \A i \in DOMAIN messages : MessageKept(tx, i)'
      BY <2>1, <2>2, <2>3, <2>4 DEF MessagesSaved
    <2>6. cur.of = inst /\ cur'.rowid # 0 => cur'.rowid \in DOMAIN messages /\ messages[cur'.rowid] # 0
      BY <1>3, <1>8, <2>4 DEF MessagesSaved
    <2> QED
      BY <1>2, <1>8, <2>5, <2>6 DEF MessagesSaved
  <1>13. LinesSaved(cur, tx)'
    <2>1. LinesSaved(cur, tx)
      BY <1>1 DEF IInv, LinesInv
    <2>2. \A j \in DOMAIN file : file[j].id \in Ids
      BY IdsOfFiles DEF IInv
    <2>3. \A j \in 1 .. cur.offset : cur.offset <= Len(file) => j \in DOMAIN file
      BY <1>3 DEF IInv, TypeOK, Cursors
    <2>4. \A j \in DOMAIN file : Stored(tx, file[j].id) => Stored(tx', file[j].id)
      BY <1>7, <2>2
    <2> QED
      BY <1>2, <1>8, <2>1, <2>3, <2>4 DEF LinesSaved, Stored
  <1>14. \A id \in pushed : Stored(tx', id)
    BY <1>7 DEF IInv, TypeOK, PushInv
  <1> QED
    BY <1>1, <1>2, <1>9, <1>10, <1>11, <1>12, <1>13, <1>14, ImportKeepsIInv

(***************************************************************************)
(* Opening the token log takes up at the offset, or starts over.           *)
(***************************************************************************)
LEMMA OpenTokenLogKeepsIInv == IInv /\ OpenTokenLog => IInv'
  <1> SUFFICES ASSUME IInv, OpenTokenLog PROVE IInv'
    OBVIOUS
  <1>1. /\ UNCHANGED <<codeVars, db, tx, locked, torn, logged, pushed, failures>>
        /\ pc = "open" /\ pc' = "read" /\ pos' = StartOffset /\ mid' = FALSE
        /\ cur' = [cur EXCEPT !.offset = StartOffset,
                              !.logOf = IF StartOffset = 0 THEN gen ELSE @]
    BY DEF OpenTokenLog
  <1>2. /\ messages' = messages /\ inst' = inst /\ file' = file /\ partial' = partial
        /\ gen' = gen /\ late' = late /\ db' = db /\ tx' = tx /\ locked' = locked
        /\ torn' = torn /\ logged' = logged /\ pushed' = pushed /\ failures' = failures
    BY <1>1 DEF codeVars
  <1>3. cur \in Cursors /\ gen \in Nat /\ Len(file) \in Nat
    BY DEF IInv, TypeOK
  <1>4. /\ StartOffset \in Nat /\ StartOffset <= Len(file)
        /\ StartOffset = 0 \/ StartOffset = cur.offset
    BY <1>3 DEF StartOffset, Cursors
  <1>5. /\ cur' \in Cursors
        /\ cur'.rowid = cur.rowid /\ cur'.of = cur.of
        /\ cur'.offset = StartOffset
        /\ cur'.logOf = IF StartOffset = 0 THEN gen ELSE cur.logOf
    BY <1>1, <1>3, <1>4 DEF Cursors
  <1>6. TypeOK'
    BY <1>1, <1>2, <1>4, <1>5 DEF IInv, TypeOK
  <1>7. LockInv' /\ ReadInv'
    BY <1>1, <1>2, <1>4, <1>5 DEF IInv, LockInv, ReadInv
  <1>8. cur'.of <= inst /\ cur'.logOf <= gen
    BY <1>1, <1>3, <1>5 DEF IInv, HistoryInv
  <1>9. MessagesSaved(cur, tx)'
    BY <1>1, <1>2, <1>5 DEF IInv, MessagesInv, MessagesSaved, MessageKept, RowId, Stored
  <1>10. LinesSaved(cur, tx)'
    <2>1. LinesSaved(cur, tx)
      BY <1>1 DEF IInv, LinesInv
    <2> QED
      BY <1>2, <1>3, <1>4, <1>5, <2>1 DEF LinesSaved, Stored
  <1>11. \A id \in pushed : Stored(tx', id)
    BY <1>2 DEF IInv, PushInv, Stored
  <1> QED
    BY <1>1, <1>2, <1>6, <1>7, <1>8, <1>9, <1>10, <1>11, ImportKeepsIInv

(***************************************************************************)
(* Reading a line stores it before the offset moves behind it, and what    *)
(* lies between the old offset and this line is torn.                      *)
(***************************************************************************)
LEMMA ReadLineKeepsIInv == IInv /\ ReadLine => IInv'
  <1> SUFFICES ASSUME IInv, ReadLine PROVE IInv'
    OBVIOUS
  <1> DEFINE line == file[pos + 1]
             N == IF line.tok = 0 THEN {} ELSE {line}
  <1>1. /\ UNCHANGED <<codeVars, db, pc, mid, torn, logged, pushed, failures>>
        /\ pc = "read" /\ pos < Len(file) /\ pos' = pos + 1
        /\ tx' = IF line.tok = 0 THEN tx ELSE Upsert(tx, {line})
        /\ locked' = (locked \/ line.tok # 0)
        /\ cur' = [cur EXCEPT !.offset = pos + 1]
    BY DEF ReadLine, OffsetAfterLine
  <1>2. /\ messages' = messages /\ inst' = inst /\ file' = file /\ partial' = partial
        /\ gen' = gen /\ late' = late /\ db' = db /\ pc' = pc /\ mid' = mid
        /\ torn' = torn /\ logged' = logged /\ pushed' = pushed /\ failures' = failures
    BY <1>1 DEF codeVars
  <1>3. cur \in Cursors /\ pos \in Nat /\ Len(file) \in Nat /\ tx \in SUBSET Turns
    BY DEF IInv, TypeOK
  <1>4. pos + 1 \in DOMAIN file
    BY <1>1, <1>3 DEF IInv, TypeOK
  <1>5. line \in Lines /\ line.id \in logged
    BY <1>4, IdsOfFiles DEF IInv, HistoryInv
  <1>6. N \in SUBSET Turns /\ \A n \in N : n.id \in logged
    BY <1>5 DEF Lines, Turns
  <1>7. tx' = Upsert(tx, N)
    BY <1>1 DEF Upsert
  <1>8. line.tok = 0 \/ line \in N
    OBVIOUS
  <1> HIDE DEF N, line
  <1>9. /\ tx' \in SUBSET Turns
        /\ \A id \in Ids : Stored(tx, id) => Stored(tx', id)
        /\ \A n \in N : Stored(tx', n.id)
    BY <1>3, <1>6, <1>7, UpsertKeeps
  <1>10. /\ cur' \in Cursors
         /\ cur'.rowid = cur.rowid /\ cur'.of = cur.of /\ cur'.logOf = cur.logOf
         /\ cur'.offset = pos + 1
    BY <1>1, <1>3 DEF Cursors
  <1>11. TypeOK'
    <2>1. locked' \in BOOLEAN
      BY <1>1
    <2>2. pos' \in Nat
      BY <1>1, <1>3
    <2> QED
      BY <1>2, <1>9, <1>10, <2>1, <2>2 DEF IInv, TypeOK
  <1>12. LockInv' /\ ReadInv'
    <2>1. ~locked' => ~locked /\ tx' = tx
      BY <1>1
    <2>2. LockInv'
      BY <1>1, <1>2, <2>1 DEF IInv, LockInv
    <2>3. ReadInv'
      BY <1>1, <1>2, <1>3, <1>10 DEF ReadInv
    <2> QED
      BY <2>2, <2>3
  <1>13. cur'.of <= inst /\ cur'.logOf <= gen
    BY <1>1, <1>10 DEF IInv, HistoryInv
  <1>14. MessagesSaved(cur, tx)'
    <2>1. MessagesSaved(cur, tx)
      BY <1>1 DEF IInv, MessagesInv
    <2>2. MessagesSaved(cur, tx')
      BY <1>3, <1>6, <1>7, <2>1, SavedUpsert DEF IInv
    <2> QED
      BY <1>2, <1>10, <2>2 DEF MessagesSaved, MessageKept, RowId, Stored
  <1>15. LinesSaved(cur, tx)'
    <2>1. LinesSaved(cur, tx)
      BY <1>1 DEF IInv, LinesInv
    <2>2. LinesSaved(cur, tx')
      BY <1>3, <1>6, <1>7, <2>1, SavedUpsert DEF IInv
    <2>3. line.tok = 0 \/ Stored(tx', line.id)
      BY <1>8, <1>9
    <2>4. cur.logOf = gen => \A j \in 1 .. pos + 1 :
              file[j].tok = 0 \/ j \in torn \/ Stored(tx', file[j].id)
      <3> SUFFICES ASSUME cur.logOf = gen, NEW j \in 1 .. pos + 1
                   PROVE  file[j].tok = 0 \/ j \in torn \/ Stored(tx', file[j].id)
        OBVIOUS
      <3>1. CASE j = pos + 1
        BY <2>3, <3>1 DEF line
      <3>2. CASE j \in 1 .. cur.offset
        BY <2>2, <3>2 DEF LinesSaved
      <3>3. CASE j \in cur.offset + 1 .. pos
        BY <1>1, <3>3 DEF IInv, ReadInv
      <3>4. cur.offset \in Nat
        BY <1>3 DEF Cursors
      <3> QED
        BY <1>3, <3>1, <3>2, <3>3, <3>4
    <2>5. pos + 1 <= Len(file)
      BY <1>1, <1>3
    <2> QED
      BY <1>2, <1>10, <2>4, <2>5 DEF LinesSaved, Stored
  <1>16. \A id \in pushed : Stored(tx', id)
    BY <1>9 DEF IInv, TypeOK, PushInv
  <1> QED
    BY <1>1, <1>2, <1>11, <1>12, <1>13, <1>14, <1>15, <1>16, ImportKeepsIInv

(***************************************************************************)
(* Half a line moves nothing; its other half is torn before it is passed.  *)
(***************************************************************************)
LEMMA ReadHalfKeepsIInv == IInv /\ (ReadHalf \/ ReadTail) => IInv'
  <1> SUFFICES ASSUME IInv, ReadHalf \/ ReadTail PROVE IInv'
    OBVIOUS
  <1>1. /\ UNCHANGED <<codeVars, db, tx, locked, pc, logged, pushed, failures>>
        /\ pc = "read" /\ mid' \in BOOLEAN
        /\ \/ pos' = pos /\ torn' = torn
           \/ pos < Len(file) /\ pos' = pos + 1 /\ torn' = torn \cup {pos + 1}
    BY DEF ReadHalf, ReadTail
  <1>2. /\ messages' = messages /\ inst' = inst /\ file' = file /\ partial' = partial
        /\ gen' = gen /\ late' = late /\ db' = db /\ tx' = tx /\ locked' = locked
        /\ pc' = pc /\ logged' = logged /\ pushed' = pushed /\ failures' = failures
    BY <1>1 DEF codeVars
  <1>3. cur \in Cursors /\ pos \in Nat /\ Len(file) \in Nat
    BY DEF IInv, TypeOK
  <1>4. cur' = cur
    <2>1. CASE ReadHalf
      <3>1. cur' = [cur EXCEPT !.offset = cur.offset]
        BY <2>1 DEF ReadHalf, OffsetAfterHalf
      <3> QED
        BY <1>3, <3>1 DEF Cursors
    <2>2. CASE ReadTail
      BY <2>2 DEF ReadTail
    <2> QED
      BY <2>1, <2>2
  <1>5. TypeOK'
    <2>1. pos' \in Nat /\ torn' \subseteq Nat
      <3>1. torn \subseteq Nat
        BY DEF IInv, TypeOK
      <3>2. pos + 1 \in Nat
        BY <1>3
      <3> QED
        BY <1>1, <1>3, <3>1, <3>2
    <2>2. mid' \in BOOLEAN
      BY <1>1
    <2> QED
      BY <1>2, <1>4, <2>1, <2>2 DEF IInv, TypeOK
  <1>6. LockInv'
    BY <1>2 DEF IInv, LockInv
  <1>7. ReadInv'
    BY <1>1, <1>2, <1>3, <1>4 DEF IInv, ReadInv, Cursors
  <1>8. cur'.of <= inst /\ cur'.logOf <= gen
    BY <1>1, <1>4 DEF IInv, HistoryInv
  <1>9. MessagesSaved(cur, tx)'
    BY <1>1, <1>2, <1>4 DEF IInv, MessagesInv, MessagesSaved, MessageKept, RowId, Stored
  <1>10. LinesSaved(cur, tx)'
    <2>1. LinesSaved(cur, tx)
      BY <1>1 DEF IInv, LinesInv
    <2> QED
      BY <1>1, <1>2, <1>4, <2>1 DEF LinesSaved, Stored
  <1>11. \A id \in pushed : Stored(tx', id)
    BY <1>2 DEF IInv, PushInv, Stored
  <1> QED
    BY <1>1, <1>2, <1>5, <1>6, <1>7, <1>8, <1>9, <1>10, <1>11, ImportKeepsIInv

(***************************************************************************)
(* A commit makes the import's own rows and cursors the committed ones; a  *)
(* failure leaves the committed ones alone.                                *)
(***************************************************************************)
LEMMA CommitImportKeepsIInv == IInv /\ CommitImport => IInv'
  <1> SUFFICES ASSUME IInv, CommitImport PROVE IInv'
    OBVIOUS
  <1>1. /\ UNCHANGED <<codeVars, tx, torn, logged, pushed, failures>>
        /\ pc = "read" /\ db' = [turns |-> tx, cur |-> cur]
        /\ pc' = "idle" /\ locked' = FALSE /\ cur' = NoCursors /\ pos' = 0 /\ mid' = FALSE
    BY DEF CommitImport, Return
  <1>2. /\ messages' = messages /\ inst' = inst /\ file' = file /\ partial' = partial
        /\ gen' = gen /\ late' = late /\ tx' = tx /\ torn' = torn /\ logged' = logged
        /\ pushed' = pushed /\ failures' = failures
    BY <1>1 DEF codeVars
  <1>3. db'.turns = tx /\ db'.cur = cur
    BY <1>1
  <1>4. NoCursors \in Cursors
    BY DEF NoCursors, Cursors
  <1>5. TypeOK'
    BY <1>1, <1>2, <1>4 DEF IInv, TypeOK
  <1>6. (LockInv /\ HistoryInv /\ ReadInv)'
    BY <1>1, <1>2, <1>3 DEF IInv, LockInv, HistoryInv, ReadInv
  <1>7. PushInv'
    BY <1>2, <1>3 DEF IInv, PushInv, Stored
  <1>8. MessagesInv'
    BY <1>1, <1>2, <1>3 DEF IInv, MessagesInv, MessagesSaved, MessageKept, RowId, Stored
  <1>9. LinesInv'
    BY <1>1, <1>2, <1>3 DEF IInv, LinesInv, LinesSaved, Stored
  <1> QED
    BY <1>5, <1>6, <1>7, <1>8, <1>9 DEF IInv

LEMMA FailImportKeepsIInv == IInv /\ FailImport => IInv'
  <1> SUFFICES ASSUME IInv, FailImport PROVE IInv'
    OBVIOUS
  <1>1. /\ UNCHANGED <<codeVars, db, torn, logged, pushed>>
        /\ failures' = failures + 1 /\ tx' = db.turns
        /\ pc' = "idle" /\ locked' = FALSE /\ cur' = NoCursors /\ pos' = 0 /\ mid' = FALSE
    BY DEF FailImport, Return
  <1>2. /\ messages' = messages /\ inst' = inst /\ file' = file /\ partial' = partial
        /\ gen' = gen /\ late' = late /\ db' = db /\ torn' = torn /\ logged' = logged
        /\ pushed' = pushed
    BY <1>1 DEF codeVars
  <1>3. NoCursors \in Cursors
    BY DEF NoCursors, Cursors
  <1>4. TypeOK'
    <2>1. tx' \in SUBSET Turns
      BY <1>1 DEF IInv, TypeOK
    <2>2. failures' \in Nat
      BY <1>1 DEF IInv, TypeOK
    <2> QED
      BY <1>1, <1>2, <1>3, <2>1, <2>2 DEF IInv, TypeOK
  <1>5. LockInv' /\ ReadInv'
    BY <1>1, <1>2 DEF LockInv, ReadInv
  <1>6. \A id \in pushed : Stored(tx', id)
    BY <1>1 DEF IInv, PushInv
  <1> QED
    BY <1>1, <1>4, <1>5, <1>6, ImportKeepsIInv

-----------------------------------------------------------------------------
(* The invariant.                                                          *)

THEOREM IInvInductive == IInv /\ [Next]_vars => IInv'
  <1> SUFFICES ASSUME IInv, [Next]_vars PROVE IInv'
    OBVIOUS
  <1>1. CASE OpenCodeStep
    BY <1>1, MessageAddedKeepsIInv, MessageUpdatedKeepsIInv, DatabaseReplacedKeepsIInv,
       LineEndedKeepsIInv, TokenLogReplacedKeepsIInv DEF OpenCodeStep
  <1>2. CASE Push
    BY <1>2, PushKeepsIInv
  <1>3. CASE ImportStep
    BY <1>3, StartImportKeepsIInv, ScanMessagesKeepsIInv, OpenTokenLogKeepsIInv,
       ReadLineKeepsIInv, ReadHalfKeepsIInv, CommitImportKeepsIInv DEF ImportStep
  <1>4. CASE FailImport
    BY <1>4, FailImportKeepsIInv
  <1>5. CASE UNCHANGED vars
    <2>1. /\ messages' = messages /\ inst' = inst /\ file' = file /\ partial' = partial
          /\ gen' = gen /\ late' = late /\ db' = db /\ tx' = tx /\ locked' = locked
          /\ pc' = pc /\ cur' = cur /\ pos' = pos /\ mid' = mid /\ torn' = torn
          /\ logged' = logged /\ pushed' = pushed /\ failures' = failures
      BY <1>5 DEF vars, codeVars, importVars
    <2>2. TypeOK'
      BY <2>1 DEF IInv, TypeOK
    <2>3. (LockInv /\ HistoryInv /\ PushInv /\ ReadInv)'
      BY <2>1 DEF IInv, LockInv, HistoryInv, PushInv, ReadInv, Stored
    <2>4. MessagesInv' /\ LinesInv'
      BY <2>1 DEF IInv, MessagesInv, LinesInv, MessagesSaved, LinesSaved, MessageKept,
                  RowId, Stored
    <2> QED
      BY <2>2, <2>3, <2>4 DEF IInv
  <1> QED
    BY <1>1, <1>2, <1>3, <1>4, <1>5 DEF Next

THEOREM Invariance == Spec => []IInv
  BY InitEstablishesIInv, IInvInductive, PTL DEF Spec

(***************************************************************************)
(* Every variable keeps its type.                                          *)
(***************************************************************************)
THEOREM TypeCorrect == Spec => []TypeOK
  <1>1. IInv => TypeOK
    BY DEF IInv
  <1> QED
    BY <1>1, Invariance, PTL

(***************************************************************************)
(* Whatever the order of OpenCode's writes, the pushes, the scans and the  *)
(* failures, a message is only missed if it was filled in out of the       *)
(* lookback's reach (import_opencode_sources).                             *)
(***************************************************************************)
THEOREM NothingIsMissed == Spec => []NothingMissed
  <1>1. IInv => NothingMissed
    <2> SUFFICES ASSUME IInv PROVE NothingMissed
      OBVIOUS
    <2> QED
      BY DEF IInv, MessagesInv, MessagesSaved, MessageKept, NothingMissed
  <1> QED
    BY <1>1, Invariance, PTL

(***************************************************************************)
(* The saved offset never stands behind a line that was neither stored nor *)
(* torn (read_jsonl_after).                                                *)
(***************************************************************************)
THEOREM LinesAreRead == Spec => []LinesBehindOffset
  <1>1. IInv => LinesBehindOffset
    BY DEF IInv, LinesInv, LinesSaved, LinesBehindOffset
  <1> QED
    BY <1>1, Invariance, PTL

(***************************************************************************)
(* No import loses a push that was answered (ingest_event).                *)
(***************************************************************************)
THEOREM PushesAreKept == Spec => []PushesStay
  <1>1. IInv => PushesStay
    BY DEF IInv, PushInv, PushesStay
  <1> QED
    BY <1>1, Invariance, PTL

=============================================================================
