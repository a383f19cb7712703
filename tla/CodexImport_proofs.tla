-------------------------- MODULE CodexImport_proofs --------------------------
(***************************************************************************)
(* Proofs about CodexImport, for every set of turns, counts, responses and *)
(* log rows, every log length and every number of failed imports.          *)
(***************************************************************************)
EXTENDS CodexImport, WellFoundedInduction, FiniteSetTheorems, FunctionTheorems, TLAPS

(***************************************************************************)
(* What every version of the tables keeps, n being the last row it has     *)
(* scanned.  RowsFromLog alone is not inductive: that an event never meets *)
(* two usage rows to complete needs the ids to be unique, and rows without *)
(* an event to carry the synthetic id of their own turn.                   *)
(***************************************************************************)
StoreInv(l, turns, n) ==
    /\ \A r \in turns : CountsFromLog(l, r, n) /\ PayloadFromOwnTurn(l, r, n)
    /\ \A r \in turns : ~r.event => r.rid = UsageId(r.turn)
    /\ \A r, s \in turns : r.rid = s.rid /\ r.rid # NoId => r = s

IInv ==
    /\ TypeOK
    /\ db.cursor <= Len(log)
    /\ StoreInv(log, db.turns, db.cursor)
    /\ pc # "idle" => tx.cursor = db.cursor
    /\ pc \in {"archive", "repair"} => StoreInv(log, tx.turns, tx.cursor)
    /\ pc = "scan" =>
         /\ tx.cursor <= scanned
         /\ scanned <= limit
         /\ limit <= Len(log)
         /\ StoreInv(log, tx.turns, scanned)
         /\ \A q \in requests : q \in 1 .. scanned /\ log[q].kind = "request"

-----------------------------------------------------------------------------
(* Sets of log ids.                                                        *)

(***************************************************************************)
(* A non-empty set of naturals has a least element.                        *)
(***************************************************************************)
LEMMA LeastOfIds ==
    ASSUME NEW G \in SUBSET Nat, G # {}
    PROVE  \E g \in G : \A m \in G : g <= m
  <1> DEFINE Below == {p \in Nat \X Nat : p[1] < p[2]}
  <1>1. IsWellFoundedOn(Below, Nat)
    BY NatLessThanWellFounded DEF OpToRel
  <1>2. PICK g \in G : \A m \in G : <<m, g>> \notin Below
    <2> HIDE DEF Below
    <2> QED
      BY <1>1, WFMin
  <1>3. \A m \in G : ~(m < g)
    BY <1>2
  <1> QED
    BY <1>3

(***************************************************************************)
(* A non-empty set of numbers up to n has its maximum as a member: the     *)
(* CHOOSE behind Max always has a witness where the import uses it.        *)
(***************************************************************************)
LEMMA MaxOfIds ==
    ASSUME NEW n \in Nat, NEW S \in SUBSET (0 .. n), S # {}
    PROVE  Max(S) \in S /\ \A x \in S : Max(S) >= x
  <1> DEFINE Gaps == {g \in 0 .. n : n - g \in S}
  <1>1. Gaps \in SUBSET Nat
    OBVIOUS
  <1>2. Gaps # {}
    <2>1. PICK x \in S : TRUE
      OBVIOUS
    <2>2. n - x \in Gaps
      OBVIOUS
    <2> QED
      BY <2>2
  <1>3. PICK g \in Gaps : \A m \in Gaps : g <= m
    <2> HIDE DEF Gaps
    <2> QED
      BY <1>1, <1>2, LeastOfIds
  <1>4. n - g \in S
    OBVIOUS
  <1>5. \A y \in S : n - g >= y
    <2> TAKE y \in S
    <2>1. y \in 0 .. n
      OBVIOUS
    <2>2. n - y \in Gaps
      BY <2>1
    <2>3. g <= n - y
      BY <1>3, <2>2
    <2>4. g \in 0 .. n
      OBVIOUS
    <2> HIDE DEF Gaps
    <2> QED
      BY <2>1, <2>3, <2>4
  <1> QED
    BY <1>4, <1>5 DEF Max

-----------------------------------------------------------------------------
(* The statements on `turns`.                                              *)

(***************************************************************************)
(* Reading further, or losing rows to the repair, keeps StoreInv.          *)
(***************************************************************************)
LEMMA StoreInvWeaken ==
    ASSUME NEW T \in SUBSET TurnRow, NEW U \in SUBSET T,
           NEW n \in Nat, NEW m \in Nat, n <= m,
           StoreInv(log, T, n)
    PROVE  StoreInv(log, U, m)
  BY DEF StoreInv, CountsFromLog, PayloadFromOwnTurn

(***************************************************************************)
(* The row the parser makes of the next log row is a table row that counts *)
(* what that log row reports.                                              *)
(***************************************************************************)
LEMMA ParsedRowSound ==
    ASSUME log \in Seq(Entries), NEW i \in 1 .. Len(log), Parses(log[i])
    PROVE  LET new == ParsedRow(i, log[i]) IN
           /\ new \in TurnRow
           /\ new.sid = i
           /\ CountsFromLog(log, new, i)
           /\ PayloadFromOwnTurn(log, new, i)
           /\ ~new.event => new.rid = UsageId(new.turn)
  <1> DEFINE e == log[i]
  <1>1. e \in Entry
    BY EntriesAssumption
  <1>2. ParsedId(e) \in ResponseIds
    BY <1>1 DEF Entry, ParsedId, ResponseIds, UsageId, EstimateId
  <1>3. e.kind \in {"usage", "estimate", "quoted", "event"}
    BY DEF Parses, ParsesAsUsage
  <1>4. ParsedRow(i, e) \in TurnRow
    BY <1>1, <1>2 DEF ParsedRow, TurnRow, Entry
  <1>5. ~ParsedRow(i, e).event => ParsedId(e) = UsageId(e.turn)
    BY <1>3 DEF ParsedRow, ParsedId
  <1> QED
    BY <1>1, <1>3, <1>4, <1>5
    DEF ParsedRow, CountsFromLog, PayloadFromOwnTurn, Entry

(***************************************************************************)
(* upsert_turn on the next log row: it does not raise, and the table stays *)
(* faithful to the log.                                                    *)
(***************************************************************************)
LEMMA UpsertSound ==
    ASSUME NEW T \in SUBSET TurnRow, NEW n \in Nat, NEW new \in TurnRow,
           StoreInv(log, T, n),
           new.sid = n + 1,
           CountsFromLog(log, new, n + 1), PayloadFromOwnTurn(log, new, n + 1),
           ~new.event => new.rid = UsageId(new.turn)
    PROVE  /\ ~UpsertRaises(T, new)
           /\ UpsertTurn(T, new) \in SUBSET TurnRow
           /\ StoreInv(log, UpsertTurn(T, new), n + 1)
  <1> DEFINE A == Absorbable(T, new)
  <1>1. StoreInv(log, T, n + 1)
    BY StoreInvWeaken
  <1>2. \A r \in T : r.sid <= n
    BY DEF StoreInv, CountsFromLog
  <1>3. \A r, s \in A : r = s
    BY DEF StoreInv, Absorbable, UsageId, NoId
  <1>4. ~UpsertRaises(T, new)
    BY <1>2, <1>3 DEF UpsertRaises, TurnRow
  <1>5. CASE CompletesUsage(T, new)
    <2> DEFINE U == (T \ A) \cup {Completed(r, new) : r \in A}
    <2>1. UpsertTurn(T, new) = U
      BY <1>5 DEF UpsertTurn
    <2>2. new.event /\ A # {} /\ \A r \in T : new.rid = NoId \/ r.rid # new.rid
      BY <1>5 DEF CompletesUsage, KnownId
    <2>3. PICK a \in A : A = {a}
      BY <1>3, <2>2
    <2> DEFINE c == Completed(a, new)
    <2>4. U = (T \ {a}) \cup {c}
      BY <2>3
    <2>5. a \in T /\ a.turn = new.turn /\ a.tok = new.tok
      BY DEF Absorbable
    <2>6. /\ c \in TurnRow
          /\ c.sid = a.sid /\ c.turn = a.turn /\ c.tok = a.tok
          /\ c.rid = new.rid /\ c.event = new.event /\ c.req = new.req
      BY <2>5 DEF Completed, TurnRow
    <2>7. CountsFromLog(log, c, n + 1)
      BY <1>1, <2>5, <2>6 DEF StoreInv, CountsFromLog
    <2>8. PayloadFromOwnTurn(log, c, n + 1)
      BY <2>5, <2>6 DEF PayloadFromOwnTurn
    <2>9. \A r, s \in U : r.rid = s.rid /\ r.rid # NoId => r = s
      BY <1>1, <2>2, <2>4, <2>6 DEF StoreInv
    <2>10. StoreInv(log, U, n + 1)
      BY <1>1, <2>2, <2>4, <2>6, <2>7, <2>8, <2>9 DEF StoreInv
    <2> QED
      BY <1>4, <2>1, <2>4, <2>6, <2>10
  <1>6. CASE ~CompletesUsage(T, new) /\ KnownId(T, new.rid)
    <2>1. UpsertTurn(T, new) = {r \in T : r.rid # new.rid} \cup {new}
      BY <1>6 DEF UpsertTurn
    <2> QED
      BY <1>1, <1>4, <2>1 DEF StoreInv
  <1>7. CASE ~CompletesUsage(T, new) /\ ~KnownId(T, new.rid)
    <2>1. UpsertTurn(T, new) = {r \in T : r.sid # new.sid} \cup {new}
      BY <1>7 DEF UpsertTurn
    <2>2. \A r \in T : new.rid = NoId \/ r.rid # new.rid
      BY <1>7 DEF KnownId
    <2> QED
      BY <1>1, <1>4, <2>1, <2>2 DEF StoreInv
  <1> QED
    BY <1>5, <1>6, <1>7

(***************************************************************************)
(* backfill_turn_request_payloads only writes payloads of the row's turn.  *)
(***************************************************************************)
LEMMA BackfillSound ==
    ASSUME log \in Seq(Entries),
           NEW T \in SUBSET TurnRow, NEW n \in 0 .. Len(log), StoreInv(log, T, n),
           NEW Q, \A q \in Q : q \in 1 .. n /\ log[q].kind = "request"
    PROVE  /\ BackfillRequests(T, Q, TurnOf) \in SUBSET TurnRow
           /\ StoreInv(log, BackfillRequests(T, Q, TurnOf), n)
  <1> DEFINE Own(r) == RequestsOf(r.turn, Q, TurnOf)
             F(r) == IF Own(r) = {} THEN r ELSE [r EXCEPT !.req = Max(Own(r))]
             U == {F(r) : r \in T}
  <1>1. BackfillRequests(T, Q, TurnOf) = U
    BY DEF BackfillRequests
  <1>2. n \in Nat
    OBVIOUS
  <1>3. \A r \in T : Own(r) # {} =>
           LET q == Max(Own(r))
           IN  q \in 1 .. n /\ log[q].kind = "request" /\ log[q].turn = r.turn
    <2> SUFFICES ASSUME NEW r \in T, Own(r) # {}
                 PROVE  LET q == Max(Own(r))
                        IN  q \in 1 .. n /\ log[q].kind = "request" /\ log[q].turn = r.turn
      OBVIOUS
    <2>1. Own(r) \in SUBSET (0 .. n)
      BY DEF RequestsOf
    <2>2. Max(Own(r)) \in Own(r)
      <3> HIDE DEF Own
      <3> QED
        BY <1>2, <2>1, MaxOfIds
    <2> QED
      BY <2>2 DEF RequestsOf, TurnOf
  <1> HIDE DEF Own
  <1>4. ASSUME NEW r \in T
        PROVE  /\ F(r) \in TurnRow
               /\ F(r).sid = r.sid /\ F(r).rid = r.rid /\ F(r).turn = r.turn
               /\ F(r).tok = r.tok /\ F(r).event = r.event
               /\ PayloadFromOwnTurn(log, F(r), n)
    <2>1. CASE Own(r) = {}
      BY <2>1 DEF StoreInv
    <2>2. CASE Own(r) # {}
      <3> DEFINE q == Max(Own(r))
      <3>1. q \in 1 .. n /\ log[q].kind = "request" /\ log[q].turn = r.turn
        BY <1>3, <2>2 DEF q
      <3>2. F(r) = [r EXCEPT !.req = q]
        BY <2>2
      <3> HIDE DEF q, F
      <3>3. r \in TurnRow
        OBVIOUS
      <3>4. [r EXCEPT !.req = q] \in TurnRow
        BY <3>1, <3>3 DEF TurnRow
      <3>5. PayloadFromOwnTurn(log, [r EXCEPT !.req = q], n)
        BY <3>1, <3>3 DEF TurnRow, PayloadFromOwnTurn
      <3> QED
        BY <3>2, <3>3, <3>4, <3>5 DEF TurnRow
    <2> QED
      BY <2>1, <2>2
  <1> HIDE DEF F
  <1>5. \A r \in T : CountsFromLog(log, F(r), n)
    BY <1>4 DEF StoreInv, CountsFromLog
  <1>6. \A u \in U : u \in TurnRow /\ CountsFromLog(log, u, n) /\ PayloadFromOwnTurn(log, u, n)
                     /\ (~u.event => u.rid = UsageId(u.turn))
    BY <1>4, <1>5 DEF StoreInv
  <1>7. \A r, s \in T : F(r).rid = F(s).rid /\ F(r).rid # NoId => r = s
    BY <1>4 DEF StoreInv
  <1>8. \A u, v \in U : u.rid = v.rid /\ u.rid # NoId => u = v
    BY <1>7
  <1> QED
    BY <1>1, <1>6, <1>8 DEF StoreInv

-----------------------------------------------------------------------------
(* The inductive invariant.                                                *)

LEMMA InitEstablishesIInv == Init => IInv
  <1> SUFFICES ASSUME Init PROVE IInv
    OBVIOUS
  <1>1. EmptyStore \in Store /\ StoreInv(log, {}, 0)
    BY DEF EmptyStore, Store, StoreInv
  <1> QED
    BY <1>1, ParsersAssumption DEF Init, IInv, TypeOK, EmptyStore

(***************************************************************************)
(* Codex appending a row changes no row an import has seen.                *)
(***************************************************************************)
LEMMA CodexWritesKeepsIInv == IInv /\ CodexWrites => IInv'
  <1> SUFFICES ASSUME IInv, CodexWrites PROVE IInv'
    OBVIOUS
  <1> USE DEF IInv, TypeOK
  <1>1. PICK e \in Entries : log' = Append(log, e)
    BY DEF CodexWrites
  <1>2. /\ log' \in Seq(Entries)
        /\ Len(log') = Len(log) + 1
        /\ \A i \in 1 .. Len(log) : log'[i] = log[i]
    BY <1>1
  <1>3. UNCHANGED <<parser, db, cutoff, importVars, aborts>>
    BY DEF CodexWrites
  <1>4. ASSUME NEW T \in SUBSET TurnRow, NEW n \in 0 .. Len(log), StoreInv(log, T, n)
        PROVE  StoreInv(log', T, n)
    <2>1. ASSUME NEW r \in T PROVE CountsFromLog(log', r, n)
      <3>1. CountsFromLog(log, r, n)
        BY <1>4 DEF StoreInv
      <3>2. log'[r.sid] = log[r.sid]
        BY <1>2, <3>1 DEF CountsFromLog
      <3> QED
        BY <3>1, <3>2 DEF CountsFromLog
    <2>2. ASSUME NEW r \in T PROVE PayloadFromOwnTurn(log', r, n)
      <3>1. PayloadFromOwnTurn(log, r, n)
        BY <1>4 DEF StoreInv
      <3>2. r.req \in 1 .. n => log'[r.req] = log[r.req]
        BY <1>2
      <3> QED
        BY <3>1, <3>2 DEF PayloadFromOwnTurn
    <2> QED
      BY <1>4, <2>1, <2>2 DEF StoreInv
  <1>5. /\ db' = db /\ tx' = tx /\ scanned' = scanned /\ pc' = pc /\ limit' = limit
        /\ requests' = requests
    BY <1>3 DEF importVars
  <1>6. /\ db.turns \in SUBSET TurnRow /\ tx.turns \in SUBSET TurnRow
        /\ db.cursor \in Nat /\ tx.cursor \in Nat
    BY DEF Store
  <1>7. StoreInv(log, db.turns, db.cursor)'
    BY <1>4, <1>5, <1>6
  <1>8. (pc \in {"archive", "repair"} => StoreInv(log, tx.turns, tx.cursor))'
    BY <1>4, <1>5, <1>6
  <1>9. (pc = "scan" => StoreInv(log, tx.turns, scanned))'
    BY <1>4, <1>5, <1>6
  <1>10. (\A q \in requests : pc = "scan" => q \in 1 .. scanned /\ log[q].kind = "request")'
    BY <1>2, <1>5
  <1> QED
    BY <1>2, <1>3, <1>5, <1>6, <1>7, <1>8, <1>9, <1>10

LEMMA StartImportKeepsIInv == IInv /\ StartImport => IInv'
  <1> SUFFICES ASSUME IInv, StartImport PROVE IInv'
    OBVIOUS
  <1> USE DEF IInv, TypeOK
  <1>1. PICK c \in cutoff .. MaxCutoff :
          cutoff' = c /\ db' = [db EXCEPT !.bodies = {i \in @ : i >= c}]
    BY DEF StartImport
  <1>2. /\ db' \in Store /\ db'.turns = db.turns /\ db'.cursor = db.cursor
        /\ cutoff' \in Nat
    BY <1>1, BoundsAssumption DEF Store
  <1>3. tx' = db' /\ pc' = "archive" /\ UNCHANGED <<log, parser, scanned, limit, requests, aborts>>
    BY DEF StartImport
  <1>4. StoreInv(log, db.turns, db.cursor)' /\ StoreInv(log, tx.turns, tx.cursor)'
    BY <1>2, <1>3
  <1> QED
    BY <1>2, <1>3, <1>4

LEMMA ArchiveKeepsIInv == IInv /\ ArchiveRawLogs => IInv'
  <1> SUFFICES ASSUME IInv, ArchiveRawLogs PROVE IInv'
    OBVIOUS
  <1> USE DEF IInv, TypeOK
  <1>1. tx' \in Store /\ tx'.turns = tx.turns /\ tx'.cursor = tx.cursor
    <2> DEFINE B == tx.bodies \cup {i \in tx.archived + 1 .. Len(log) : i >= cutoff}
    <2>1. B \in SUBSET Nat
      BY DEF Store
    <2>2. \/ tx' = [tx EXCEPT !.archived = Len(log)]
          \/ tx' = [tx EXCEPT !.archived = Len(log), !.bodies = B]
      BY DEF ArchiveRawLogs
    <2>3. tx.archived \in Nat /\ Len(log) \in Nat
      BY DEF Store
    <2> HIDE DEF B
    <2>4. CASE tx' = [tx EXCEPT !.archived = Len(log)]
      BY <2>3, <2>4 DEF Store
    <2>5. CASE tx' = [tx EXCEPT !.archived = Len(log), !.bodies = B]
      BY <2>1, <2>3, <2>5 DEF Store
    <2> QED
      BY <2>2, <2>4, <2>5
  <1>2. pc = "archive" /\ pc' = "repair"
        /\ UNCHANGED <<log, parser, db, cutoff, scanned, limit, requests, aborts>>
    BY DEF ArchiveRawLogs
  <1>3. StoreInv(log, tx.turns, tx.cursor)' /\ StoreInv(log, db.turns, db.cursor)'
    BY <1>1, <1>2
  <1> QED
    BY <1>1, <1>2, <1>3

(***************************************************************************)
(* A store that was never scanned holds no row, so the scan always starts  *)
(* at the cursor.                                                          *)
(***************************************************************************)
LEMMA ScanStartsAtCursor ==
    ASSUME tx \in Store, StoreInv(log, tx.turns, tx.cursor)
    PROVE  ScanStart = tx.cursor
  <1>1. CASE tx.cursor = 0
    <2>1. tx.turns = {}
      BY <1>1 DEF StoreInv, CountsFromLog
    <2>2. {0} \cup {r.sid : r \in tx.turns} = {0}
      BY <2>1
    <2>3. Max({0}) \in {0}
      BY MaxOfIds
    <2> QED
      BY <1>1, <2>2, <2>3 DEF ScanStart
  <1> QED
    BY <1>1 DEF ScanStart

LEMMA RepairKeepsIInv == IInv /\ RepairAndOpenScan => IInv'
  <1> SUFFICES ASSUME IInv, RepairAndOpenScan PROVE IInv'
    OBVIOUS
  <1> USE DEF IInv, TypeOK
  <1> DEFINE U == {r \in tx.turns : r.rid \notin InvalidIds}
  <1>1. pc = "repair" /\ pc' = "scan" /\ scanned' = ScanStart /\ limit' = Len(log)
        /\ requests' = {} /\ UNCHANGED <<log, parser, db, cutoff, aborts>>
    BY DEF RepairAndOpenScan
  <1>2. tx' = [tx EXCEPT !.turns = U]
    BY DEF RepairAndOpenScan
  <1>3. U \in SUBSET tx.turns
    OBVIOUS
  <1> HIDE DEF U
  <1>4. tx' \in Store /\ tx'.turns = U /\ tx'.cursor = tx.cursor
    BY <1>2, <1>3 DEF Store
  <1>5. scanned' = tx.cursor
    BY <1>1, ScanStartsAtCursor
  <1>6. tx.cursor \in Nat /\ tx.turns \in SUBSET TurnRow
    BY DEF Store
  <1>7. StoreInv(log, U, tx.cursor)
    BY <1>1, <1>3, <1>6, StoreInvWeaken
  <1>8. StoreInv(log, tx.turns, scanned)' /\ StoreInv(log, db.turns, db.cursor)'
    BY <1>1, <1>4, <1>5, <1>7
  <1> QED
    BY <1>1, <1>4, <1>5, <1>6, <1>8

LEMMA ScanRequestKeepsIInv == IInv /\ ScanRequest => IInv'
  <1> SUFFICES ASSUME IInv, ScanRequest PROVE IInv'
    OBVIOUS
  <1> USE DEF IInv, TypeOK
  <1>1. PICK i \in 1 .. limit : Scanning(i) /\ log[i].kind = "request"
                                /\ requests' = requests \cup {i} /\ UNCHANGED tx
    BY DEF ScanRequest
  <1>2. pc = "scan" /\ i = scanned + 1 /\ scanned < limit /\ scanned' = i
        /\ UNCHANGED <<log, parser, db, cutoff, pc, limit, aborts>>
    BY <1>1 DEF Scanning
  <1>3. tx.turns \in SUBSET TurnRow /\ tx.cursor \in Nat
    BY DEF Store
  <1>4. StoreInv(log, tx.turns, i)
    BY <1>2, <1>3, StoreInvWeaken
  <1>5. StoreInv(log, tx.turns, scanned)' /\ StoreInv(log, db.turns, db.cursor)'
    BY <1>1, <1>2, <1>4
  <1> QED
    BY <1>1, <1>2, <1>3, <1>5

LEMMA ScanUsageKeepsIInv == IInv /\ ScanUsage => IInv'
  <1> SUFFICES ASSUME IInv, ScanUsage PROVE IInv'
    OBVIOUS
  <1> USE DEF IInv, TypeOK
  <1>1. PICK i \in 1 .. limit :
          /\ Scanning(i) /\ Parses(log[i])
          /\ tx' = [tx EXCEPT !.turns = UpsertTurn(@, ParsedRow(i, log[i]))]
          /\ UNCHANGED requests
    BY DEF ScanUsage
  <1>2. pc = "scan" /\ i = scanned + 1 /\ scanned < limit /\ scanned' = i
        /\ UNCHANGED <<log, parser, db, cutoff, pc, limit, aborts>>
    BY <1>1 DEF Scanning
  <1> DEFINE new == ParsedRow(i, log[i])
             U == UpsertTurn(tx.turns, new)
  <1>3. i \in 1 .. Len(log)
    BY <1>2
  <1>4. new \in TurnRow /\ new.sid = i /\ CountsFromLog(log, new, i) /\ PayloadFromOwnTurn(log, new, i)
        /\ (~new.event => new.rid = UsageId(new.turn))
    BY <1>1, <1>3, ParsedRowSound
  <1>5. tx' = [tx EXCEPT !.turns = U]
    BY <1>1
  <1>6. tx.turns \in SUBSET TurnRow /\ tx.cursor \in Nat
    BY DEF Store
  <1> HIDE DEF new
  <1>7. U \in SUBSET TurnRow /\ StoreInv(log, U, i)
    BY <1>2, <1>4, <1>6, UpsertSound
  <1> HIDE DEF U
  <1>8. tx' \in Store /\ tx'.turns = U /\ tx'.cursor = tx.cursor
    BY <1>5, <1>7 DEF Store
  <1>9. StoreInv(log, tx.turns, scanned)' /\ StoreInv(log, db.turns, db.cursor)'
    BY <1>2, <1>7, <1>8
  <1> QED
    BY <1>1, <1>2, <1>6, <1>8, <1>9

LEMMA ScanSkippedKeepsIInv == IInv /\ ScanSkipped => IInv'
  <1> SUFFICES ASSUME IInv, ScanSkipped PROVE IInv'
    OBVIOUS
  <1> USE DEF IInv, TypeOK
  <1>1. PICK i \in 1 .. limit : Scanning(i) /\ UNCHANGED <<tx, requests>>
    BY DEF ScanSkipped
  <1>2. pc = "scan" /\ i = scanned + 1 /\ scanned < limit /\ scanned' = i
        /\ UNCHANGED <<log, parser, db, cutoff, pc, limit, aborts>>
    BY <1>1 DEF Scanning
  <1>3. tx.turns \in SUBSET TurnRow /\ tx.cursor \in Nat
    BY DEF Store
  <1>4. StoreInv(log, tx.turns, i)
    BY <1>2, <1>3, StoreInvWeaken
  <1>5. StoreInv(log, tx.turns, scanned)' /\ StoreInv(log, db.turns, db.cursor)'
    BY <1>1, <1>2, <1>4
  <1> QED
    BY <1>1, <1>2, <1>3, <1>5

LEMMA CommitKeepsIInv == IInv /\ Commit => IInv'
  <1> SUFFICES ASSUME IInv, Commit PROVE IInv'
    OBVIOUS
  <1> USE DEF IInv, TypeOK
  <1> DEFINE U == BackfillRequests(tx.turns, requests, TurnOf)
  <1>1. pc = "scan" /\ db' = [tx EXCEPT !.turns = U, !.cursor = FinalCursor]
    BY DEF Commit
  <1>2. tx' = db' /\ UNCHANGED <<log, parser, cutoff, aborts>>
        /\ pc' = "idle" /\ scanned' = 0 /\ limit' = 0 /\ requests' = {}
    BY DEF Commit, Return
  <1>3. tx.turns \in SUBSET TurnRow /\ tx.cursor \in Nat
    BY DEF Store
  <1>4. FinalCursor = scanned
    BY <1>1, <1>3 DEF FinalCursor
  <1>5. U \in SUBSET TurnRow /\ StoreInv(log, U, scanned)
    <2>1. scanned \in 0 .. Len(log) /\ StoreInv(log, tx.turns, scanned)
          /\ \A q \in requests : q \in 1 .. scanned /\ log[q].kind = "request"
      BY <1>1
    <2> QED
      BY <1>3, <2>1, BackfillSound
  <1> HIDE DEF U
  <1>6. db' \in Store /\ db'.turns = U /\ db'.cursor = scanned
    BY <1>1, <1>4, <1>5 DEF Store
  <1>7. StoreInv(log, db.turns, db.cursor)'
    BY <1>2, <1>5, <1>6
  <1> QED
    BY <1>1, <1>2, <1>6, <1>7

LEMMA OtherStepsKeepIInv == IInv /\ (Upgrade \/ AbortImport \/ UNCHANGED vars) => IInv'
  <1> SUFFICES ASSUME IInv, Upgrade \/ AbortImport \/ UNCHANGED vars PROVE IInv'
    OBVIOUS
  <1> USE DEF IInv, TypeOK
  <1>1. CASE Upgrade
    BY <1>1 DEF Upgrade, importVars
  <1>2. CASE AbortImport
    BY <1>2 DEF AbortImport, Return
  <1>3. CASE UNCHANGED vars
    BY <1>3 DEF vars
  <1> QED
    BY <1>1, <1>2, <1>3

LEMMA IInvInductive == IInv /\ [Next]_vars => IInv'
  BY CodexWritesKeepsIInv, StartImportKeepsIInv, ArchiveKeepsIInv, RepairKeepsIInv,
     ScanRequestKeepsIInv, ScanUsageKeepsIInv, ScanSkippedKeepsIInv, CommitKeepsIInv,
     OtherStepsKeepIInv
  DEF Next, ImportStep

(***************************************************************************)
(* The tables stay well-formed and faithful to the log in every reachable  *)
(* state, whatever Codex writes and whichever imports fail.                *)
(***************************************************************************)
THEOREM Invariance == Spec => []IInv
  BY InitEstablishesIInv, IInvInductive, PTL DEF Spec

(***************************************************************************)
(* Type correctness of the import.                                         *)
(***************************************************************************)
THEOREM TypeCorrect == Spec => []TypeOK
  <1>1. IInv => TypeOK
    BY DEF IInv
  <1> QED
    BY <1>1, Invariance, PTL

(***************************************************************************)
(* No stored row counts for, or carries a payload of, another turn.        *)
(***************************************************************************)
THEOREM TurnsComeFromLog == Spec => []RowsFromLog
  <1>1. IInv => RowsFromLog
    BY DEF IInv, StoreInv, RowsFromLog
  <1> QED
    BY <1>1, Invariance, PTL

(***************************************************************************)
(* No import is rolled back by a row it upserts.                           *)
(***************************************************************************)
THEOREM NoPoisonRow == Spec => []UpsertNeverRaises
  <1>1. IInv => UpsertNeverRaises
    <2> SUFFICES ASSUME IInv, NEW i \in scanned + 1 .. limit,
                        pc = "scan", i = scanned + 1, Parses(log[i])
                 PROVE  ~UpsertRaises(tx.turns, ParsedRow(i, log[i]))
      BY DEF UpsertNeverRaises
    <2> DEFINE new == ParsedRow(i, log[i])
    <2>1. i \in 1 .. Len(log) /\ log \in Seq(Entries) /\ scanned \in Nat
          /\ tx.turns \in SUBSET TurnRow /\ StoreInv(log, tx.turns, scanned)
      BY DEF IInv, TypeOK, Store
    <2>2. new \in TurnRow /\ new.sid = i /\ CountsFromLog(log, new, i) /\ PayloadFromOwnTurn(log, new, i)
          /\ (~new.event => new.rid = UsageId(new.turn))
      BY <2>1, ParsedRowSound
    <2> HIDE DEF new
    <2> QED
      BY <2>1, <2>2, UpsertSound DEF new
  <1> QED
    BY <1>1, Invariance, PTL

-----------------------------------------------------------------------------
(* What the open scan has done.                                            *)

(***************************************************************************)
(* The open scan has kept every request behind the old cursor, and left no *)
(* synthetic row behind whose archived body the parser rejects.            *)
(***************************************************************************)
ScanInv ==
    pc = "scan" =>
      /\ \A q \in tx.cursor + 1 .. scanned : log[q].kind = "request" => q \in requests
      /\ Reparses(tx)

(***************************************************************************)
(* upsert_turn leaves every synthetic row parsing: an id of an event is    *)
(* not synthetic, and a usage row keeps its source row when it is          *)
(* completed.                                                              *)
(***************************************************************************)
LEMMA UpsertReparses ==
    ASSUME log \in Seq(Entries), NEW T \in SUBSET TurnRow, NEW n \in Nat, StoreInv(log, T, n),
           NEW B, \A r \in T : Synthetic(r.rid) /\ r.sid \in B => ParsesAsUsage(log[r.sid]),
           n + 1 \in 1 .. Len(log), Parses(log[n + 1])
    PROVE  \A r \in UpsertTurn(T, ParsedRow(n + 1, log[n + 1])) :
              Synthetic(r.rid) /\ r.sid \in B => ParsesAsUsage(log[r.sid])
  <1> DEFINE e == log[n + 1]
             new == ParsedRow(n + 1, e)
             A == Absorbable(T, new)
  <1>1. e \in Entry
    BY EntriesAssumption
  <1>2. Synthetic(new.rid) => ParsesAsUsage(e)
    <2>1. CASE e.kind = "event"
      <3>1. new.rid = e.resp
        BY <2>1 DEF ParsedRow, ParsedId
      <3>2. e.resp = NoId \/ \E x \in Responses : e.resp = ResponseId(x)
        BY <1>1 DEF Entry
      <3>3. e.resp.kind \in {"null", "response"}
        <4>1. NoId.kind = "null" /\ \A x : ResponseId(x).kind = "response"
          BY DEF NoId, ResponseId
        <4> HIDE DEF e
        <4> QED
          BY <3>2, <4>1
      <3> QED
        BY <3>1, <3>3 DEF Synthetic
    <2>2. CASE e.kind # "event"
      BY <2>2 DEF Parses
    <2> QED
      BY <2>1, <2>2
  <1>3. new.sid = n + 1
    BY DEF ParsedRow
  <1> HIDE DEF new
  <1>4. \A a \in A : a \in T /\ Synthetic(a.rid)
    <2> SUFFICES ASSUME NEW a \in A
                 PROVE  a \in T /\ Synthetic(a.rid)
      OBVIOUS
    <2>1. a \in T /\ ~a.event
      BY DEF Absorbable
    <2>2. a.rid = UsageId(a.turn)
      BY <2>1 DEF StoreInv
    <2>3. UsageId(a.turn).kind = "usage"
      BY DEF UsageId
    <2> QED
      BY <2>1, <2>2, <2>3 DEF Synthetic
  <1>5. \A a \in A : Completed(a, new).sid = a.sid
    BY DEF Completed, TurnRow, Absorbable
  <1>6. \A r \in UpsertTurn(T, new) :
          \/ r \in T
          \/ r = new
          \/ \E a \in A : r = Completed(a, new)
    BY DEF UpsertTurn
  <1> SUFFICES ASSUME NEW r \in UpsertTurn(T, new), Synthetic(r.rid), r.sid \in B
               PROVE  ParsesAsUsage(log[r.sid])
    BY DEF new
  <1> HIDE DEF A
  <1>7. CASE \E a \in A : r = Completed(a, new)
    BY <1>4, <1>5, <1>7
  <1> QED
    BY <1>2, <1>3, <1>6, <1>7

\* The request payload a row has after the back-fill
Payload(r, Q, turnOf) ==
    IF RequestsOf(r.turn, Q, turnOf) = {} THEN r.req ELSE Max(RequestsOf(r.turn, Q, turnOf))

(***************************************************************************)
(* The payload column is all that the back-fill writes.                    *)
(***************************************************************************)
LEMMA BackfillKeepsIds ==
    ASSUME NEW T, T \in SUBSET TurnRow, NEW Q, NEW f,
           NEW b, b \in BackfillRequests(T, Q, f)
    PROVE  \E r \in T : /\ b.sid = r.sid /\ b.rid = r.rid /\ b.turn = r.turn
                        /\ b.tok = r.tok /\ b.event = r.event
                        /\ b.req = Payload(r, Q, f)
  <1>1. PICK r \in T : b = IF RequestsOf(r.turn, Q, f) = {} THEN r
                          ELSE [r EXCEPT !.req = Max(RequestsOf(r.turn, Q, f))]
    BY DEF BackfillRequests
  <1> QED
    BY <1>1 DEF TurnRow, Payload

LEMMA ScanInvInductive == IInv /\ ScanInv /\ [Next]_vars => ScanInv'
  <1> SUFFICES ASSUME IInv, ScanInv, [Next]_vars PROVE ScanInv'
    OBVIOUS
  <1> USE DEF IInv, TypeOK
  <1>1. CASE CodexWrites
    <2>1. PICK e \in Entries : log' = Append(log, e)
      BY <1>1 DEF CodexWrites
    <2>2. \A i \in 1 .. Len(log) : log'[i] = log[i]
      BY <2>1
    <2>3. UNCHANGED <<parser, tx, pc, scanned, limit, requests>>
      BY <1>1 DEF CodexWrites, importVars
    <2>4. ASSUME pc = "scan"
          PROVE  \A q \in tx.cursor + 1 .. scanned : log'[q].kind = "request" => q \in requests
      BY <2>2, <2>4 DEF ScanInv, Store
    <2>5. ASSUME pc = "scan"
          PROVE  Reparses(tx)'
      <3>1. \A r \in tx.turns : r.sid \in 1 .. Len(log)
        BY <2>5 DEF StoreInv, CountsFromLog
      <3> QED
        BY <2>2, <2>3, <2>5, <3>1 DEF ScanInv, Reparses, ParsesAsUsage
    <2> QED
      BY <2>3, <2>4, <2>5 DEF ScanInv
  <1>2. CASE RepairAndOpenScan
    <2> DEFINE U == {r \in tx.turns : r.rid \notin InvalidIds}
    <2>1. /\ tx' = [tx EXCEPT !.turns = U] /\ scanned' = ScanStart /\ pc = "repair"
          /\ UNCHANGED <<log, parser>>
      BY <1>2 DEF RepairAndOpenScan
    <2>2. tx'.cursor = tx.cursor /\ tx'.turns = U /\ tx'.bodies = tx.bodies
      BY <2>1 DEF Store
    <2>3. scanned' = tx.cursor /\ tx.cursor \in Nat
      BY <2>1, ScanStartsAtCursor DEF Store
    <2>4. Reparses(tx)'
      BY <2>1, <2>2 DEF Reparses, InvalidIds, RepairCandidates, ParsesAsUsage
    <2> QED
      BY <2>2, <2>3, <2>4 DEF ScanInv
  <1>3. CASE ScanRequest
    <2>1. PICK i \in 1 .. limit : Scanning(i) /\ requests' = requests \cup {i} /\ UNCHANGED tx
      BY <1>3 DEF ScanRequest
    <2> QED
      BY <2>1 DEF Scanning, ScanInv, Reparses, ParsesAsUsage, Store
  <1>4. CASE ScanUsage
    <2>1. PICK i \in 1 .. limit :
            /\ Scanning(i) /\ Parses(log[i])
            /\ tx' = [tx EXCEPT !.turns = UpsertTurn(@, ParsedRow(i, log[i]))]
            /\ UNCHANGED requests
      BY <1>4 DEF ScanUsage
    <2>2. /\ pc = "scan" /\ i = scanned + 1 /\ scanned' = i /\ i \in 1 .. Len(log)
          /\ UNCHANGED <<log, parser>>
      BY <2>1 DEF Scanning
    <2>3. /\ tx'.turns = UpsertTurn(tx.turns, ParsedRow(i, log[i]))
          /\ tx'.bodies = tx.bodies /\ tx'.cursor = tx.cursor /\ tx.cursor \in Nat
          /\ tx.turns \in SUBSET TurnRow
      BY <2>1 DEF Store
    <2>4. \A r \in UpsertTurn(tx.turns, ParsedRow(i, log[i])) :
             Synthetic(r.rid) /\ r.sid \in tx.bodies => ParsesAsUsage(log[r.sid])
      BY <2>1, <2>2, <2>3, UpsertReparses DEF ScanInv, Reparses
    <2>5. Reparses(tx)'
      BY <2>2, <2>3, <2>4 DEF Reparses, ParsesAsUsage
    <2>6. log[i].kind # "request"
      BY <2>1 DEF Parses, ParsesAsUsage
    <2>7. \A q \in tx.cursor + 1 .. i : log[q].kind = "request" => q \in requests
      BY <2>2, <2>3, <2>6 DEF ScanInv
    <2> QED
      BY <2>1, <2>2, <2>3, <2>5, <2>7 DEF ScanInv
  <1>5. CASE ScanSkipped
    <2>1. PICK i \in 1 .. limit :
            Scanning(i) /\ log[i].kind # "request" /\ UNCHANGED <<tx, requests>>
      BY <1>5 DEF ScanSkipped
    <2> QED
      BY <2>1 DEF Scanning, ScanInv, Reparses, ParsesAsUsage, Store
  <1>6. CASE StartImport \/ ArchiveRawLogs \/ Commit \/ AbortImport \/ Upgrade
    BY <1>6 DEF StartImport, ArchiveRawLogs, Commit, AbortImport, Upgrade, Return, ScanInv,
                importVars
  <1>7. CASE UNCHANGED vars
    BY <1>7 DEF vars, ScanInv, Reparses, ParsesAsUsage
  <1> QED
    BY <1>1, <1>2, <1>3, <1>4, <1>5, <1>6, <1>7 DEF Next, ImportStep

LEMMA ScanInvariance == Spec => []ScanInv
  <1>1. Init => ScanInv
    BY DEF Init, ScanInv
  <1> QED
    BY <1>1, ScanInvInductive, Invariance, PTL DEF Spec

(***************************************************************************)
(* What a commit makes of the open transaction.                            *)
(***************************************************************************)
LEMMA Committed ==
    ASSUME IInv, Commit
    PROVE  /\ db'.turns = BackfillRequests(tx.turns, requests, TurnOf)
           /\ db'.cursor = scanned /\ db'.bodies = tx.bodies
           /\ tx.turns \in SUBSET TurnRow /\ tx.cursor = db.cursor /\ tx.cursor \in Nat
           /\ scanned \in 0 .. Len(log) /\ pc = "scan" /\ scanned = limit
  <1> USE DEF IInv, TypeOK
  <1> DEFINE U == BackfillRequests(tx.turns, requests, TurnOf)
  <1>1. pc = "scan" /\ scanned = limit /\ db' = [tx EXCEPT !.turns = U, !.cursor = FinalCursor]
    BY DEF Commit
  <1>2. tx.turns \in SUBSET TurnRow /\ tx.cursor \in Nat /\ tx.cursor = db.cursor
    BY <1>1 DEF Store
  <1>3. FinalCursor = scanned /\ scanned \in 0 .. Len(log)
    BY <1>1, <1>2 DEF FinalCursor
  <1> HIDE DEF U
  <1>4. db'.turns = U /\ db'.cursor = scanned /\ db'.bodies = tx.bodies
    BY <1>1, <1>3 DEF Store
  <1> QED
    BY <1>1, <1>2, <1>3, <1>4 DEF U

\* The steps that do not commit leave the turns and the cursor alone.
LEMMA CommitsAlone ==
    ASSUME IInv, [Next]_vars, ~Commit
    PROVE  db'.turns = db.turns /\ db'.cursor = db.cursor
  <1>1. CASE StartImport
    BY <1>1 DEF StartImport, IInv, TypeOK, Store
  <1>2. CASE CodexWrites \/ Upgrade \/ ArchiveRawLogs \/ RepairAndOpenScan \/ AbortImport
    BY <1>2 DEF CodexWrites, Upgrade, ArchiveRawLogs, RepairAndOpenScan, AbortImport
  <1>3. CASE ScanRequest \/ ScanUsage \/ ScanSkipped
    BY <1>3 DEF ScanRequest, ScanUsage, ScanSkipped, Scanning
  <1>4. CASE UNCHANGED vars
    BY <1>4 DEF vars
  <1> QED
    BY <1>1, <1>2, <1>3, <1>4 DEF Next, ImportStep

(***************************************************************************)
(* When an import commits, a request it scanned is on every row of its     *)
(* turn, unless a later request of the turn is                             *)
(* (backfill_turn_request_payloads).                                       *)
(***************************************************************************)
THEOREM RequestsReachRows == Spec => RequestsAttached
  <1> DEFINE A == \A q \in db.cursor + 1 .. db'.cursor :
                     log[q].kind = "request" =>
                       \A r \in db'.turns : r.turn = log[q].turn => r.req >= q
  <1>1. IInv /\ ScanInv /\ [Next]_vars => A
    <2> SUFFICES ASSUME IInv, ScanInv, [Next]_vars,
                        NEW q \in db.cursor + 1 .. db'.cursor, log[q].kind = "request",
                        NEW b \in db'.turns, b.turn = log[q].turn
                 PROVE  b.req >= q
      OBVIOUS
    <2>1. db.cursor \in Nat
      BY DEF IInv, TypeOK, Store
    <2>2. Commit
      BY <2>1, CommitsAlone
    <2>3. /\ b \in BackfillRequests(tx.turns, requests, TurnOf)
          /\ tx.turns \in SUBSET TurnRow /\ tx.cursor = db.cursor
          /\ scanned \in 0 .. Len(log) /\ pc = "scan" /\ q \in tx.cursor + 1 .. scanned
      BY <2>2, Committed
    <2>4. PICK r \in tx.turns :
             /\ b.turn = r.turn
             /\ b.req = Payload(r, requests, TurnOf)
      BY <2>3, BackfillKeepsIds
    <2> DEFINE Own == RequestsOf(r.turn, requests, TurnOf)
    <2>5. q \in Own
      <3>1. q \in requests
        BY <2>3 DEF ScanInv
      <3>2. TurnOf[q] = log[q].turn
        BY <2>1, <2>3 DEF TurnOf
      <3> QED
        BY <3>1, <3>2, <2>4 DEF RequestsOf
    <2>6. Own \in SUBSET (0 .. scanned) /\ scanned \in Nat
      BY <2>3 DEF RequestsOf, IInv
    <2> HIDE DEF Own
    <2>7. Max(Own) \in Own /\ Max(Own) >= q
      BY <2>5, <2>6, MaxOfIds
    <2> QED
      BY <2>4, <2>5, <2>7 DEF Own, Payload
  <1> QED
    BY <1>1, Invariance, ScanInvariance, PTL DEF Spec, RequestsAttached

(***************************************************************************)
(* When an import commits, each synthetic row with an archived body        *)
(* reparses (repair_codex_usage_rows).                                     *)
(***************************************************************************)
THEOREM RowsAreRepaired == Spec => ArchivedRowsRepaired
  <1> DEFINE A == pc = "scan" /\ pc' = "idle" /\ db' # db => Reparses(db')
  <1>1. IInv /\ ScanInv /\ [Next]_vars => A
    <2> SUFFICES ASSUME IInv, ScanInv, [Next]_vars, pc = "scan", pc' = "idle", db' # db
                 PROVE  Reparses(db')
      OBVIOUS
    <2>1. Commit
      BY DEF Next, ImportStep, CodexWrites, Upgrade, StartImport, ArchiveRawLogs,
             RepairAndOpenScan, ScanRequest, ScanUsage, ScanSkipped, Scanning, AbortImport, vars
    <2>2. /\ db'.turns = BackfillRequests(tx.turns, requests, TurnOf) /\ db'.bodies = tx.bodies
          /\ tx.turns \in SUBSET TurnRow
      BY <2>1, Committed
    <2> SUFFICES ASSUME NEW b \in db'.turns, Synthetic(b.rid), b.sid \in db'.bodies
                 PROVE  ParsesAsUsage(log[b.sid])
      BY DEF Reparses
    <2>3. PICK r \in tx.turns : b.sid = r.sid /\ b.rid = r.rid
      BY <2>2, BackfillKeepsIds
    <2> QED
      BY <2>2, <2>3 DEF ScanInv, Reparses
  <1> QED
    BY <1>1, Invariance, ScanInvariance, PTL DEF Spec, ArchivedRowsRepaired

-----------------------------------------------------------------------------
(* The ledger.                                                             *)

\* Logs without quoted telemetry, the logs UsageLedger speaks of
NoQuotes == \A e \in Entries : e.kind # "quoted"

(***************************************************************************)
(* The rows of `turns` and the log rows UsageLedger accounts for, n being  *)
(* the last row scanned: a row with an event stands for the last report of *)
(* its id, a row without one for the usage row still open; nameless        *)
(* reports are as many as their rows, counted by their source rows.        *)
(***************************************************************************)
NamedRows(l, T, n) ==
    /\ \A r \in T : r.event /\ r.rid # NoId =>
          \E i \in Ledger!LastOfId(l, Ledger!Named(l, n)) :
             ParsedId(l[i]) = r.rid /\ l[i].turn = r.turn /\ l[i].tok = r.tok
    /\ \A i \in Ledger!Named(l, n) : \E r \in T : r.event /\ r.rid = ParsedId(l[i])

OpenRows(l, T, n) ==
    /\ \A r \in T : ~r.event => r.sid \in Ledger!OpenUsage(l, n)
    /\ \A i \in Ledger!OpenUsage(l, n) : \E r \in T : ~r.event /\ r.sid = i

SidsOf(T, t, k) == {r.sid : r \in {s \in T : s.rid = NoId /\ s.turn = t /\ s.tok = k}}

NamelessOf(l, n, t, k) == {j \in Ledger!Nameless(l, n) : l[j].turn = t /\ l[j].tok = k}

NamelessRows(l, T, n) ==
    \A t \in Turns, k \in TokenCounts :
       Cardinality(SidsOf(T, t, k)) = Cardinality(NamelessOf(l, n, t, k))

Books(l, T, n) ==
    /\ \A r, s \in T : r.sid = s.sid => r = s
    /\ \A r \in T : Synthetic(r.rid) => l[r.sid].kind \in {"usage", "estimate"}
    /\ NamedRows(l, T, n)
    /\ OpenRows(l, T, n)
    /\ NamelessRows(l, T, n)

BooksInv ==
    /\ Books(log, db.turns, db.cursor)
    /\ pc \in {"archive", "repair"} => Books(log, tx.turns, tx.cursor)
    /\ pc = "scan" => Books(log, tx.turns, scanned)

-----------------------------------------------------------------------------
(* The sets of log rows UsageLedger is made of.                            *)

IsReport(e) == e.kind \in {"event", "estimate"}

LEMMA IdFacts ==
    ASSUME NEW e \in Entry
    PROVE  /\ e.kind = "usage" => ParsedId(e) = UsageId(e.turn)
           /\ IsReport(e) => \A t : ParsedId(e) # UsageId(t)
           /\ \A t : UsageId(t) # NoId /\ Synthetic(UsageId(t))
           /\ \A t, u : UsageId(t) = UsageId(u) => t = u
  <1>1. /\ \A t : UsageId(t).kind = "usage" /\ UsageId(t).of = t /\ EstimateId(t).kind = "estimate"
        /\ NoId.kind = "null" /\ \A x : ResponseId(x).kind = "response"
    BY DEF UsageId, EstimateId, NoId, ResponseId
  <1>2. e.resp = NoId \/ \E x \in Responses : e.resp = ResponseId(x)
    BY DEF Entry
  <1>3. e.kind = "usage" => ParsedId(e) = UsageId(e.turn)
    BY DEF ParsedId
  <1>4. e.kind = "event" => ParsedId(e) = e.resp
    BY DEF ParsedId
  <1>5. e.kind = "estimate" => ParsedId(e) = EstimateId(e.turn)
    BY DEF ParsedId
  <1>6. IsReport(e) => ParsedId(e).kind # "usage"
    <2>1. e.resp.kind # "usage" /\ EstimateId(e.turn).kind # "usage"
      BY <1>1, <1>2
    <2> QED
      BY <2>1, <1>4, <1>5 DEF IsReport
  <1>7. IsReport(e) => \A t : ParsedId(e) # UsageId(t)
    BY <1>1, <1>6
  <1>8. \A t : UsageId(t) # NoId
    BY <1>1
  <1>9. \A t : Synthetic(UsageId(t))
    BY <1>1 DEF Synthetic
  <1>10. \A t, u : UsageId(t) = UsageId(u) => t = u
    BY <1>1
  <1> QED
    BY <1>3, <1>7, <1>8, <1>9, <1>10

LEMMA ReportSets ==
    ASSUME NEW l, NEW n \in Nat
    PROVE  /\ Ledger!Reports(l, n) = {i \in 1 .. n : IsReport(l[i])}
           /\ Ledger!Named(l, n) = {i \in 1 .. n : IsReport(l[i]) /\ ParsedId(l[i]) # NoId}
           /\ Ledger!Nameless(l, n) = {i \in 1 .. n : IsReport(l[i]) /\ ParsedId(l[i]) = NoId}
  BY DEF Ledger!Reports, Ledger!Rows, Ledger!Named, Ledger!Nameless, IsReport

LEMMA OpenSet ==
    ASSUME NEW l, NEW n \in Nat, NEW i
    PROVE  i \in Ledger!OpenUsage(l, n) <=>
             /\ i \in 1 .. n /\ l[i].kind = "usage"
             /\ \A j \in 1 .. n : l[j].kind = "usage" /\ j > i => ParsedId(l[j]) # ParsedId(l[i])
             /\ \A j \in 1 .. n : IsReport(l[j]) /\ j > i => ~Ledger!Completes(l, j, i)
  BY ReportSets DEF Ledger!OpenUsage, Ledger!LastOfId, Ledger!Rows

LEMMA LastSet ==
    ASSUME NEW l, NEW n \in Nat, NEW i
    PROVE  i \in Ledger!LastOfId(l, Ledger!Named(l, n)) <=>
             /\ i \in 1 .. n /\ IsReport(l[i]) /\ ParsedId(l[i]) # NoId
             /\ \A j \in 1 .. n : IsReport(l[j]) /\ j > i => ParsedId(l[j]) # ParsedId(l[i])
  BY ReportSets DEF Ledger!LastOfId

\* No row that is read later changes which rows a report completes.
LEMMA CompletesSame ==
    ASSUME NEW l, NEW m, NEW n \in Nat, \A i \in 1 .. n : m[i] = l[i],
           NEW i \in 1 .. n, NEW j \in 1 .. n
    PROVE  Ledger!Completes(m, j, i) <=> Ledger!Completes(l, j, i)
  <1>1. j - 1 \in Nat /\ 1 .. (j - 1) \subseteq 1 .. n
    OBVIOUS
  <1>2. Ledger!Named(m, j - 1) = Ledger!Named(l, j - 1)
    <2>1. \A k \in 1 .. (j - 1) : m[k] = l[k]
      BY <1>1
    <2>2. {k \in 1 .. (j - 1) : IsReport(m[k]) /\ ParsedId(m[k]) # NoId} =
          {k \in 1 .. (j - 1) : IsReport(l[k]) /\ ParsedId(l[k]) # NoId}
      BY <2>1
    <2> QED
      BY <1>1, <2>2, ReportSets
  <1>3. m[i] = l[i] /\ m[j] = l[j] /\ \A k \in Ledger!Named(l, j - 1) : m[k] = l[k]
    <2>1. Ledger!Named(l, j - 1) \subseteq 1 .. n
      <3> DEFINE p == j - 1
      <3>1. p \in Nat /\ 1 .. p \subseteq 1 .. n
        BY <1>1
      <3> HIDE DEF p
      <3>2. Ledger!Named(l, p) \subseteq 1 .. p
        BY <3>1, ReportSets
      <3> QED
        BY <3>1, <3>2 DEF p
    <2> QED
      BY <2>1
  <1> DEFINE N == Ledger!Named(l, j - 1)
  <1>4. (\A k \in N : ParsedId(m[k]) # ParsedId(m[j])) <=>
        (\A k \in N : ParsedId(l[k]) # ParsedId(l[j]))
    BY <1>3
  <1> HIDE DEF N
  <1>5. Ledger!Completes(m, j, i) <=>
          /\ m[j].turn = m[i].turn /\ m[j].tok = m[i].tok
          /\ \A k \in N : ParsedId(m[k]) # ParsedId(m[j])
    BY <1>2 DEF Ledger!Completes, N
  <1>6. Ledger!Completes(l, j, i) <=>
          /\ l[j].turn = l[i].turn /\ l[j].tok = l[i].tok
          /\ \A k \in N : ParsedId(l[k]) # ParsedId(l[j])
    BY DEF Ledger!Completes, N
  <1> QED
    BY <1>3, <1>4, <1>5, <1>6

(***************************************************************************)
(* What one more log row changes.                                          *)
(***************************************************************************)
LEMMA OpenUntouched ==
    ASSUME NEW l, NEW n \in Nat, l[n + 1].kind # "usage", ~IsReport(l[n + 1])
    PROVE  Ledger!OpenUsage(l, n + 1) = Ledger!OpenUsage(l, n)
  <1>1. 1 .. n + 1 = 1 .. n \cup {n + 1} /\ n + 1 \in Nat
    OBVIOUS
  <1>2. ASSUME NEW i
        PROVE  i \in Ledger!OpenUsage(l, n + 1) <=> i \in Ledger!OpenUsage(l, n)
    <2> DEFINE m == n + 1
    <2>1. /\ m \in Nat /\ 1 .. m = 1 .. n \cup {m}
          /\ l[m].kind # "usage" /\ ~IsReport(l[m])
      BY <1>1
    <2> HIDE DEF m
    <2>2. i \in Ledger!OpenUsage(l, m) <=> i \in Ledger!OpenUsage(l, n)
      BY <2>1, OpenSet
    <2> QED
      BY <2>2 DEF m
  <1> QED
    BY <1>2

LEMMA ReportsUntouched ==
    ASSUME NEW l, NEW n \in Nat, ~IsReport(l[n + 1])
    PROVE  /\ Ledger!Named(l, n + 1) = Ledger!Named(l, n)
           /\ Ledger!Nameless(l, n + 1) = Ledger!Nameless(l, n)
  <1> DEFINE m == n + 1
             A(k) == {i \in 1 .. k : IsReport(l[i]) /\ ParsedId(l[i]) # NoId}
             B(k) == {i \in 1 .. k : IsReport(l[i]) /\ ParsedId(l[i]) = NoId}
  <1>1. m \in Nat /\ 1 .. m = 1 .. n \cup {m} /\ ~IsReport(l[m])
    OBVIOUS
  <1> HIDE DEF m
  <1>2. A(m) = A(n) /\ B(m) = B(n)
    BY <1>1
  <1>3. Ledger!Named(l, m) = A(m) /\ Ledger!Nameless(l, m) = B(m)
    BY <1>1, ReportSets
  <1>4. Ledger!Named(l, n) = A(n) /\ Ledger!Nameless(l, n) = B(n)
    BY ReportSets
  <1> HIDE DEF A, B
  <1> QED
    BY <1>2, <1>3, <1>4 DEF m

LEMMA OpenAfterUsage ==
    ASSUME NEW l \in Seq(Entries), NEW n \in Nat, n + 1 \in 1 .. Len(l), l[n + 1].kind = "usage"
    PROVE  Ledger!OpenUsage(l, n + 1) =
             {i \in Ledger!OpenUsage(l, n) : l[i].turn # l[n + 1].turn} \cup {n + 1}
  <1>1. 1 .. n + 1 = 1 .. n \cup {n + 1}
    OBVIOUS
  <1>2. \A i \in 1 .. n + 1 : l[i] \in Entry
    BY EntriesAssumption
  <1>3. ~IsReport(l[n + 1])
    BY DEF IsReport
  <1>4. ASSUME NEW i \in 1 .. n, l[i].kind = "usage"
        PROVE  ParsedId(l[n + 1]) = ParsedId(l[i]) <=> l[i].turn = l[n + 1].turn
    BY <1>1, <1>2, <1>4, IdFacts
  <1>5. ASSUME NEW i
        PROVE  i \in Ledger!OpenUsage(l, n + 1) <=>
                 \/ i \in Ledger!OpenUsage(l, n) /\ l[i].turn # l[n + 1].turn
                 \/ i = n + 1
    <2>1. CASE i = n + 1
      BY <2>1, OpenSet
    <2>2. CASE i \in 1 .. n
      BY <2>2, <1>1, <1>3, <1>4, OpenSet
    <2>3. CASE i \notin 1 .. n + 1
      BY <2>3, OpenSet
    <2> QED
      BY <2>1, <2>2, <2>3, <1>1
  <1> QED
    BY <1>5

LEMMA OpenAfterReport ==
    ASSUME NEW l, NEW n \in Nat, IsReport(l[n + 1])
    PROVE  Ledger!OpenUsage(l, n + 1) =
             {i \in Ledger!OpenUsage(l, n) : ~Ledger!Completes(l, n + 1, i)}
  <1>1. 1 .. n + 1 = 1 .. n \cup {n + 1}
    OBVIOUS
  <1>2. l[n + 1].kind # "usage"
    BY DEF IsReport
  <1>3. ASSUME NEW i
        PROVE  i \in Ledger!OpenUsage(l, n + 1) <=>
                 i \in Ledger!OpenUsage(l, n) /\ ~Ledger!Completes(l, n + 1, i)
    <2>1. CASE i \in 1 .. n
      <3>1. n + 1 > i
        BY <2>1
      <3> QED
        BY <2>1, <3>1, <1>1, <1>2, OpenSet
    <2>2. CASE i \notin 1 .. n
      BY <2>2, <1>1, <1>2, OpenSet
    <2> QED
      BY <2>1, <2>2
  <1> QED
    BY <1>3

-----------------------------------------------------------------------------
(* The books are kept by what touches neither rows nor accounts.           *)

LEMMA BooksTransfer ==
    ASSUME NEW l, NEW m, NEW n \in Nat, NEW k \in Nat, NEW T, Books(l, T, n),
           \A i \in 1 .. n : m[i] = l[i], \A r \in T : r.sid \in 1 .. n,
           Ledger!Named(m, k) = Ledger!Named(l, n), Ledger!Nameless(m, k) = Ledger!Nameless(l, n),
           Ledger!OpenUsage(m, k) = Ledger!OpenUsage(l, n)
    PROVE  Books(m, T, k)
  <1> DEFINE N == Ledger!Named(l, n)
             L == Ledger!LastOfId(l, N)
  <1>1. N \subseteq 1 .. n /\ Ledger!Nameless(l, n) \subseteq 1 .. n
    BY ReportSets
  <1>2. Ledger!LastOfId(m, N) = L
    BY <1>1 DEF Ledger!LastOfId
  <1>3. L \subseteq N
    BY DEF Ledger!LastOfId
  <1> HIDE DEF L, N
  <1>4. NamedRows(m, T, k)
    <2>1. ASSUME NEW r \in T, r.event, r.rid # NoId
          PROVE  \E i \in L : ParsedId(m[i]) = r.rid /\ m[i].turn = r.turn /\ m[i].tok = r.tok
      <3>1. PICK i \in L : ParsedId(l[i]) = r.rid /\ l[i].turn = r.turn /\ l[i].tok = r.tok
        BY <2>1 DEF Books, NamedRows, L, N
      <3> QED
        BY <3>1, <1>1, <1>3
    <2>2. ASSUME NEW i \in N
          PROVE  \E r \in T : r.event /\ r.rid = ParsedId(m[i])
      <3>1. PICK r \in T : r.event /\ r.rid = ParsedId(l[i])
        BY <2>2 DEF Books, NamedRows, N
      <3> QED
        BY <3>1, <1>1
    <2> QED
      BY <2>1, <2>2, <1>2 DEF NamedRows, N
  <1>5. OpenRows(m, T, k)
    BY DEF Books, OpenRows
  <1>6. NamelessRows(m, T, k)
    <2> SUFFICES ASSUME NEW t \in Turns, NEW c \in TokenCounts
                 PROVE  Cardinality(SidsOf(T, t, c)) = Cardinality(NamelessOf(m, k, t, c))
      BY DEF NamelessRows
    <2>1. NamelessOf(m, k, t, c) = NamelessOf(l, n, t, c)
      BY <1>1 DEF NamelessOf
    <2> QED
      BY <2>1 DEF Books, NamelessRows
  <1>7. \A r \in T : Synthetic(r.rid) => m[r.sid].kind \in {"usage", "estimate"}
    BY DEF Books
  <1> QED
    BY <1>4, <1>5, <1>6, <1>7 DEF Books

\* Codex has written more.
LEMMA BooksOfLongerLog ==
    ASSUME NEW l, NEW m, NEW n \in Nat, NEW T, Books(l, T, n),
           \A i \in 1 .. n : m[i] = l[i], \A r \in T : r.sid \in 1 .. n
    PROVE  Books(m, T, n)
  <1>1. {i \in 1 .. n : IsReport(m[i]) /\ ParsedId(m[i]) # NoId} =
        {i \in 1 .. n : IsReport(l[i]) /\ ParsedId(l[i]) # NoId}
    OBVIOUS
  <1>2. {i \in 1 .. n : IsReport(m[i]) /\ ParsedId(m[i]) = NoId} =
        {i \in 1 .. n : IsReport(l[i]) /\ ParsedId(l[i]) = NoId}
    OBVIOUS
  <1>3. \A i, j \in 1 .. n : Ledger!Completes(m, j, i) <=> Ledger!Completes(l, j, i)
    BY CompletesSame
  <1>4. ASSUME NEW i
        PROVE  i \in Ledger!OpenUsage(m, n) <=> i \in Ledger!OpenUsage(l, n)
    <2>1. CASE i \in 1 .. n
      BY <2>1, <1>3, OpenSet
    <2>2. CASE i \notin 1 .. n
      BY <2>2, OpenSet
    <2> QED
      BY <2>1, <2>2
  <1>5. Ledger!OpenUsage(m, n) = Ledger!OpenUsage(l, n)
    BY <1>4
  <1> QED
    BY <1>1, <1>2, <1>5, ReportSets, BooksTransfer

\* A row that reports nothing.
LEMMA BooksAfterSkip ==
    ASSUME NEW n \in Nat, NEW T, Books(log, T, n), \A r \in T : r.sid \in 1 .. n,
           log[n + 1].kind # "usage", ~IsReport(log[n + 1])
    PROVE  Books(log, T, n + 1)
  <1> DEFINE m == n + 1
  <1>1. m \in Nat /\ 1 .. m = 1 .. n \cup {m} /\ ~IsReport(log[m])
    OBVIOUS
  <1>2. Ledger!OpenUsage(log, m) = Ledger!OpenUsage(log, n)
    BY OpenUntouched
  <1>3. Ledger!Named(log, m) = Ledger!Named(log, n) /\ Ledger!Nameless(log, m) = Ledger!Nameless(log, n)
    BY ReportsUntouched
  <1> HIDE DEF m
  <1>4. Books(log, T, m)
    BY <1>1, <1>2, <1>3, BooksTransfer
  <1> QED
    BY <1>4 DEF m

\* A row with an event has the id of a report.
LEMMA EventIds ==
    ASSUME log \in Seq(Entries), NEW n \in 0 .. Len(log), NEW T, Books(log, T, n),
           NEW r \in T, r.event, NEW t
    PROVE  r.rid # UsageId(t)
  <1>1. CASE r.rid = NoId
    BY <1>1 DEF UsageId, NoId
  <1>2. CASE r.rid # NoId
    <2>1. PICK i \in Ledger!LastOfId(log, Ledger!Named(log, n)) : ParsedId(log[i]) = r.rid
      BY <1>2 DEF Books, NamedRows
    <2>2. i \in 1 .. n /\ IsReport(log[i])
      BY <2>1, LastSet
    <2>3. log[i] \in Entry
      BY <2>2, EntriesAssumption
    <2> QED
      BY <2>1, <2>2, <2>3, IdFacts
  <1> QED
    BY <1>1, <1>2

(***************************************************************************)
(* upsert_turn on a usage row: it takes the place of the usage row of its  *)
(* turn that is still open.                                                *)
(***************************************************************************)
LEMMA BooksAfterUsage ==
    ASSUME log \in Seq(Entries), NEW n \in Nat, n + 1 \in 1 .. Len(log), log[n + 1].kind = "usage",
           NEW T \in SUBSET TurnRow, StoreInv(log, T, n), Books(log, T, n)
    PROVE  Books(log, UpsertTurn(T, ParsedRow(n + 1, log[n + 1])), n + 1)
  <1> DEFINE m == n + 1
             e == log[m]
             new == ParsedRow(m, e)
             U == {r \in T : r.rid # new.rid} \cup {new}
  <1>1. e \in Entry
    BY EntriesAssumption
  <1>2. /\ new.sid = m /\ new.rid = UsageId(e.turn) /\ new.turn = e.turn /\ new.tok = e.tok
        /\ new.event = FALSE
    <2>1. e.kind = "usage"
      OBVIOUS
    <2> HIDE DEF e, m
    <2>2. ParsedId(e) = UsageId(e.turn)
      BY <1>1, <2>1, IdFacts
    <2>3. (e.kind \in {"event", "estimate"}) = FALSE
      BY <2>1
    <2>4. /\ new.sid = m /\ new.rid = ParsedId(e) /\ new.turn = e.turn /\ new.tok = e.tok
          /\ new.event = (e.kind \in {"event", "estimate"})
      BY DEF ParsedRow
    <2> QED
      BY <2>2, <2>3, <2>4
  <1>3. \A t, u : UsageId(t) # NoId /\ (UsageId(t) = UsageId(u) => t = u)
    BY <1>1, IdFacts
  <1>4. /\ m \in Nat /\ 1 .. m = 1 .. n \cup {m} /\ m \notin 1 .. n
        /\ ~IsReport(e) /\ n \in 0 .. Len(log)
    BY DEF IsReport
  <1>5. \A r \in T : /\ r.sid \in 1 .. n /\ log[r.sid].turn = r.turn
                     /\ ~r.event => r.rid = UsageId(r.turn)
    BY DEF StoreInv, CountsFromLog
  <1>6. \A r \in T : r.event => r.rid # new.rid
    BY <1>2, <1>4, EventIds
  <1>7. Ledger!OpenUsage(log, m) = {i \in Ledger!OpenUsage(log, n) : log[i].turn # e.turn} \cup {m}
    BY OpenAfterUsage
  <1>8. e.kind = "usage"
    OBVIOUS
  <1> HIDE DEF new, m
  <1>9. UpsertTurn(T, new) = U
    <2>1. ~CompletesUsage(T, new)
      BY <1>2 DEF CompletesUsage
    <2>2. CASE KnownId(T, new.rid)
      BY <2>1, <2>2 DEF UpsertTurn
    <2>3. CASE ~KnownId(T, new.rid)
      <3>1. \A r \in T : r.rid # new.rid /\ r.sid # new.sid
        BY <2>3, <1>2, <1>3, <1>4, <1>5 DEF KnownId
      <3> QED
        BY <2>1, <2>3, <3>1 DEF UpsertTurn
    <2> QED
      BY <2>2, <2>3
  <1>10. Ledger!Named(log, m) = Ledger!Named(log, n) /\ Ledger!Nameless(log, m) = Ledger!Nameless(log, n)
    BY <1>4, ReportsUntouched DEF m
  <1>11. \A r, s \in U : r.sid = s.sid => r = s
    BY <1>2, <1>4, <1>5 DEF Books
  <1>12. \A r \in U : Synthetic(r.rid) => log[r.sid].kind \in {"usage", "estimate"}
    BY <1>2, <1>8 DEF Books
  <1>13. NamedRows(log, U, m)
    BY <1>2, <1>6, <1>10 DEF Books, NamedRows
  <1>14. OpenRows(log, U, m)
    <2>1. ASSUME NEW r \in U, ~r.event
          PROVE  r.sid \in Ledger!OpenUsage(log, m)
      <3>1. CASE r = new
        BY <3>1, <1>2, <1>7
      <3>2. CASE r \in T /\ r.rid # new.rid
        BY <3>2, <2>1, <1>2, <1>5, <1>7 DEF Books, OpenRows
      <3> QED
        BY <3>1, <3>2
    <2>2. ASSUME NEW i \in Ledger!OpenUsage(log, m)
          PROVE  \E r \in U : ~r.event /\ r.sid = i
      <3>1. CASE i = m
        BY <3>1, <1>2
      <3>2. CASE i \in Ledger!OpenUsage(log, n) /\ log[i].turn # e.turn
        <4>1. PICK r \in T : ~r.event /\ r.sid = i
          BY <3>2 DEF Books, OpenRows
        <4>2. r.rid # new.rid
          BY <4>1, <3>2, <1>2, <1>3, <1>5
        <4> QED
          BY <4>1, <4>2
      <3> QED
        BY <3>1, <3>2, <1>7
    <2> QED
      BY <2>1, <2>2 DEF OpenRows
  <1>15. NamelessRows(log, U, m)
    <2> SUFFICES ASSUME NEW t \in Turns, NEW c \in TokenCounts
                 PROVE  Cardinality(SidsOf(U, t, c)) = Cardinality(NamelessOf(log, m, t, c))
      BY DEF NamelessRows
    <2>1. SidsOf(U, t, c) = SidsOf(T, t, c)
      BY <1>2, <1>3 DEF SidsOf
    <2>2. NamelessOf(log, m, t, c) = NamelessOf(log, n, t, c)
      BY <1>10 DEF NamelessOf
    <2> QED
      BY <2>1, <2>2 DEF Books, NamelessRows
  <1> HIDE DEF U
  <1>16. Books(log, U, m)
    BY <1>11, <1>12, <1>13, <1>14, <1>15 DEF Books
  <1> QED
    BY <1>9, <1>16 DEF new, m

(***************************************************************************)
(* upsert_turn on a report: it takes the place of the row with its id, or, *)
(* the first time its id is seen, of the open usage rows of its turn and   *)
(* counts.                                                                 *)
(***************************************************************************)
Replaced(T, c) ==
    {r \in T : IF r.event
               THEN c.rid # NoId /\ r.rid = c.rid
               ELSE ~KnownId(T, c.rid) /\ r.turn = c.turn /\ r.tok = c.tok}

LEMMA ReportRow ==
    ASSUME NEW e \in Entry, IsReport(e), NEW i
    PROVE  /\ ParsedRow(i, e).sid = i /\ ParsedRow(i, e).rid = ParsedId(e)
           /\ ParsedRow(i, e).turn = e.turn /\ ParsedRow(i, e).tok = e.tok
           /\ ParsedRow(i, e).event = TRUE
           /\ Synthetic(ParsedId(e)) => e.kind = "estimate"
  <1>1. (e.kind \in {"event", "estimate"}) = TRUE
    BY DEF IsReport
  <1>2. ASSUME e.kind = "event"
        PROVE  ~Synthetic(ParsedId(e))
    <2>1. ParsedId(e) = e.resp
      BY <1>2 DEF ParsedId
    <2>2. e.resp = NoId \/ \E x \in Responses : e.resp = ResponseId(x)
      BY DEF Entry
    <2>3. NoId.kind = "null" /\ \A x : ResponseId(x).kind = "response"
      BY DEF NoId, ResponseId
    <2>4. e.resp.kind \in {"null", "response"}
      BY <2>2, <2>3
    <2> QED
      BY <2>1, <2>4 DEF Synthetic
  <1>3. /\ ParsedRow(i, e).sid = i /\ ParsedRow(i, e).rid = ParsedId(e)
        /\ ParsedRow(i, e).turn = e.turn /\ ParsedRow(i, e).tok = e.tok
        /\ ParsedRow(i, e).event = (e.kind \in {"event", "estimate"})
    BY DEF ParsedRow
  <1> QED
    BY <1>1, <1>2, <1>3 DEF IsReport

LEMMA ReportUpserted ==
    ASSUME log \in Seq(Entries), NEW n \in Nat, n + 1 \in 1 .. Len(log), IsReport(log[n + 1]),
           NEW T \in SUBSET TurnRow, StoreInv(log, T, n), Books(log, T, n)
    PROVE  \E c :
             /\ UpsertTurn(T, ParsedRow(n + 1, log[n + 1])) = (T \ Replaced(T, c)) \cup {c}
             /\ c.event /\ c.rid = ParsedId(log[n + 1])
             /\ c.turn = log[n + 1].turn /\ c.tok = log[n + 1].tok
             /\ Synthetic(c.rid) => log[c.sid].kind \in {"usage", "estimate"}
             /\ \A r \in T \ Replaced(T, c) : r.sid # c.sid
  <1> DEFINE m == n + 1
             e == log[m]
             new == ParsedRow(m, e)
             A == Absorbable(T, new)
  <1>1. e \in Entry
    BY EntriesAssumption
  <1>2. IsReport(e) /\ m \notin 1 .. n
    OBVIOUS
  <1> HIDE DEF e, m
  <1>3. /\ new.sid = m /\ new.rid = ParsedId(e) /\ new.turn = e.turn /\ new.tok = e.tok
        /\ new.event = TRUE
        /\ Synthetic(new.rid) => e.kind = "estimate"
    BY <1>1, <1>2, ReportRow
  <1>4. \A t : new.rid # UsageId(t) /\ UsageId(t) # NoId /\ Synthetic(UsageId(t))
    BY <1>1, <1>2, <1>3, IdFacts
  <1> HIDE DEF new
  <1>5. /\ \A r \in T : r.sid \in 1 .. n /\ (~r.event => r.rid = UsageId(r.turn))
        /\ \A r, s \in T : r.rid = s.rid /\ r.rid # NoId => r = s
    BY DEF StoreInv, CountsFromLog
  <1>6. A = {r \in T : r.turn = new.turn /\ r.tok = new.tok /\ ~r.event}
    BY DEF Absorbable
  <1>7. CASE CompletesUsage(T, new)
    <2>1. ~KnownId(T, new.rid) /\ A # {}
      BY <1>7 DEF CompletesUsage
    <2>2. PICK a \in A : A = {a}
      BY <1>4, <1>5, <1>6, <2>1
    <2> DEFINE c == Completed(a, new)
    <2>3. UpsertTurn(T, new) = (T \ A) \cup {c}
      BY <1>7, <2>2 DEF UpsertTurn
    <2>4. a \in TurnRow /\ a.turn = new.turn /\ a.tok = new.tok /\ ~a.event /\ a \in T
      BY <1>6, <2>2
    <2>5. /\ c.sid = a.sid /\ c.rid = new.rid /\ c.turn = new.turn /\ c.tok = new.tok
          /\ c.event = TRUE
      BY <1>3, <2>4 DEF Completed, TurnRow
    <2> HIDE DEF c, A
    <2>6. \A r \in T : r.rid = new.rid => new.rid = NoId
      BY <2>1 DEF KnownId
    <2>7. Replaced(T, c) = A
      BY <1>6, <2>1, <2>5, <2>6 DEF Replaced
    <2>8. \A r \in T \ A : r.sid # c.sid
      BY <2>2, <2>4, <2>5 DEF Books
    <2>9. log[c.sid].kind \in {"usage", "estimate"}
      BY <1>4, <1>5, <2>4, <2>5 DEF Books
    <2> QED
      BY <1>3, <2>3, <2>5, <2>7, <2>8, <2>9 DEF new, e, m
  <1>8. CASE ~CompletesUsage(T, new)
    <2> DEFINE R == Replaced(T, new)
    <2>1. ~KnownId(T, new.rid) => A = {}
      BY <1>3, <1>8 DEF CompletesUsage
    <2>2. R = {r \in T : new.rid # NoId /\ r.rid = new.rid}
      <3>1. CASE KnownId(T, new.rid)
        BY <1>4, <1>5, <3>1 DEF Replaced
      <3>2. CASE ~KnownId(T, new.rid)
        BY <1>4, <1>5, <1>6, <2>1, <3>2 DEF Replaced
      <3> QED
        BY <3>1, <3>2
    <2> HIDE DEF R
    <2>3. UpsertTurn(T, new) = (T \ R) \cup {new}
      <3>1. CASE KnownId(T, new.rid)
        <4>1. new.rid # NoId
          BY <3>1 DEF KnownId
        <4>2. UpsertTurn(T, new) = {r \in T : r.rid # new.rid} \cup {new}
          BY <1>8, <3>1 DEF UpsertTurn
        <4> QED
          BY <2>2, <4>1, <4>2
      <3>2. CASE ~KnownId(T, new.rid)
        <4>1. UpsertTurn(T, new) = {r \in T : r.sid # new.sid} \cup {new}
          BY <1>8, <3>2 DEF UpsertTurn
        <4>2. R = {}
          BY <2>2, <3>2 DEF KnownId
        <4>3. \A r \in T : r.sid # new.sid
          BY <1>2, <1>3, <1>5
        <4> QED
          BY <4>1, <4>2, <4>3
      <3> QED
        BY <3>1, <3>2
    <2>4. \A r \in T \ R : r.sid # new.sid
      BY <1>2, <1>3, <1>5
    <2>5. Synthetic(new.rid) => log[new.sid].kind \in {"usage", "estimate"}
      BY <1>3 DEF e
    <2> QED
      BY <1>3, <2>3, <2>4, <2>5 DEF new, e, m, R
  <1> QED
    BY <1>7, <1>8

LEMMA BooksAfterReport ==
    ASSUME log \in Seq(Entries), NEW n \in Nat, n + 1 \in 1 .. Len(log), IsReport(log[n + 1]),
           NEW T \in SUBSET TurnRow, StoreInv(log, T, n), Books(log, T, n)
    PROVE  Books(log, UpsertTurn(T, ParsedRow(n + 1, log[n + 1])), n + 1)
  <1> DEFINE m == n + 1
             e == log[m]
  <1>1. PICK c :
          /\ UpsertTurn(T, ParsedRow(m, e)) = (T \ Replaced(T, c)) \cup {c}
          /\ c.event /\ c.rid = ParsedId(e) /\ c.turn = e.turn /\ c.tok = e.tok
          /\ Synthetic(c.rid) => log[c.sid].kind \in {"usage", "estimate"}
          /\ \A r \in T \ Replaced(T, c) : r.sid # c.sid
    BY ReportUpserted
  <1> DEFINE R == Replaced(T, c)
             U == (T \ R) \cup {c}
             K == KnownId(T, c.rid)
  <1>2. e \in Entry
    BY EntriesAssumption
  <1>3. /\ m \in Nat /\ 1 .. m = 1 .. n \cup {m} /\ m \notin 1 .. n /\ m - 1 = n
        /\ IsReport(e) /\ n \in 0 .. Len(log) /\ \A i \in 1 .. n : m > i
    BY DEF IsReport
  <1>4. Ledger!OpenUsage(log, m) = {i \in Ledger!OpenUsage(log, n) : ~Ledger!Completes(log, m, i)}
    BY OpenAfterReport
  <1> HIDE DEF m
  <1>5. log[m] = e
    OBVIOUS
  <1> HIDE DEF e
  <1>6. \A t : c.rid # UsageId(t) /\ UsageId(t) # NoId
    BY <1>1, <1>2, <1>3, IdFacts
  <1>7. \A r \in T : /\ r.sid \in 1 .. n /\ log[r.sid].turn = r.turn /\ log[r.sid].tok = r.tok
                     /\ ~r.event => r.rid = UsageId(r.turn)
    BY DEF StoreInv, CountsFromLog
  <1>8. /\ \A r \in T : r.event => (r \in R <=> c.rid # NoId /\ r.rid = c.rid)
        /\ \A r \in T : ~r.event => (r \in R <=> ~K /\ r.turn = c.turn /\ r.tok = c.tok)
    BY DEF Replaced
  <1>9. /\ Ledger!Named(log, n) = {i \in 1 .. n : IsReport(log[i]) /\ ParsedId(log[i]) # NoId}
        /\ Ledger!Named(log, m) = {i \in 1 .. m : IsReport(log[i]) /\ ParsedId(log[i]) # NoId}
        /\ Ledger!Nameless(log, n) = {i \in 1 .. n : IsReport(log[i]) /\ ParsedId(log[i]) = NoId}
        /\ Ledger!Nameless(log, m) = {i \in 1 .. m : IsReport(log[i]) /\ ParsedId(log[i]) = NoId}
    BY <1>3, ReportSets
  <1> HIDE DEF R
  <1>10. K <=> c.rid # NoId /\ \E k \in Ledger!Named(log, n) : ParsedId(log[k]) = c.rid
    <2>1. ASSUME NEW r \in T, r.rid = c.rid, c.rid # NoId
          PROVE  \E k \in Ledger!Named(log, n) : ParsedId(log[k]) = c.rid
      <3>1. r.event
        BY <1>6, <1>7, <2>1
      <3>2. PICK i \in Ledger!LastOfId(log, Ledger!Named(log, n)) : ParsedId(log[i]) = r.rid
        BY <2>1, <3>1 DEF Books, NamedRows
      <3> QED
        BY <2>1, <3>2 DEF Ledger!LastOfId
    <2>2. ASSUME NEW k \in Ledger!Named(log, n), ParsedId(log[k]) = c.rid
          PROVE  \E r \in T : r.rid = c.rid
      BY <2>2 DEF Books, NamedRows
    <2> QED
      BY <2>1, <2>2 DEF KnownId
  <1>11. ASSUME NEW i \in 1 .. n
         PROVE  Ledger!Completes(log, m, i) <=> ~K /\ c.turn = log[i].turn /\ c.tok = log[i].tok
    <2>1. Ledger!Completes(log, m, i) <=>
            /\ e.turn = log[i].turn /\ e.tok = log[i].tok
            /\ \A k \in Ledger!Named(log, n) : ParsedId(log[k]) # ParsedId(e)
      BY <1>3, <1>5 DEF Ledger!Completes
    <2>2. \A k \in Ledger!Named(log, n) : ParsedId(log[k]) # NoId
      BY <1>9
    <2> HIDE DEF K
    <2> QED
      BY <1>1, <1>10, <2>1, <2>2
  <1> HIDE DEF K
  <1>12. \A r, s \in U : r.sid = s.sid => r = s
    BY <1>1 DEF Books, R
  <1>13. \A r \in U : Synthetic(r.rid) => log[r.sid].kind \in {"usage", "estimate"}
    BY <1>1 DEF Books
  <1>14. NamedRows(log, U, m)
    <2>1. ASSUME NEW r \in U, r.event, r.rid # NoId
          PROVE  \E i \in Ledger!LastOfId(log, Ledger!Named(log, m)) :
                    ParsedId(log[i]) = r.rid /\ log[i].turn = r.turn /\ log[i].tok = r.tok
      <3>1. CASE r = c
        <4>1. m \in Ledger!LastOfId(log, Ledger!Named(log, m))
          <5>1. \A j \in 1 .. m : ~(j > m)
            BY <1>3
          <5> QED
            BY <1>1, <1>3, <1>5, <2>1, <3>1, <5>1, LastSet
        <4> QED
          BY <1>1, <1>5, <3>1, <4>1
      <3>2. CASE r \in T /\ r \notin R
        <4>1. PICK i \in Ledger!LastOfId(log, Ledger!Named(log, n)) :
                     ParsedId(log[i]) = r.rid /\ log[i].turn = r.turn /\ log[i].tok = r.tok
          BY <2>1, <3>2 DEF Books, NamedRows
        <4>2. r.rid # c.rid
          BY <1>8, <2>1, <3>2
        <4>3. i \in Ledger!LastOfId(log, Ledger!Named(log, m))
          BY <1>1, <1>3, <1>5, <4>1, <4>2, LastSet
        <4> QED
          BY <4>1, <4>3
      <3> QED
        BY <3>1, <3>2
    <2>2. ASSUME NEW i \in Ledger!Named(log, m)
          PROVE  \E r \in U : r.event /\ r.rid = ParsedId(log[i])
      <3>1. CASE i = m
        BY <1>1, <1>5, <3>1
      <3>2. CASE i \in Ledger!Named(log, n)
        <4>1. PICK r \in T : r.event /\ r.rid = ParsedId(log[i])
          BY <3>2 DEF Books, NamedRows
        <4> QED
          BY <1>1, <1>8, <4>1
      <3> QED
        BY <1>3, <1>9, <3>1, <3>2
    <2> QED
      BY <2>1, <2>2 DEF NamedRows
  <1>15. OpenRows(log, U, m)
    <2>1. ASSUME NEW r \in U, ~r.event
          PROVE  r.sid \in Ledger!OpenUsage(log, m)
      <3>1. r \in T /\ r \notin R
        BY <1>1, <2>1
      <3>2. r.sid \in Ledger!OpenUsage(log, n)
        BY <2>1, <3>1 DEF Books, OpenRows
      <3>3. ~Ledger!Completes(log, m, r.sid)
        BY <1>7, <1>8, <1>11, <2>1, <3>1
      <3> QED
        BY <1>4, <3>2, <3>3
    <2>2. ASSUME NEW i \in Ledger!OpenUsage(log, m)
          PROVE  \E r \in U : ~r.event /\ r.sid = i
      <3>1. i \in Ledger!OpenUsage(log, n) /\ ~Ledger!Completes(log, m, i)
        BY <1>4, <2>2
      <3>2. PICK r \in T : ~r.event /\ r.sid = i
        BY <3>1 DEF Books, OpenRows
      <3>3. r \notin R
        BY <1>7, <1>8, <1>11, <3>1, <3>2
      <3> QED
        BY <3>2, <3>3
    <2> QED
      BY <2>1, <2>2 DEF OpenRows
  <1>16. NamelessRows(log, U, m)
    <2> SUFFICES ASSUME NEW t \in Turns, NEW k \in TokenCounts
                 PROVE  Cardinality(SidsOf(U, t, k)) = Cardinality(NamelessOf(log, m, t, k))
      BY DEF NamelessRows
    <2>1. Cardinality(SidsOf(T, t, k)) = Cardinality(NamelessOf(log, n, t, k))
      BY DEF Books, NamelessRows
    <2>2. \A r \in T : r.rid = NoId => r.event /\ r \notin R
      BY <1>6, <1>7, <1>8
    <2>3. CASE c.rid = NoId /\ c.turn = t /\ c.tok = k
      <3>1. SidsOf(U, t, k) = SidsOf(T, t, k) \cup {c.sid}
        BY <2>2, <2>3 DEF SidsOf
      <3>2. c.sid \notin SidsOf(T, t, k)
        BY <1>1, <2>2 DEF SidsOf, R
      <3>3. NamelessOf(log, m, t, k) = NamelessOf(log, n, t, k) \cup {m}
        BY <1>1, <1>3, <1>5, <1>9, <2>3 DEF NamelessOf
      <3>4. m \notin NamelessOf(log, n, t, k)
        BY <1>3, <1>9 DEF NamelessOf
      <3>5. SidsOf(T, t, k) \subseteq 1 .. n /\ NamelessOf(log, n, t, k) \subseteq 1 .. n
        BY <1>7, <1>9 DEF SidsOf, NamelessOf
      <3>6. IsFiniteSet(SidsOf(T, t, k)) /\ IsFiniteSet(NamelessOf(log, n, t, k))
        <4>1. IsFiniteSet(1 .. n)
          BY FS_Interval
        <4> QED
          BY <3>5, <4>1, FS_Subset
      <3>7. /\ Cardinality(SidsOf(U, t, k)) = Cardinality(SidsOf(T, t, k)) + 1
            /\ Cardinality(NamelessOf(log, m, t, k)) = Cardinality(NamelessOf(log, n, t, k)) + 1
        BY <3>1, <3>2, <3>3, <3>4, <3>6, FS_AddElement
      <3> QED
        BY <2>1, <3>7
    <2>4. CASE ~(c.rid = NoId /\ c.turn = t /\ c.tok = k)
      <3>1. SidsOf(U, t, k) = SidsOf(T, t, k)
        BY <2>2, <2>4 DEF SidsOf
      <3>2. NamelessOf(log, m, t, k) = NamelessOf(log, n, t, k)
        BY <1>1, <1>3, <1>5, <1>9, <2>4 DEF NamelessOf
      <3> QED
        BY <2>1, <3>1, <3>2
    <2> QED
      BY <2>3, <2>4
  <1> HIDE DEF U
  <1>17. Books(log, U, m)
    BY <1>12, <1>13, <1>14, <1>15, <1>16 DEF Books
  <1> QED
    BY <1>1, <1>17 DEF U, R, e, m

(***************************************************************************)
(* backfill_turn_request_payloads changes no account.                      *)
(***************************************************************************)
LEMMA BooksAfterBackfill ==
    ASSUME NEW l, NEW n \in Nat, NEW T \in SUBSET TurnRow, Books(l, T, n), NEW Q, NEW f
    PROVE  Books(l, BackfillRequests(T, Q, f), n)
  <1> DEFINE B == BackfillRequests(T, Q, f)
             F(r) == IF RequestsOf(r.turn, Q, f) = {} THEN r
                     ELSE [r EXCEPT !.req = Max(RequestsOf(r.turn, Q, f))]
             g == [r \in T |-> F(r)]
  <1>1. B = {F(r) : r \in T}
    BY DEF BackfillRequests
  <1>2. ASSUME NEW r \in T
        PROVE  /\ F(r).sid = r.sid /\ F(r).rid = r.rid /\ F(r).turn = r.turn
               /\ F(r).tok = r.tok /\ F(r).event = r.event
    BY DEF TurnRow
  <1>3. B = {g[r] : r \in T}
    <2> HIDE DEF F, B
    <2> QED
      BY <1>1
  <1>4. \A r \in T : /\ g[r].sid = r.sid /\ g[r].rid = r.rid /\ g[r].turn = r.turn
                     /\ g[r].tok = r.tok /\ g[r].event = r.event
    <2> HIDE DEF F
    <2> QED
      BY <1>2
  <1> HIDE DEF B, F, g
  <1>5. \A b, c \in B : b.sid = c.sid => b = c
    BY <1>3, <1>4 DEF Books
  <1>6. \A b \in B : Synthetic(b.rid) => l[b.sid].kind \in {"usage", "estimate"}
    BY <1>3, <1>4 DEF Books
  <1>7. NamedRows(l, B, n)
    <2>1. ASSUME NEW b \in B, b.event, b.rid # NoId
          PROVE  \E i \in Ledger!LastOfId(l, Ledger!Named(l, n)) :
                    ParsedId(l[i]) = b.rid /\ l[i].turn = b.turn /\ l[i].tok = b.tok
      <3>1. PICK r \in T : b = g[r]
        BY <1>3
      <3>2. r.event /\ r.rid # NoId
        BY <1>4, <2>1, <3>1
      <3>3. PICK i \in Ledger!LastOfId(l, Ledger!Named(l, n)) :
                   ParsedId(l[i]) = r.rid /\ l[i].turn = r.turn /\ l[i].tok = r.tok
        BY <3>2 DEF Books, NamedRows
      <3> QED
        BY <1>4, <3>1, <3>3
    <2>2. ASSUME NEW i \in Ledger!Named(l, n)
          PROVE  \E b \in B : b.event /\ b.rid = ParsedId(l[i])
      <3>1. PICK r \in T : r.event /\ r.rid = ParsedId(l[i])
        BY DEF Books, NamedRows
      <3> QED
        BY <1>3, <1>4, <3>1
    <2> QED
      BY <2>1, <2>2 DEF NamedRows
  <1>8. OpenRows(l, B, n)
    BY <1>3, <1>4 DEF Books, OpenRows
  <1>9. NamelessRows(l, B, n)
    <2> SUFFICES ASSUME NEW t \in Turns, NEW k \in TokenCounts
                 PROVE  Cardinality(SidsOf(B, t, k)) = Cardinality(NamelessOf(l, n, t, k))
      BY DEF NamelessRows
    <2>1. SidsOf(B, t, k) = SidsOf(T, t, k)
      BY <1>3, <1>4 DEF SidsOf
    <2> QED
      BY <2>1 DEF Books, NamelessRows
  <1>10. Books(l, B, n)
    BY <1>5, <1>6, <1>7, <1>8, <1>9 DEF Books
  <1> QED
    BY <1>10 DEF B

-----------------------------------------------------------------------------
(* What is counted.                                                        *)

\* The instance counts with a copy of Cardinality.
LEMMA LedgerCardinality == \A S : Ledger!Cardinality(S) = Cardinality(S)
  BY DEF Ledger!Cardinality, Cardinality

\* Rows are as many as their source rows.
LEMMA CountBySource ==
    ASSUME NEW R, \A r, s \in R : r.sid = s.sid => r = s,
           IsFiniteSet({r.sid : r \in R})
    PROVE  Cardinality(R) = Cardinality({r.sid : r \in R})
  <1> DEFINE I == {r.sid : r \in R}
             g == [r \in R |-> r.sid]
  <1>1. g \in Bijection(R, I)
    BY DEF Bijection, Injection, Surjection, IsInjective
  <1>2. ExistsBijection(I, R)
    BY <1>1, Fun_ExistsBijSymmetric DEF ExistsBijection
  <1> QED
    BY <1>2, FS_Bijection

(***************************************************************************)
(* While the books are kept, `turns` counts what UsageLedger accounts for. *)
(***************************************************************************)
LEMMA BooksMeanLedger ==
    ASSUME log \in Seq(Entries), NEW n \in 0 .. Len(log), NEW T \in SUBSET TurnRow,
           StoreInv(log, T, n), Books(log, T, n)
    PROVE  Counted(T) = Ledger!Accounts(log, n)
  <1> DEFINE Last == Ledger!LastOfId(log, Ledger!Named(log, n))
             Open == Ledger!OpenUsage(log, n)
             Bare == Ledger!Nameless(log, n)
             Item(id, t, k, c) == [rid |-> id, turn |-> t, tok |-> k, times |-> c]
             Times(t, k) == Cardinality({j \in Bare : log[j].turn = t /\ log[j].tok = k})
             Copies(r) == Cardinality({s \in T : Same(r, s)})
  <1>1. Ledger!Accounts(log, n) =
          {Item(ParsedId(log[i]), log[i].turn, log[i].tok, 1) : i \in Last \cup Open}
          \cup {Item(NoId, log[i].turn, log[i].tok, Times(log[i].turn, log[i].tok)) : i \in Bare}
    <2>1. \A S : Ledger!Once(log, S) = {Item(ParsedId(log[i]), log[i].turn, log[i].tok, 1) : i \in S}
      BY DEF Ledger!Once
    <2>2. Ledger!Repeated(log, Bare) =
            {Item(NoId, log[i].turn, log[i].tok, Times(log[i].turn, log[i].tok)) : i \in Bare}
      BY LedgerCardinality DEF Ledger!Repeated
    <2>3. Ledger!Accounts(log, n) = Ledger!Once(log, Last \cup Open) \cup Ledger!Repeated(log, Bare)
      BY DEF Ledger!Accounts
    <2> HIDE DEF Item, Times, Last, Open, Bare
    <2> QED
      BY <2>1, <2>2, <2>3
  <1>2. Counted(T) = {Item(r.rid, r.turn, r.tok, Copies(r)) : r \in T}
    BY DEF Counted
  <1> HIDE DEF Item
  <1>3. n \in Nat /\ \A i \in 1 .. n : log[i] \in Entry
    BY EntriesAssumption
  <1>4. /\ \A i \in Last : i \in 1 .. n /\ IsReport(log[i]) /\ ParsedId(log[i]) # NoId
        /\ \A i, j \in Last : ParsedId(log[i]) = ParsedId(log[j]) => i = j
        /\ \A i \in Open : i \in 1 .. n /\ log[i].kind = "usage"
        /\ \A i \in Bare : i \in 1 .. n
    <2>1. \A i, j \in Last : ParsedId(log[i]) = ParsedId(log[j]) => i = j
      <3> SUFFICES ASSUME NEW i \in Last, NEW j \in Last, ParsedId(log[i]) = ParsedId(log[j])
                   PROVE  i = j
        OBVIOUS
      <3>1. i \in 1 .. n /\ j \in 1 .. n /\ IsReport(log[i]) /\ IsReport(log[j])
        BY <1>3, LastSet
      <3>2. ~(j > i) /\ ~(i > j)
        BY <1>3, <3>1, LastSet
      <3> QED
        BY <3>1, <3>2
    <2>2. \A i \in Last : i \in 1 .. n /\ IsReport(log[i]) /\ ParsedId(log[i]) # NoId
      BY <1>3, LastSet
    <2>3. \A i \in Open : i \in 1 .. n /\ log[i].kind = "usage"
      BY <1>3, OpenSet
    <2>4. \A i \in Bare : i \in 1 .. n
      BY <1>3, ReportSets
    <2> QED
      BY <2>1, <2>2, <2>3, <2>4
  <1>5. Last \subseteq Ledger!Named(log, n)
    BY DEF Ledger!LastOfId
  <1>6. /\ NamedRows(log, T, n) /\ OpenRows(log, T, n) /\ NamelessRows(log, T, n)
        /\ \A r, s \in T : r.sid = s.sid => r = s
    BY DEF Books
  <1>7. /\ \A r \in T : /\ r.sid \in 1 .. n /\ log[r.sid].turn = r.turn /\ log[r.sid].tok = r.tok
                        /\ ~r.event => r.rid = UsageId(r.turn)
        /\ \A r, s \in T : r.rid = s.rid /\ r.rid # NoId => r = s
    BY DEF StoreInv, CountsFromLog
  <1>8. \A t : UsageId(t) # NoId
    BY DEF UsageId, NoId
  <1>9. ASSUME NEW r \in T, r.rid # NoId
        PROVE  Copies(r) = 1
    <2>1. {s \in T : Same(r, s)} = {r}
      BY <1>7, <1>9 DEF Same
    <2> QED
      BY <2>1, FS_Singleton
  <1>10. ASSUME NEW t \in Turns, NEW k \in TokenCounts
         PROVE  /\ IsFiniteSet(SidsOf(T, t, k)) /\ Cardinality(SidsOf(T, t, k)) = Times(t, k)
                /\ IsFiniteSet(NamelessOf(log, n, t, k))
                /\ Cardinality(NamelessOf(log, n, t, k)) = Times(t, k)
    <2>1. SidsOf(T, t, k) \subseteq 1 .. n /\ NamelessOf(log, n, t, k) \subseteq 1 .. n
      BY <1>4, <1>7 DEF SidsOf, NamelessOf
    <2>2. IsFiniteSet(1 .. n)
      BY <1>3, FS_Interval
    <2>3. Cardinality(NamelessOf(log, n, t, k)) = Times(t, k)
      BY DEF NamelessOf
    <2> QED
      BY <1>6, <2>1, <2>2, <2>3, FS_Subset DEF NamelessRows
  <1>11. ASSUME NEW r \in T, r.rid = NoId
         PROVE  Copies(r) = Times(r.turn, r.tok)
    <2> DEFINE R == {s \in T : s.rid = NoId /\ s.turn = r.turn /\ s.tok = r.tok}
    <2>1. {s \in T : Same(r, s)} = R
      BY <1>11 DEF Same
    <2>2. SidsOf(T, r.turn, r.tok) = {s.sid : s \in R}
      BY DEF SidsOf
    <2>3. r.turn \in Turns /\ r.tok \in TokenCounts
      BY DEF TurnRow
    <2>4. \A s, u \in R : s.sid = u.sid => s = u
      BY <1>6
    <2> HIDE DEF R
    <2>5. Cardinality(R) = Cardinality(SidsOf(T, r.turn, r.tok))
      BY <1>10, <2>2, <2>3, <2>4, CountBySource
    <2> QED
      BY <1>10, <2>1, <2>3, <2>5
  <1>12. ASSUME NEW t \in Turns, NEW k \in TokenCounts
         PROVE  (\E r \in T : r.rid = NoId /\ r.turn = t /\ r.tok = k) <=>
                (\E i \in Bare : log[i].turn = t /\ log[i].tok = k)
    <2>1. SidsOf(T, t, k) = {} <=> NamelessOf(log, n, t, k) = {}
      BY <1>10, FS_EmptySet
    <2>2. SidsOf(T, t, k) # {} <=> \E r \in T : r.rid = NoId /\ r.turn = t /\ r.tok = k
      BY DEF SidsOf
    <2>3. NamelessOf(log, n, t, k) # {} <=> \E i \in Bare : log[i].turn = t /\ log[i].tok = k
      BY DEF NamelessOf
    <2> QED
      BY <2>1, <2>2, <2>3
  <1> HIDE DEF Last, Open, Bare, Times, Copies
  <1>13. ASSUME NEW r \in T
         PROVE  \/ \E i \in Last \cup Open :
                     Item(r.rid, r.turn, r.tok, Copies(r)) =
                     Item(ParsedId(log[i]), log[i].turn, log[i].tok, 1)
                \/ \E i \in Bare :
                     Item(r.rid, r.turn, r.tok, Copies(r)) =
                     Item(NoId, log[i].turn, log[i].tok, Times(log[i].turn, log[i].tok))
    <2>1. CASE r.rid = NoId
      <3>1. r.turn \in Turns /\ r.tok \in TokenCounts
        BY DEF TurnRow
      <3>2. PICK i \in Bare : log[i].turn = r.turn /\ log[i].tok = r.tok
        BY <1>12, <2>1, <3>1
      <3>3. Copies(r) = Times(r.turn, r.tok)
        BY <1>11, <2>1
      <3> QED
        BY <2>1, <3>2, <3>3
    <2>2. CASE r.rid # NoId /\ r.event
      <3>1. PICK i \in Last : ParsedId(log[i]) = r.rid /\ log[i].turn = r.turn /\ log[i].tok = r.tok
        BY <1>6, <2>2 DEF NamedRows, Last
      <3>2. Copies(r) = 1
        BY <1>9, <2>2
      <3> QED
        BY <3>1, <3>2
    <2>3. CASE ~r.event
      <3>1. r.sid \in Open
        BY <1>6, <2>3 DEF OpenRows, Open
      <3>2. r.rid = UsageId(r.turn) /\ r.rid # NoId
        BY <1>7, <1>8, <2>3
      <3>3. ParsedId(log[r.sid]) = UsageId(log[r.sid].turn)
        BY <1>3, <1>4, <3>1, IdFacts
      <3>4. Copies(r) = 1
        BY <1>9, <3>2
      <3>5. log[r.sid].turn = r.turn /\ log[r.sid].tok = r.tok
        BY <1>7
      <3>6. Item(r.rid, r.turn, r.tok, Copies(r)) =
            Item(ParsedId(log[r.sid]), log[r.sid].turn, log[r.sid].tok, 1)
        BY <3>2, <3>3, <3>4, <3>5
      <3> QED
        BY <3>1, <3>6
    <2> QED
      BY <2>1, <2>2, <2>3
  <1>14. ASSUME NEW i \in Last \cup Open
         PROVE  \E r \in T : Item(r.rid, r.turn, r.tok, Copies(r)) =
                             Item(ParsedId(log[i]), log[i].turn, log[i].tok, 1)
    <2>1. CASE i \in Last
      <3>1. PICK r \in T : r.event /\ r.rid = ParsedId(log[i])
        BY <1>5, <1>6, <2>1 DEF NamedRows
      <3>2. r.rid # NoId
        BY <1>4, <2>1, <3>1
      <3>3. PICK j \in Last : ParsedId(log[j]) = r.rid /\ log[j].turn = r.turn /\ log[j].tok = r.tok
        BY <1>6, <3>1, <3>2 DEF NamedRows, Last
      <3>4. j = i
        BY <1>4, <2>1, <3>1, <3>3
      <3>5. Copies(r) = 1
        BY <1>9, <3>2
      <3> QED
        BY <3>3, <3>4, <3>5
    <2>2. CASE i \in Open
      <3>1. PICK r \in T : ~r.event /\ r.sid = i
        BY <1>6, <2>2 DEF OpenRows, Open
      <3>2. r.rid = UsageId(r.turn) /\ r.rid # NoId
        BY <1>7, <1>8, <3>1
      <3>3. ParsedId(log[i]) = UsageId(log[i].turn)
        BY <1>3, <1>4, <2>2, IdFacts
      <3>4. Copies(r) = 1
        BY <1>9, <3>2
      <3>5. log[i].turn = r.turn /\ log[i].tok = r.tok
        BY <1>7, <3>1
      <3>6. Item(r.rid, r.turn, r.tok, Copies(r)) = Item(ParsedId(log[i]), log[i].turn, log[i].tok, 1)
        BY <3>2, <3>3, <3>4, <3>5
      <3> QED
        BY <3>6
    <2> QED
      BY <2>1, <2>2
  <1>15. ASSUME NEW i \in Bare
         PROVE  \E r \in T : Item(r.rid, r.turn, r.tok, Copies(r)) =
                             Item(NoId, log[i].turn, log[i].tok, Times(log[i].turn, log[i].tok))
    <2>1. log[i].turn \in Turns /\ log[i].tok \in TokenCounts
      BY <1>3, <1>4 DEF Entry
    <2>2. PICK r \in T : r.rid = NoId /\ r.turn = log[i].turn /\ r.tok = log[i].tok
      BY <1>12, <2>1
    <2>3. Copies(r) = Times(r.turn, r.tok)
      BY <1>11, <2>2
    <2> QED
      BY <2>2, <2>3
  <1> QED
    BY <1>1, <1>2, <1>13, <1>14, <1>15

-----------------------------------------------------------------------------
(* Every step keeps the books.                                             *)

LEMMA NoBooksYet == Init => BooksInv
  <1> SUFFICES ASSUME Init PROVE BooksInv
    OBVIOUS
  <1>1. log = <<>> /\ db.turns = {} /\ db.cursor = 0 /\ pc = "idle"
    BY DEF Init, EmptyStore
  <1> DEFINE l == <<>>
  <1>2. Books(l, {}, 0)
    <2> HIDE DEF l
    <2>1. Ledger!Named(l, 0) = {} /\ Ledger!Nameless(l, 0) = {} /\ Ledger!OpenUsage(l, 0) = {}
      <3>1. 0 \in Nat /\ 1 .. 0 = {}
        OBVIOUS
      <3> QED
        BY <3>1, ReportSets, OpenSet
    <2>2. \A t, k : SidsOf({}, t, k) = {} /\ NamelessOf(l, 0, t, k) = {}
      BY <2>1 DEF SidsOf, NamelessOf
    <2> QED
      BY <2>1, <2>2 DEF Books, NamedRows, OpenRows, NamelessRows
  <1> QED
    BY <1>1, <1>2 DEF BooksInv

\* Without quoted telemetry a row that is not a report is a usage row or parses to nothing.
LEMMA PlainRows ==
    ASSUME NoQuotes, NEW e \in Entries
    PROVE  Parses(e) <=> e.kind = "usage" \/ IsReport(e)
  BY DEF NoQuotes, Parses, ParsesAsUsage, IsReport

(***************************************************************************)
(* The repair has nothing to delete: no row keeps a synthetic id without a *)
(* log row that reparses.                                                  *)
(***************************************************************************)
LEMMA NothingInvalid ==
    ASSUME NEW n, Books(log, tx.turns, n)
    PROVE  {r \in tx.turns : r.rid \notin InvalidIds} = tx.turns
  <1>1. \A r \in tx.turns : Synthetic(r.rid) => ParsesAsUsage(log[r.sid])
    BY DEF Books, ParsesAsUsage
  <1>2. {c \in RepairCandidates : ~ParsesAsUsage(log[c.sid])} = {}
    BY <1>1 DEF RepairCandidates
  <1>3. InvalidIds = {}
    BY <1>2 DEF InvalidIds
  <1> QED
    BY <1>3

LEMMA WritesKeepBooks ==
    ASSUME IInv, BooksInv, CodexWrites
    PROVE  BooksInv'
  <1> USE DEF IInv, TypeOK
  <1>1. PICK e \in Entries : log' = Append(log, e)
    BY DEF CodexWrites
  <1>2. \A i \in 1 .. Len(log) : log'[i] = log[i]
    BY <1>1
  <1>3. UNCHANGED <<db, tx, pc, scanned, limit>>
    BY DEF CodexWrites, importVars
  <1>4. ASSUME NEW T, NEW n \in Nat, n <= Len(log), StoreInv(log, T, n), Books(log, T, n)
        PROVE  Books(log', T, n)
    <2>1. \A r \in T : r.sid \in 1 .. n
      BY <1>4 DEF StoreInv, CountsFromLog
    <2>2. \A i \in 1 .. n : log'[i] = log[i]
      BY <1>2, <1>4
    <2> QED
      BY <1>4, <2>1, <2>2, BooksOfLongerLog
  <1>5. db.cursor \in Nat /\ tx.cursor \in Nat
    BY DEF Store
  <1>6. Books(log', db.turns, db.cursor)
    BY <1>4, <1>5 DEF BooksInv
  <1>7. pc \in {"archive", "repair"} => Books(log', tx.turns, tx.cursor)
    BY <1>4, <1>5 DEF BooksInv
  <1>8. pc = "scan" => Books(log', tx.turns, scanned)
    BY <1>4, <1>5 DEF BooksInv
  <1> QED
    BY <1>3, <1>6, <1>7, <1>8 DEF BooksInv

LEMMA RepairKeepsBooks ==
    ASSUME IInv, BooksInv, RepairAndOpenScan
    PROVE  BooksInv'
  <1> USE DEF IInv, TypeOK
  <1> DEFINE U == {r \in tx.turns : r.rid \notin InvalidIds}
  <1>1. /\ pc = "repair" /\ pc' = "scan" /\ scanned' = ScanStart /\ UNCHANGED <<log, db>>
        /\ tx' = [tx EXCEPT !.turns = U]
    BY DEF RepairAndOpenScan
  <1>2. U = tx.turns
    BY <1>1, NothingInvalid DEF BooksInv
  <1> HIDE DEF U
  <1>3. tx'.turns = tx.turns
    BY <1>1, <1>2 DEF Store
  <1>4. scanned' = tx.cursor
    BY <1>1, ScanStartsAtCursor
  <1> QED
    BY <1>1, <1>3, <1>4 DEF BooksInv

LEMMA ScanKeepsBooks ==
    ASSUME NoQuotes, IInv, BooksInv, ScanRequest \/ ScanUsage \/ ScanSkipped
    PROVE  BooksInv'
  <1> USE DEF IInv, TypeOK
  <1>1. /\ pc = "scan" /\ scanned' = scanned + 1 /\ scanned < limit
        /\ UNCHANGED <<log, db, pc>>
    BY DEF ScanRequest, ScanUsage, ScanSkipped, Scanning
  <1> DEFINE e == log[scanned + 1]
  <1>2. /\ scanned + 1 \in 1 .. Len(log) /\ e \in Entries
        /\ StoreInv(log, tx.turns, scanned) /\ tx.turns \in SUBSET TurnRow
        /\ \A r \in tx.turns : r.sid \in 1 .. scanned
    BY <1>1 DEF StoreInv, CountsFromLog, Store
  <1>3. Books(log, tx.turns, scanned) /\ Books(log, db.turns, db.cursor)
    BY <1>1 DEF BooksInv
  <1>4. Books(log, tx'.turns, scanned + 1)
    <2>1. CASE (ScanRequest \/ ScanSkipped)
      <3>1. tx' = tx /\ (e.kind = "request" \/ ~Parses(e))
        BY <2>1 DEF ScanRequest, ScanSkipped, Scanning
      <3>2. e.kind # "usage" /\ ~IsReport(e)
        BY <1>2, <3>1, PlainRows DEF IsReport
      <3> QED
        BY <1>2, <1>3, <3>1, <3>2, BooksAfterSkip
    <2>2. CASE ScanUsage
      <3>1. Parses(e) /\ tx' = [tx EXCEPT !.turns = UpsertTurn(@, ParsedRow(scanned + 1, e))]
        BY <2>2 DEF ScanUsage, Scanning
      <3>2. tx'.turns = UpsertTurn(tx.turns, ParsedRow(scanned + 1, e))
        BY <3>1 DEF Store
      <3>3. e.kind = "usage" \/ IsReport(e)
        BY <1>2, <3>1, PlainRows
      <3> QED
        BY <1>2, <1>3, <3>2, <3>3, BooksAfterUsage, BooksAfterReport
    <2> QED
      BY <2>1, <2>2
  <1> QED
    BY <1>1, <1>3, <1>4 DEF BooksInv

LEMMA CommitKeepsBooks ==
    ASSUME IInv, BooksInv, Commit
    PROVE  BooksInv'
  <1>1. /\ db'.turns = BackfillRequests(tx.turns, requests, TurnOf) /\ db'.cursor = scanned
        /\ tx.turns \in SUBSET TurnRow /\ scanned \in Nat /\ pc = "scan"
    BY Committed
  <1>2. Books(log, tx.turns, scanned)
    BY <1>1 DEF BooksInv
  <1>3. pc' = "idle" /\ UNCHANGED log
    BY DEF Commit, Return
  <1>4. Books(log, db'.turns, scanned)
    BY <1>1, <1>2, BooksAfterBackfill
  <1> QED
    BY <1>1, <1>3, <1>4 DEF BooksInv

LEMMA OtherStepsKeepBooks ==
    ASSUME IInv, BooksInv,
           StartImport \/ ArchiveRawLogs \/ Upgrade \/ AbortImport \/ UNCHANGED vars
    PROVE  BooksInv'
  <1> USE DEF IInv, TypeOK
  <1>1. CASE StartImport
    <2>1. /\ db'.turns = db.turns /\ db'.cursor = db.cursor /\ tx' = db' /\ pc' = "archive"
          /\ UNCHANGED log
      BY <1>1 DEF StartImport, Store
    <2> QED
      BY <2>1 DEF BooksInv
  <1>2. CASE ArchiveRawLogs
    <2>1. /\ pc = "archive" /\ pc' = "repair" /\ tx'.turns = tx.turns /\ tx'.cursor = tx.cursor
          /\ UNCHANGED <<log, db>>
      BY <1>2 DEF ArchiveRawLogs, Store
    <2> QED
      BY <2>1 DEF BooksInv
  <1>3. CASE Upgrade \/ AbortImport
    BY <1>3 DEF Upgrade, AbortImport, Return, BooksInv, importVars
  <1>4. CASE UNCHANGED vars
    BY <1>4 DEF vars, BooksInv
  <1> QED
    BY <1>1, <1>2, <1>3, <1>4

LEMMA BooksInductive ==
    ASSUME NoQuotes, IInv, BooksInv, [Next]_vars
    PROVE  BooksInv'
  BY WritesKeepBooks, RepairKeepsBooks, ScanKeepsBooks, CommitKeepsBooks, OtherStepsKeepBooks
  DEF Next, ImportStep

(***************************************************************************)
(* Whichever imports read the log, and however many of them failed, the    *)
(* database counts the calls of the log rows before its cursor: the import *)
(* implements UsageLedger, for logs without quoted telemetry.              *)
(***************************************************************************)
THEOREM LedgerImplemented == ASSUME NoQuotes PROVE Spec => ImplementsLedger
  <1>1. Init => Ledger!Init
    BY DEF Init, EmptyStore, Ledger!Init, Counted
  <1>2. IInv /\ BooksInv /\ [Next]_vars => IInv' /\ BooksInv'
    BY IInvInductive, BooksInductive
  <1>3. IInv /\ BooksInv /\ IInv' /\ BooksInv' /\ [Next]_vars => [Ledger!Next]_(Ledger!vars)
    <2> SUFFICES ASSUME IInv, BooksInv, IInv', BooksInv', [Next]_vars
                 PROVE  [Ledger!Next]_(Ledger!vars)
      OBVIOUS
    <2>1. CASE Commit
      <3>1. /\ db'.cursor = scanned /\ scanned \in db.cursor .. Len(log) /\ UNCHANGED log
        <4>1. db'.cursor = scanned /\ tx.cursor = db.cursor /\ scanned \in 0 .. Len(log) /\ pc = "scan"
          BY <2>1, Committed
        <4>2. db.cursor \in Nat /\ db.cursor <= scanned
          BY <4>1 DEF IInv, TypeOK, Store
        <4> QED
          BY <2>1, <4>1, <4>2 DEF Commit
      <3>2. /\ log \in Seq(Entries) /\ db'.cursor \in 0 .. Len(log) /\ db'.turns \in SUBSET TurnRow
            /\ StoreInv(log, db'.turns, db'.cursor) /\ Books(log, db'.turns, db'.cursor)
        BY <3>1 DEF IInv, TypeOK, Store, BooksInv
      <3>3. Counted(db'.turns) = Ledger!Accounts(log, db'.cursor)
        BY <3>2, BooksMeanLedger
      <3> QED
        BY <3>1, <3>3 DEF Ledger!Next, Ledger!Account
    <2>2. CASE ~Commit
      <3>1. db'.turns = db.turns /\ db'.cursor = db.cursor
        BY <2>2, CommitsAlone
      <3>2. Counted(db'.turns) = Counted(db.turns)
        BY <3>1
      <3>3. CASE CodexWrites
        BY <3>1, <3>2, <3>3 DEF CodexWrites, Ledger!Next, Ledger!LogGrows
      <3>4. CASE ~CodexWrites
        <4>1. UNCHANGED log
          BY <2>2, <3>4
          DEF Next, ImportStep, Upgrade, StartImport, ArchiveRawLogs, RepairAndOpenScan, ScanRequest,
              ScanUsage, ScanSkipped, Scanning, AbortImport, vars
        <4> QED
          BY <3>1, <3>2, <4>1 DEF Ledger!vars
      <3> QED
        BY <3>3, <3>4
    <2> QED
      BY <2>1, <2>2
  <1>4. Init => IInv /\ BooksInv
    BY InitEstablishesIInv, NoBooksYet
  <1> QED
    BY <1>1, <1>2, <1>3, <1>4, PTL DEF Spec, ImplementsLedger, Ledger!Spec
=============================================================================
