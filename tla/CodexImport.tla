----------------------------- MODULE CodexImport -----------------------------
(***************************************************************************)
(* import_codex_logs (app/services/import_service.py): the pull import of  *)
(* Codex usage.  Codex appends rows to its own log database while Token    *)
(* Lens runs; an import clears archived bodies that are past retention,    *)
(* and then, in one transaction, archives new raw rows, repairs synthetic  *)
(* usage rows against the archive, scans the rows after the import cursor, *)
(* back-fills request payloads and commits rows and cursors together.  An  *)
(* exception or a crash anywhere before the commit rolls the whole         *)
(* transaction back.                                                       *)
(*                                                                         *)
(* `db` is what analytics.sqlite holds for every reader, `tx` the          *)
(* uncommitted copy the importing connection works on.  The import lock    *)
(* (module ImportRuns) admits one import at a time.                        *)
(*                                                                         *)
(* Retention is reduced to a log id: archived bodies of rows before        *)
(* `cutoff` are blank.  RawArchive models its months, batches and restarts. *)
(***************************************************************************)
EXTENDS TurnStore, Sequences

CONSTANTS
    Entries,        \* the log rows Codex may write
    Parsers,        \* parser versions this installation may start with
    MaxCutoff,      \* bound: how far retention reaches
    MaxLog,         \* bound: rows Codex writes
    MaxAborts       \* bound: imports that fail or die

(***************************************************************************)
(* A log row, by what the parser makes of its body:                        *)
(*   noise     nothing                                                     *)
(*   request   a response.create request (parse_response_create_request)   *)
(*   usage     codex.turn.token_usage telemetry                            *)
(*   estimate  post sampling token usage                                   *)
(*   event     a response event with usage; `resp` is NoId when the        *)
(*             response has no id, `input` says the request is embedded    *)
(*   quoted    text that quotes usage telemetry: the former parser took it *)
(*             for usage, the current one rejects it                       *)
(***************************************************************************)
EntryKinds == {"noise", "request", "usage", "estimate", "event", "quoted"}

Entry == [kind: EntryKinds, turn: Turns, tok: TokenCounts,
          resp: {NoId} \cup {ResponseId(r) : r \in Responses}, input: BOOLEAN]

ASSUME EntriesAssumption == Entries \subseteq Entry
ASSUME ParsersAssumption == Parsers \subseteq {"former", "current"}
ASSUME BoundsAssumption == MaxLog \in Nat /\ MaxAborts \in Nat /\ MaxCutoff \in Nat \ {0}

VARIABLES
    log,        \* Codex logs table: row i has id i
    parser,     \* which parser version this installation runs
    db,         \* committed tables of analytics.sqlite
    cutoff,     \* first log id whose archived body retention keeps
    tx,         \* the tables as the open transaction sees them
    pc,         \* where import_codex_logs stands
    scanned,    \* max_scanned_source_log_id of the open import
    limit,      \* last row the scan's SELECT will return
    requests,   \* ids of the requests scanned so far
    aborts      \* imports that failed or died (history, bounded)

vars == <<log, parser, db, cutoff, tx, pc, scanned, limit, requests, aborts>>

importVars == <<tx, pc, scanned, limit, requests>>

(***************************************************************************)
(* turns, codex_import_state, the ids of raw_logs rows whose body is not   *)
(* blank, and raw_log_archive_state.                                       *)
(***************************************************************************)
Store == [turns: SUBSET TurnRow, cursor: Nat, bodies: SUBSET Nat, archived: Nat]

EmptyStore == [turns |-> {}, cursor |-> 0, bodies |-> {}, archived |-> 0]

TypeOK ==
    /\ log \in Seq(Entries)
    /\ parser \in {"former", "current"}
    /\ db \in Store
    /\ cutoff \in Nat
    /\ tx \in Store
    /\ pc \in {"idle", "archive", "repair", "scan"}
    /\ scanned \in Nat
    /\ limit \in Nat
    /\ requests \subseteq Nat
    /\ aborts \in Nat

Init ==
    /\ log = <<>>
    /\ parser \in Parsers
    /\ db = EmptyStore
    /\ cutoff = 1
    /\ tx = EmptyStore
    /\ pc = "idle"
    /\ scanned = 0
    /\ limit = 0
    /\ requests = {}
    /\ aborts = 0

-----------------------------------------------------------------------------
(* What the parser makes of a row.                                         *)

\* parse_usage_row, on the bodies the repair reads again
ParsesAsUsage(e) ==
    \/ e.kind \in {"usage", "estimate"}
    \/ e.kind = "quoted" /\ parser = "former"

\* parse_response_event(...) or parse_usage_row(...)
Parses(e) == e.kind = "event" \/ ParsesAsUsage(e)

\* Mutant: estimates are told apart by their counts.
ParsedId_EstimatePerCount(e) ==
    CASE e.kind = "event" -> e.resp
      [] e.kind = "estimate" -> EstimateId(e.tok)
      [] OTHER -> UsageId(e.turn)

ParsedId(e) ==
    CASE e.kind = "event" -> e.resp
      [] e.kind = "estimate" -> EstimateId(e.turn)
      [] OTHER -> UsageId(e.turn)

\* The row build_turn_row makes of log row i
ParsedRow(i, e) ==
    [sid   |-> i,
     rid   |-> ParsedId(e),
     turn  |-> e.turn,
     tok   |-> e.tok,
     event |-> e.kind \in {"event", "estimate"},
     req   |-> IF e.kind = "event" /\ e.input THEN i ELSE 0]

-----------------------------------------------------------------------------
(* Codex, and the installation.                                            *)

CodexWrites ==
    /\ Len(log) < MaxLog
    /\ \E e \in Entries : log' = Append(log, e)
    /\ UNCHANGED <<parser, db, cutoff, importVars, aborts>>

\* Token Lens is stopped and started again with the current parser.
Upgrade ==
    /\ pc = "idle"
    /\ parser = "former"
    /\ parser' = "current"
    /\ UNCHANGED <<log, db, cutoff, importVars, aborts>>

-----------------------------------------------------------------------------
(* One import.                                                             *)

\* apply_raw_log_retention commits on its own, then the import connects.
StartImport ==
    /\ pc = "idle"
    /\ \E c \in cutoff .. MaxCutoff :
         /\ cutoff' = c
         /\ db' = [db EXCEPT !.bodies = {i \in @ : i >= c}]
    /\ tx' = db'
    /\ pc' = "archive"
    /\ UNCHANGED <<log, parser, scanned, limit, requests, aborts>>

\* archive_raw_logs: the first import only places the archive cursor.
ArchiveRawLogs ==
    /\ pc = "archive"
    /\ tx' = IF tx.archived = 0
             THEN [tx EXCEPT !.archived = Len(log)]
             ELSE [tx EXCEPT !.archived = Len(log),
                             !.bodies = @ \cup {i \in tx.archived + 1 .. Len(log) : i >= cutoff}]
    /\ pc' = "repair"
    /\ UNCHANGED <<log, parser, db, cutoff, scanned, limit, requests, aborts>>

(***************************************************************************)
(* repair_codex_usage_rows: delete the synthetic rows whose archived body  *)
(* the parser no longer accepts, by response id.                           *)
(***************************************************************************)
RepairCandidates == {r \in tx.turns : Synthetic(r.rid) /\ r.sid \in tx.bodies}

\* Mutant: rows whose body still parses are deleted instead.
InvalidIds_Inverted == {r.rid : r \in {c \in RepairCandidates : ParsesAsUsage(log[c.sid])}}

InvalidIds == {r.rid : r \in {c \in RepairCandidates : ~ParsesAsUsage(log[c.sid])}}

\* Without a cursor the scan starts after the newest imported row.
ScanStart ==
    IF tx.cursor = 0
    THEN Max({0} \cup {r.sid : r \in tx.turns})
    ELSE tx.cursor

\* The repair, then the scan's SELECT, which sees the rows there now.
RepairAndOpenScan ==
    /\ pc = "repair"
    /\ tx' = [tx EXCEPT !.turns = {r \in @ : r.rid \notin InvalidIds}]
    /\ scanned' = ScanStart
    /\ limit' = Len(log)
    /\ requests' = {}
    /\ pc' = "scan"
    /\ UNCHANGED <<log, parser, db, cutoff, aborts>>

Scanning(i) ==
    /\ pc = "scan"
    /\ scanned < limit
    /\ i = scanned + 1
    /\ scanned' = i
    /\ UNCHANGED <<log, parser, db, cutoff, pc, limit, aborts>>

ScanRequest ==
    \E i \in 1 .. limit :
        /\ Scanning(i)
        /\ log[i].kind = "request"
        /\ requests' = requests \cup {i}
        /\ UNCHANGED tx

ScanUsage ==
    \E i \in 1 .. limit :
        /\ Scanning(i)
        /\ Parses(log[i])
        /\ ~UpsertRaises(tx.turns, ParsedRow(i, log[i]))
        /\ tx' = [tx EXCEPT !.turns = UpsertTurn(@, ParsedRow(i, log[i]))]
        /\ UNCHANGED requests

ScanSkipped ==
    \E i \in 1 .. limit :
        /\ Scanning(i)
        /\ log[i].kind # "request"
        /\ ~Parses(log[i])
        /\ UNCHANGED <<tx, requests>>

TurnOf == [i \in 1 .. Len(log) |-> log[i].turn]

\* Mutant: the cursor is the newest imported row, not the newest scanned one.
FinalCursor_LastImported == Max({tx.cursor} \cup {r.sid : r \in tx.turns})

\* Mutant: a row that arrived during the scan counts as scanned.
FinalCursor_LogEnd == Len(log)

\* set_codex_import_state is skipped while nothing was ever scanned.
FinalCursor == IF scanned = 0 THEN tx.cursor ELSE scanned

\* The locals of the call are gone.
Return == pc' = "idle" /\ scanned' = 0 /\ limit' = 0 /\ requests' = {}

\* Payload back-fill, cursor and COMMIT: the import returns.
Commit ==
    /\ pc = "scan"
    /\ scanned = limit
    /\ db' = [tx EXCEPT !.turns = BackfillRequests(@, requests, TurnOf),
                        !.cursor = FinalCursor]
    /\ tx' = db'
    /\ Return
    /\ UNCHANGED <<log, parser, cutoff, aborts>>

\* An exception or the end of the process: close without commit.
AbortImport ==
    /\ pc # "idle"
    /\ aborts < MaxAborts
    /\ aborts' = aborts + 1
    /\ tx' = db
    /\ Return
    /\ UNCHANGED <<log, parser, db, cutoff>>

ImportStep ==
    \/ StartImport \/ ArchiveRawLogs \/ RepairAndOpenScan
    \/ ScanRequest \/ ScanUsage \/ ScanSkipped \/ Commit

Next == CodexWrites \/ Upgrade \/ ImportStep \/ AbortImport

Spec == Init /\ [][Next]_vars

(***************************************************************************)
(* auto_import_loop runs import after import, whatever the last one did,   *)
(* and an import that nothing interrupts runs on to its commit.            *)
(***************************************************************************)
FairSpec == Spec /\ WF_vars(ImportStep)
-----------------------------------------------------------------------------
(* Properties.                                                             *)

(***************************************************************************)
(* The calls counted in `turns` are those the log rows up to the import    *)
(* cursor report, whatever the imports that read them, for logs without    *)
(* quoted telemetry (upsert_turn, repair_codex_usage_rows, the cursor).    *)
(***************************************************************************)
Same(r, s) == r.rid = s.rid /\ r.turn = s.turn /\ r.tok = s.tok

Counted(turns) ==
    {[rid |-> r.rid, turn |-> r.turn, tok |-> r.tok,
      times |-> Cardinality({s \in turns : Same(r, s)})] : r \in turns}

Ledger == INSTANCE UsageLedger WITH
    cursor <- db.cursor, ledger <- Counted(db.turns), IdOf <- ParsedId

ImplementsLedger == Ledger!Spec

(***************************************************************************)
(* Every stored row counts what a usage-bearing log row before the cursor  *)
(* reports for the same turn, and its request payload was logged for that  *)
(* turn: upsert_turn and backfill_turn_request_payloads never carry counts *)
(* or private payloads over to another turn.                               *)
(***************************************************************************)
CountsFromLog(l, r, n) ==
    /\ r.sid \in 1 .. n
    /\ l[r.sid].kind \notin {"noise", "request"}
    /\ l[r.sid].turn = r.turn
    /\ l[r.sid].tok = r.tok

PayloadFromOwnTurn(l, r, n) ==
    r.req # 0 => /\ r.req \in 1 .. n
                 /\ l[r.req].kind \in {"request", "event"}
                 /\ l[r.req].turn = r.turn

RowsFromLog ==
    \A r \in db.turns :
        CountsFromLog(log, r, db.cursor) /\ PayloadFromOwnTurn(log, r, db.cursor)

(***************************************************************************)
(* No row the scan reads makes upsert_turn raise: an IntegrityError would  *)
(* roll the import back, and every later import would meet the same row.   *)
(***************************************************************************)
UpsertNeverRaises ==
    \A i \in scanned + 1 .. limit :
        pc = "scan" /\ i = scanned + 1 /\ Parses(log[i])
            => ~UpsertRaises(tx.turns, ParsedRow(i, log[i]))

(***************************************************************************)
(* When an import commits, a request it scanned is on every row of its     *)
(* turn, the rows earlier imports stored included, unless a later request  *)
(* of the turn is (backfill_turn_request_payloads).                        *)
(***************************************************************************)
RequestsAttached ==
    [][\A q \in db.cursor + 1 .. db'.cursor :
          log[q].kind = "request" =>
            \A r \in db'.turns : r.turn = log[q].turn => r.req >= q]_vars

(***************************************************************************)
(* When an import under the current parser commits, each synthetic row     *)
(* with an archived body reparses (repair_codex_usage_rows).               *)
(***************************************************************************)
Reparses(store) ==
    \A r \in store.turns :
        Synthetic(r.rid) /\ r.sid \in store.bodies => ParsesAsUsage(log[r.sid])

ArchivedRowsRepaired == [][pc = "scan" /\ pc' = "idle" /\ db' # db => Reparses(db')]_vars

(***************************************************************************)
(* codex-usage-import-contract.md:49-51, 69-70: synthetic rows are revalidated    *)
(* against the archive or the current Codex log row, and every remaining   *)
(* one reparses.                                                           *)
(***************************************************************************)
AllRowsRepaired ==
    [][pc = "scan" /\ pc' = "idle" /\ scanned = limit =>
          \A r \in db'.turns : Synthetic(r.rid) => ParsesAsUsage(log[r.sid])]_vars

(***************************************************************************)
(* Every row Codex writes is eventually behind the cursor, skipped rows    *)
(* included (the scan loop, set_codex_import_state, auto_import_loop).     *)
(***************************************************************************)
EventuallyScanned == \A n \in 1 .. MaxLog : Len(log) >= n ~> db.cursor >= n
=============================================================================
