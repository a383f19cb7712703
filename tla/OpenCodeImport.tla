--------------------------- MODULE OpenCodeImport ---------------------------
(***************************************************************************)
(* How the usage of OpenCode gets into `turns`.  import_opencode_sources   *)
(* (app/services/import_service.py) pulls it from two files that OpenCode  *)
(* writes meanwhile: the messages of its database, which are filled in     *)
(* after they were inserted, and the token log, which grows line by line   *)
(* and may be read in the middle of one.  ingest_event                     *)
(* (app/services/opencode_ingest.py) stores what a plugin pushes, without  *)
(* the import lock.                                                        *)
(*                                                                         *)
(* All of them write the row `opencode:<message id>`, so `turns` has one   *)
(* row per message here, and the last writer's counts stay: a pushed event *)
(* never completes another row (upsert_turn), as the row of its message    *)
(* has its response id already.  Either file may be replaced by a new one, *)
(* which the reader only notices when it is shorter than what it has read. *)
(***************************************************************************)
EXTENDS Naturals, Sequences

CONSTANTS
    Lookback,           \* OPENCODE_DB_ROWID_LOOKBACK
    MaxMessages,        \* bound: rows of the message table
    MaxTokens,          \* bound: tokens of a message
    MaxLines,           \* bound: lines of the token log
    MaxDatabases,       \* bound: message databases that take the place of another
    MaxLogs,            \* bound: token logs that do
    MaxFailures         \* bound: imports that raise or die

ASSUME LookbackAssumption == Lookback \in Nat
ASSUME SizesAssumption == MaxMessages \in Nat /\ MaxTokens \in Nat /\ MaxLines \in Nat
ASSUME EventsAssumption == MaxDatabases \in Nat /\ MaxLogs \in Nat /\ MaxFailures \in Nat

VARIABLES
    messages,   \* message table: row i has tokens messages[i], 0 if none yet
    inst,       \* which message database this is (history)
    file,       \* token log: its complete lines
    partial,    \* whether half a line follows them
    gen,        \* which token log this is (history)
    db,         \* committed tables of analytics.sqlite
    tx,         \* turns as the import's connection sees it
    locked,     \* the import has written, and holds SQLite's write lock
    pc,         \* where import_opencode_sources stands
    cur,        \* the locals last_rowid and last_jsonl_offset
    pos,        \* lines of the token log read_jsonl_after is past
    mid,        \* it has also read the first half of the next line
    late,       \* rows filled in out of the lookback's reach (history)
    torn,       \* lines read in two halves (history)
    logged,     \* messages the token log or a push has reported (history)
    pushed,     \* messages whose push was answered with "imported" (history)
    failures    \* imports that raised or died (history, bounded)

codeVars == <<messages, inst, file, partial, gen, late>>

importVars == <<locked, pc, cur, pos, mid>>

vars == <<codeVars, db, tx, importVars, torn, logged, pushed, failures>>

\* OpenCode never gives an id twice, not even after a reinstallation.
Ids == Nat \X Nat

Turns == [id: Ids, tok: Nat \ {0}]

Lines == [id: Ids, tok: Nat]

(***************************************************************************)
(* opencode_import_state, with the database and the log its cursors were   *)
(* taken from (history).  last_jsonl_size is written but never read.       *)
(***************************************************************************)
Cursors == [rowid: Nat, offset: Nat, of: Nat, logOf: Nat]

TypeOK ==
    /\ messages \in Seq(Nat)
    /\ inst \in Nat
    /\ file \in Seq(Lines)
    /\ partial \in BOOLEAN
    /\ gen \in Nat
    /\ db \in [turns: SUBSET Turns, cur: Cursors]
    /\ tx \in SUBSET Turns
    /\ locked \in BOOLEAN
    /\ pc \in {"idle", "scan", "open", "read"}
    /\ cur \in Cursors
    /\ pos \in Nat
    /\ mid \in BOOLEAN
    /\ late \subseteq Nat
    /\ torn \subseteq Nat
    /\ logged \subseteq Ids
    /\ pushed \subseteq Ids
    /\ failures \in Nat

NoCursors == [rowid |-> 0, offset |-> 0, of |-> 0, logOf |-> 0]

Init ==
    /\ messages = <<>> /\ inst = 0
    /\ file = <<>> /\ partial = FALSE /\ gen = 0
    /\ db = [turns |-> {}, cur |-> NoCursors]
    /\ tx = {}
    /\ locked = FALSE
    /\ pc = "idle"
    /\ cur = NoCursors
    /\ pos = 0 /\ mid = FALSE
    /\ late = {} /\ torn = {} /\ logged = {} /\ pushed = {}
    /\ failures = 0

-----------------------------------------------------------------------------
(* The row upsert_turn leaves for each message.                            *)

Stored(turns, id) == \E r \in turns : r.id = id

Upsert(turns, new) == {r \in turns : \A n \in new : n.id # r.id} \cup new

-----------------------------------------------------------------------------
(* OpenCode.                                                               *)

RowId(i) == <<inst, i>>

\* A row is inserted empty, as a user's message, or complete.
MessageAdded ==
    /\ Len(messages) < MaxMessages
    /\ \E k \in 0 .. MaxTokens : messages' = Append(messages, k)
    /\ UNCHANGED <<inst, file, partial, gen, late, db, tx, importVars, torn, logged, pushed, failures>>

\* A complete row stands Lookback rows or more behind row i.
OutOfReach(i) == \E j \in i + Lookback .. Len(messages) : messages[j] # 0

\* The tokens of a row are filled in, or more are added.
MessageUpdated ==
    /\ \E i \in DOMAIN messages : \E k \in messages[i] + 1 .. MaxTokens :
         /\ messages' = [messages EXCEPT ![i] = k]
         /\ late' = IF OutOfReach(i) THEN late \cup {i} ELSE late
    /\ UNCHANGED <<inst, file, partial, gen, db, tx, importVars, torn, logged, pushed, failures>>

DatabaseReplaced ==
    /\ inst < MaxDatabases
    /\ inst' = inst + 1
    /\ messages' = <<>>
    /\ late' = {}
    /\ UNCHANGED <<file, partial, gen, db, tx, importVars, torn, logged, pushed, failures>>

LineBegun ==
    /\ Len(file) < MaxLines
    /\ partial' = TRUE
    /\ UNCHANGED <<messages, inst, file, gen, late, db, tx, importVars, torn, logged, pushed, failures>>

\* A line without tokens is a record of another type.
LineEnded ==
    /\ Len(file) < MaxLines
    /\ \E i \in DOMAIN messages : \E k \in 0 .. MaxTokens :
         /\ file' = Append(file, [id |-> RowId(i), tok |-> k])
         /\ logged' = logged \cup {RowId(i)}
    /\ partial' = FALSE
    /\ UNCHANGED <<messages, inst, gen, late, db, tx, importVars, torn, pushed, failures>>

TokenLogReplaced ==
    /\ gen < MaxLogs
    /\ gen' = gen + 1
    /\ file' = <<>>
    /\ partial' = FALSE
    /\ torn' = {}
    /\ UNCHANGED <<messages, inst, late, db, tx, importVars, logged, pushed, failures>>

-----------------------------------------------------------------------------
(* ingest_event, in a thread of its own.                                   *)

\* Mutant: the push does not wait for the import's transaction.
MayPush_Always == TRUE

\* An insert waits for the write lock, and fails after busy_timeout.
MayPush == ~locked

Push ==
    /\ MayPush
    /\ \E i \in DOMAIN messages : \E k \in 1 .. MaxTokens :
         /\ db' = [db EXCEPT !.turns = Upsert(@, {[id |-> RowId(i), tok |-> k]})]
         /\ tx' = IF locked THEN tx ELSE db'.turns
         /\ pushed' = pushed \cup {RowId(i)}
         /\ logged' = logged \cup {RowId(i)}
    /\ UNCHANGED <<codeVars, importVars, torn, failures>>

-----------------------------------------------------------------------------
(* import_opencode_sources.  A file that is absent is like an empty one    *)
(* that keeps its cursor.                                                  *)

\* The state is read; a database shorter than the cursor is a new one.
StartRowid == IF Len(messages) < db.cur.rowid THEN 0 ELSE db.cur.rowid

StartImport ==
    /\ pc = "idle"
    /\ cur' = [db.cur EXCEPT !.rowid = StartRowid,
                             !.of = IF StartRowid = 0 THEN inst ELSE @]
    /\ pc' = "scan"
    /\ UNCHANGED <<codeVars, db, tx, locked, pos, mid, torn, logged, pushed, failures>>

\* Mutant: only new rows are scanned.
Scanned_NewOnly(i) == i > cur.rowid

\* rowid > max(last_rowid - OPENCODE_DB_ROWID_LOOKBACK, 0)
Scanned(i) == i + Lookback > cur.rowid

\* Mutant: rows without tokens are imported, too.
UsageRows_Empty == {i \in DOMAIN messages : Scanned(i)}

UsageRows == {i \in DOMAIN messages : Scanned(i) /\ messages[i] # 0}

\* One SELECT, and the upserts of the rows parse_opencode_db_message accepts
ScanMessages ==
    /\ pc = "scan"
    /\ tx' = Upsert(tx, {[id |-> RowId(i), tok |-> messages[i]] : i \in UsageRows})
    /\ locked' = (UsageRows # {})
    /\ \/ UsageRows = {} /\ cur' = cur
       \/ \E last \in UsageRows :
            /\ \A i \in UsageRows : i <= last
            /\ cur' = [cur EXCEPT !.rowid = last]
    /\ pc' = "open"
    /\ UNCHANGED <<codeVars, db, pos, mid, torn, logged, pushed, failures>>

\* A log shorter than the offset is a new one.
StartOffset == IF Len(file) < cur.offset THEN 0 ELSE cur.offset

OpenTokenLog ==
    /\ pc = "open"
    /\ cur' = [cur EXCEPT !.offset = StartOffset,
                          !.logOf = IF StartOffset = 0 THEN gen ELSE @]
    /\ pos' = StartOffset
    /\ mid' = FALSE
    /\ pc' = "read"
    /\ UNCHANGED <<codeVars, db, tx, locked, torn, logged, pushed, failures>>

\* Mutant: a line that is skipped does not move the offset.
OffsetAfterLine_Imported(line) == IF line.tok = 0 THEN cur.offset ELSE pos + 1

\* The offset moves even when a line holds no tokens.
OffsetAfterLine(line) == pos + 1

ReadLine ==
    /\ pc = "read"
    /\ pos < Len(file)
    /\ ~mid
    /\ LET line == file[pos + 1]
       IN  /\ tx' = IF line.tok = 0 THEN tx ELSE Upsert(tx, {line})
           /\ locked' = (locked \/ line.tok # 0)
           /\ cur' = [cur EXCEPT !.offset = OffsetAfterLine(line)]
    /\ pos' = pos + 1
    /\ UNCHANGED <<codeVars, db, pc, mid, torn, logged, pushed, failures>>

\* Mutant: the offset moves behind what could not be decoded.
OffsetAfterHalf_Moves == pos + 1

OffsetAfterHalf == cur.offset

\* readline() meets the end of the file: half a line is malformed.
ReadHalf ==
    /\ pc = "read"
    /\ pos = Len(file)
    /\ partial
    /\ ~mid
    /\ mid' = TRUE
    /\ cur' = [cur EXCEPT !.offset = OffsetAfterHalf]
    /\ UNCHANGED <<codeVars, db, tx, locked, pc, pos, torn, logged, pushed, failures>>

\* The line was finished meanwhile: its other half is malformed, too.
ReadTail ==
    /\ pc = "read"
    /\ pos < Len(file)
    /\ mid
    /\ pos' = pos + 1
    /\ mid' = FALSE
    /\ torn' = torn \cup {pos + 1}
    /\ UNCHANGED <<codeVars, db, tx, locked, pc, cur, logged, pushed, failures>>

Return ==
    /\ pc' = "idle"
    /\ locked' = FALSE
    /\ cur' = NoCursors
    /\ pos' = 0
    /\ mid' = FALSE

\* End of the file: set_opencode_import_state and COMMIT
CommitImport ==
    /\ pc = "read"
    /\ pos >= Len(file)
    /\ ~partial \/ mid \/ pos > Len(file)
    /\ db' = [turns |-> tx, cur |-> cur]
    /\ Return
    /\ UNCHANGED <<codeVars, tx, torn, logged, pushed, failures>>

\* A file that cannot be read or decoded, or the end of the process
FailImport ==
    /\ pc # "idle"
    /\ failures < MaxFailures
    /\ failures' = failures + 1
    /\ tx' = db.turns
    /\ Return
    /\ UNCHANGED <<codeVars, db, torn, logged, pushed>>

ImportStep ==
    \/ StartImport \/ ScanMessages \/ OpenTokenLog
    \/ ReadLine \/ ReadHalf \/ ReadTail \/ CommitImport

OpenCodeStep ==
    \/ MessageAdded \/ MessageUpdated \/ DatabaseReplaced
    \/ LineBegun \/ LineEnded \/ TokenLogReplaced

Next == OpenCodeStep \/ Push \/ ImportStep \/ FailImport

Spec == Init /\ [][Next]_vars

\* auto_import_loop starts an import again and again, and each runs on.
FairSpec == Spec /\ WF_vars(ImportStep)
-----------------------------------------------------------------------------
(* Properties.                                                             *)

(***************************************************************************)
(* A message is missed for one reason only: it was filled in when a        *)
(* complete message stood Lookback rows or more behind it.  Any other has  *)
(* its last tokens in `turns`, unless the token log or a push reported the *)
(* message as well, or is still within the reach of the next scan.  For a  *)
(* database that did not take the place of one with fewer rows unnoticed.  *)
(***************************************************************************)
NothingMissed ==
    db.cur.of = inst =>
        \A i \in DOMAIN messages :
            \/ messages[i] = 0
            \/ i \in late
            \/ i + Lookback > db.cur.rowid
            \/ [id |-> RowId(i), tok |-> messages[i]] \in db.turns
            \/ RowId(i) \in logged /\ Stored(db.turns, RowId(i))

(***************************************************************************)
(* Every line before the saved offset is in `turns`, or was read in two    *)
(* halves: neither failures nor a line that is half written at the end of  *)
(* the log take the offset past a line that was not read                   *)
(* (read_jsonl_after).                                                     *)
(***************************************************************************)
LinesBehindOffset ==
    db.cur.logOf = gen =>
        /\ db.cur.offset <= Len(file)
        /\ \A j \in 1 .. db.cur.offset :
              file[j].tok = 0 \/ j \in torn \/ Stored(db.turns, file[j].id)

(***************************************************************************)
(* A push that was answered stays, whatever import was under way then and  *)
(* whether it commits or fails (ingest_event, connect).                    *)
(***************************************************************************)
PushesStay == \A id \in pushed : Stored(db.turns, id)

(***************************************************************************)
(* The tokens OpenCode fills in within reach are imported in the end,      *)
(* although imports fail; unless they change again or the database is      *)
(* replaced before.                                                        *)
(***************************************************************************)
MessagesImported ==
    \A i \in 1 .. MaxMessages : \A k \in 1 .. MaxTokens : \A n \in 0 .. MaxDatabases :
        /\ inst = n /\ db.cur.of = n
        /\ i \in DOMAIN messages /\ i \notin late /\ messages[i] = k
        ~> \/ inst # n
           \/ i \in DOMAIN messages /\ messages[i] # k
           \/ [id |-> <<n, i>>, tok |-> k] \in db.turns
           \/ <<n, i>> \in logged /\ Stored(db.turns, <<n, i>>)

(***************************************************************************)
(* Every complete line of the token log is read in the end, but for those  *)
(* read in two halves; unless the log is replaced before.                  *)
(***************************************************************************)
LinesImported ==
    \A j \in 1 .. MaxLines : \A n \in 0 .. MaxLogs :
        gen = n /\ db.cur.logOf = n /\ Len(file) >= j
        ~> (db.cur.logOf = n /\ db.cur.offset >= j) \/ j \in torn \/ gen # n

(***************************************************************************)
(* Whichever file OpenCode reports a call in, the import gets to it         *)
(* (import_opencode_sources reads the one after the other).                 *)
(***************************************************************************)
ReportsImported == MessagesImported /\ LinesImported

(***************************************************************************)
(* pending-tasks.md:361-362: the lookback is there "so recently updated    *)
(* message rows are reprocessed after the cursor advances".                *)
(***************************************************************************)
UpdatedRowsReprocessed ==
    \A i \in 1 .. MaxMessages :
        i \in DOMAIN messages /\ messages[i] # 0 ~> Stored(db.turns, <<0, i>>)
=============================================================================
