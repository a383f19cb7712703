# Token Lens in TLA+

Token Lens collects what coding agents spend. It reads the local log database of
Codex and the database and token log of OpenCode, keeps one row per model call in
`data/analytics.sqlite`, and shows totals in a web dashboard and in a small desktop
window. This directory models the parts of it where order, failure and concurrency
decide whether those totals are right.

Source paths below are relative to the repository.

## 1. The system

| Component | Code | State it keeps | Operations |
|---|---|---|---|
| Codex import | `app/services/import_service.py` 22-209, `app/sources/codex/` | `codex_import_state` (cursor), `turns`; `max_scanned`, pending requests during a call | `import_codex_logs`: retention, archive, repair, scan, payload back-fill, commit |
| Analytics store | `app/storage/repositories.py`, `schema.py`, `connection.py` | `data/analytics.sqlite`: `turns`, `raw_logs`, cursors, archive and retention state | `upsert_turn`, `backfill_turn_request_payloads`, `insert_raw_log`, get/set cursors, migrations |
| Raw log archive and retention | `app/services/raw_log_retention.py`, `archive_raw_logs` | `raw_logs`, `raw_log_archive_state`, `raw_log_retention_state` | `apply_raw_log_retention`, `_clear_old_bodies`, `archive_raw_logs` |
| Import runs | `app/services/data_refresh.py`, `app/api/server.py`, `handlers.py` | `IMPORT_LOCK`, `STATE_LOCK`, `IMPORT_STATE` | `run_import`, `run_import_capture`, `refresh_dashboard`, `auto_import_loop` |
| OpenCode import | `import_service.py` 212-271, `opencode_ingest.py`, `app/sources/opencode/` | `opencode_import_state` (last row id, byte offset, size) | `import_opencode_sources`, `ingest_opencode_events` |
| Codex limits | `codex_account_service.py`, `codex_app_server_client.py`, `codex_rate_limits.py` | shared client and its process, snapshot cache | `read_codex_limits`, `request`, `close` |
| Analytics queries | `app/storage/queries.py`, `query_params.py`, `payloads.py`, `analytics_service.py` | none | read-only aggregation |
| Mini client | `desktop/mini_client.py` | tabs and their tables, `data_version`, worker, UI queue, recovered server, settings and their backup, what was signalled | refresh, polling, tab switch, recovery, settings load and save, signals |
| Web dashboard | `web/app.js`, `web/js/` | `refreshPromise`, `dataVersion`, `lastDashboard`, filters and tab, dialogs | refresh, poll, change filters, open details |
| Transcripts, configuration, logging, launchers, shims | `session_transcript.py`, `thread_names.py`, `core/`, `static_server.py` | files | look-ups and file I/O |

How they interact: Codex and OpenCode append to files of their own while Token Lens
reads them. A request (`POST /api/refresh`, `POST /api/import`) is served by a thread of
its own; it and the optional background thread call `run_import`, which serialises them
with `IMPORT_LOCK`, imports Codex and then OpenCode, and publishes its status in
`IMPORT_STATE` under `STATE_LOCK` for readers that hold no import lock. The importers
share the analytics database with the readers through SQLite transactions. Pushed
OpenCode events enter through `POST /api/opencode/events` without the import lock. Both
front ends poll the server and cache what it answered.

What is hard in it:

* **Two rows describe one call.** Codex logs usage telemetry, an estimate and a
  response event, in any order and across imports; `upsert_turn` merges them by turn and
  counts, by synthetic or real response id, and by log id, with three different SQL
  conflict rules. Whether the totals depend on where one import ended is not visible
  from any single call.
* **Crashes.** An import is one transaction, but retention commits batch after batch in
  front of it, and the process may die between any two.
* **The log moves.** Codex writes during the scan; cursors must stand for what was
  scanned, not for what is there.
* **Things change between starts.** Parser version, retention window, calendar month.
* **A child process that answers when it likes.** Time-outs, restarts, late answers, and a
  client that may be replaced while a request is about to use it.
* **Screens that outlive their question.** Tabs and filters change while the request that
  is to fill them is under way, and a version that is already known keeps the next poll
  from asking again.
* **Shared state without one owner.** The import lock, the limits cache, the status read after it is
  released, failures that skip the code which would have reset the state.

## 2. Modules

| Module | Models | Composes |
|---|---|---|
| `TurnStore` | `upsert_turn`, `backfill_turn_request_payloads`: operators on the `turns` table | |
| `UsageLedger` | the abstract specification of the Codex import: what is counted is a function of the log prefix | |
| `CodexImport` | `import_codex_logs`, Codex writing, parser upgrades, failures | `TurnStore`; refines `UsageLedger` |
| `RawArchive` | retention, archiving, months, window edits, failures between batches | |
| `SerialImports` | the abstract specification of the import runs: one importer, without threads and locks | |
| `ImportRuns` | `run_import` and the threads that call it | refines `SerialImports` |
| `OpenCodeImport` | `import_opencode_sources`, `ingest_event`, and OpenCode writing the files they read | |
| `CodexLimits` | `read_usage_limits`, the client requests share, and the app server it talks to | |
| `MiniClient` | worker, poll timer, queue of callbacks, tabs and recovery of the mini client | |
| `MiniSettings` | its settings file and backup | |
| `MiniSignals` | `maybe_signal`: when it signals a costly call | |
| `WebDashboard` | the page's refreshes, checks, filters and dialogs | |
| `UsageQueries` | the queries over `turns` and the dashboard made of them | |
| `MC_*` | the values TLC runs with, and how much of several histories one instance has | the module each is named after |
| `MC_Readers` | the five modules above in one instance | all five, the queries through `MC_UsageQueries` |
| `*_proofs` | theorems and their proofs | the module each is named after; `MiniClient_proofs` also `MiniSettings` and `MiniSignals` |
| `Readers_proofs` | the page's theorems, and those of all readers side by side | `MC_Readers`, `WebDashboard` and the proofs of the other readers |

### TurnStore and CodexImport

A row of `turns` keeps `sid` (`source_log_id`), `rid` (`response_id`), `turn` (thread,
turn and model together), `tok` (the three counts together), `event` (`event_json` is not
NULL) and `req` (the log row whose payload is in `request_json`). The merging UPDATE, the
ON CONFLICT clause and OR REPLACE are three branches of `UpsertTurn`; `UpsertRaises`
says when SQLite raises `IntegrityError` instead. NULL is an id that equals no id.

A log row is what the parsers make of its body: noise, a request, usage telemetry, a
post-sampling estimate, a response event (with or without an id, with or without the
request in it), or text that only *quotes* telemetry, which a former parser took for
usage. `db` is what readers see, `tx` what the import's connection sees. The
actions are the steps of `import_codex_logs`: `StartImport` (retention, which commits by
itself), `ArchiveRawLogs`, `RepairAndOpenScan`, one `ScanRequest`, `ScanUsage` or
`ScanSkipped` per row, and `Commit` (payload back-fill, cursor, commit). `AbortImport` is
an exception or the end of the process at any of these points. `CodexWrites` may come
between any two steps. The scan's SELECT is one statement and so keeps its snapshot:
`limit` is fixed when it opens. The archive's SELECT is an earlier statement and sees
the log as it was then.

Retention is reduced here to a log id that only grows; its real form is `RawArchive`.

### UsageLedger

For every prefix of the log `Accounts` says what must be counted, with no store and no
order of statements: the last report of every id, every report without an id, and the
last usage row of a turn unless a later report with a new id has the same turn and
counts. `CodexImport` with `ledger <- Counted(db.turns)` implements it: every commit
leaves exactly the accounts of the prefix before the cursor, whatever imports, failures
and interleavings led there.

### RawArchive

Time is a month, as the code's `year * 12 + month - 1`; a cutoff is the first day of a
month. `source[i]` is the month of log row `i`; late rows are allowed. `StartImport`
computes the cutoff and compares it with the recorded one; `ClearBatch` is one UPDATE and
its commit; `RecordCutoff` ends the loop; `ArchiveRawLogs` and `CommitImport` are the
archive step within the import's transaction; `FailImport` is a failure at any point.
`OwnerEditsWindow` changes `raw_log_body_retention_months`.

### ImportRuns

A thread goes `idle/asleep -> waiting -> warnings -> codex -> opencode -> publish ->
release (-> status -> load)`. `source_warnings` may raise while the lock is held and
before any status is set; the import of a source may raise and is caught; the process
may die. A refresh reads `import_status()` and loads the dashboard *after* the lock is
released. `mode` is the sign of `auto_import_seconds`. `asked` and `overtaken` are
history: what had been logged when a refresh was asked for, and whether a later run
began before the status was read.

### SerialImports

What `data_refresh.py` promises to those who read `IMPORT_STATE` and the analytics: runs
follow one another, each imports Codex and then OpenCode, a source that fails changes
nothing and does not stop the other one, and the published state is that of the run under way or of the
last one. `ImportRuns` implements it with `stage` as the place of the thread that imports
and `errors` as its failures (`Serial`, `ImplementsSerial`): entering the lock, warnings that
raise, leaving the lock, reading the status and loading the dashboard are stutters.

### OpenCodeImport

`messages[i]` are the tokens of row `i` of OpenCode's message table, 0 while the row is
empty or when it is not a call at all; OpenCode inserts rows, fills them in later
(`MessageUpdated`) and may start over with a new database or a new token log. `file` are
the complete lines of the log and `partial` says that half a line follows them: offsets
count lines, and half a line is the one thing `readline()` can return that JSON cannot
decode. A row of `turns` is a message id and its tokens; the last writer wins.
`StartImport`, `ScanMessages`, `OpenTokenLog`, `ReadLine`, `ReadHalf`, `ReadTail` and
`CommitImport` are the statements of `import_opencode_sources` between which OpenCode, a
push or a failure may come. The import holds SQLite's write lock from its first upsert on
(`locked`); before that a push can commit, and the import sees it. `late`, `torn`,
`logged`, `pushed` and the identity of the files are history: what was filled in out of
reach, what was read in two halves, which messages the log or a push reported.

### CodexLimits

Each request is a thread `idle -> lookup -> client -> (close ->) request -> handshake ->
wait -> snapshot -> command -> idle`; `detach`, `close` and `own` are the way of a request
whose configuration has limits switched off or a client of its own, `fail` and `copy` that
of an exception, an error or a cache hit. `client` and `clientLock` are `_CLIENT` and
`_CLIENT_LOCK`; `clients[c]` is a client object with its lock, its process and what is on
the way in both directions. The pipe, the reader thread and its queue are one sequence of
lines; a server that exits keeps what it had written. A snapshot is the usage the
account had when the server read it, and the command that server was started with.
The server is external: it answers in order, with a snapshot or an error, sends
notifications, exits, or does nothing.

### MiniClient

The Tkinter thread, the worker and the server share the attributes of `MiniClientApp`, and
every statement of one may fall between two of another. A worker is a request snapshot
(`job`): `ReadVersion` and `ReadRows` are its HTTP requests, in the order of `poll_once`
and of `/api/refresh` (version first) or of `refresh_once` (rows first), `Deliver` and the
ends in error are its callbacks in `uiQueue`. `SwitchSource`, `RaiseLimit` and
`PressRefresh` are the handlers that call `refresh`, which does nothing while a worker is
running; `FinishWorker` sets the poll timer again. A table keeps whose rows it holds,
the version they were read at, the limit they were asked with, and whether they are tasks.
`ConnectionRefused`, `Recovered` and `RecoveryFails` are `run_with_api_recovery`; a child is
single while it lives, and only one process can claim the port.

`excused` remembers why a table may be wrong: a query overtaken by a tab switch or a
raised limit (`refresh` was dropped), rows older than their version (`refresh_once`), an
operation or a rendering that failed with the version known, and the Refresh button,
whose answer is a dashboard: without a `task_mode` its `tasks` are buckets of time, which
`render_rows` lists like tasks. The first poll that finds a new version, or a tab switch,
ends each of them.

### MiniSettings

Settings are numbers in the order they were chosen. `primary` and `backup` are missing,
corrupt or whole. A load is one action up to what it writes; each of the two writes of
`save_mini_settings` is one, and a death during a write leaves the file as it was
(`Torn`: a temporary file replaces it). `Close` saves without waiting. `LoadUnopened` and
`LoadNeither` are the two ways a file that is there cannot be opened: in the first nothing
is written unless the backup could be read, in the second (the file damaged *and* the backup
not to be opened) the defaults win, and what the backup holds counts as lost.

### MiniSignals

A row is its task and `Total / Call`. `MaybeSignal` is `maybe_signal`, called whenever rows
are rendered; in between calls are added, and the limit, the threshold, the check box and
the tab change. A limit hides rows and shows them again. Five variables are what the code keeps
(`seen_signal_rows`, `signal_row_values` and three more). The histories are not: `lowest` is the least
value a row had on screen, rendered or not, and `highest` the greatest threshold, both since the last signal;
`loud` is who was over the threshold when last shown, however long ago. The code knows the last render alone, so
`SignalsOnce` compares it with more than it remembers.

### WebDashboard

`loading` is `refreshPromise` with what the server has read for it; the server takes the
version first. `RefreshPage` returns the promise there is, whatever it was asked for.
`ShowAnswer` renders, and takes the task mode back from the dashboard. A check
(`AskState`, `StateRead`, `StateAnswers`) reads the version at the server and compares it when the
answer is there, with the version the page has by then. Ranges are long or
short, since only short ones have separate tasks.

The dialogs of a bucket and of a call are two sets of variables, because they keep different things: the
bucket's has a table (`bucketRows`) and what it is sorted from (`bucketCache`), which opening it does not empty;
the call's has what it draws (`detail`) and the title above the payload (`payloadTitle`), which neither
opening nor closing it clears. A call may be opened from the page or from a bucket's table. Requests for
details are counted per subject, and an answer is drawn in whatever dialog is open then. `excuse`, `answered`
and `mixed` are history: a filter changed during a refresh or a refresh that failed with its version known, an
open bucket that was answered, and the subjects whose answers were awaited when another dialog of their kind was
opened. `PageIsTrue` excepts by them what the code lets happen, and nothing more: a dialog may show one of those
subjects and no third, and the call's details and the title above its payload are of one call in any case but
that of `payloadTitle` outliving the details. Before the first answer of a bucket its table may be that of any
former one, if it is sorted: `bucketRows` is then only known to be what `bucketCache` is.

### UsageQueries

`rows` is `turns` by `source_log_id`, `rawLog` is `raw_logs`. A query is an operator on them: which rows it
selects (`Scoped`, `HasUsage`) and how it sums them up (`GroupBy`, `AddUp`, `Totals`); a row whose parts
contradict its total is `broken`, which the usage clause refuses as it does one without tokens. The `dashboard`
handler is six actions, because each SELECT has a snapshot and a `time.time()` of its own; the Codex tasks are two of
them (`ReadTasks`, `ReadRawOnlyTasks`). Meanwhile imports act as they do in `CodexImport`: `UpsertRow` stores a row
or rewrites all of one in either direction, its place in the table included, `DeleteRows` is the repair, and `ArchiveRow` adds
to the raw log. `rewritten` is history: a row lost or changed its usage, but for more, since the version was read. Periods and ranges are
counted from an epoch, so a range begins in the middle of a period as the code's do.

### MC_Readers

`MC_UsageQueries` has the rows TLC may store. The readers of the analytics share no variable: the server they ask is the version each
module has. `reader` is chosen at the start and only that one moves, the others rest in
one initial state. Each safety property of the run is that of one module; `ReadersCatchUp` asks of
the client and of the page, whichever moves, what their own modules ask (`ClientCatchesUp`,
`PageCatchesUp`), as `ReportsImported` does of the two files of OpenCode.

## 3. Runs

| Run | Question | Bounds |
|---|---|---|
| `ledger` | Do the counts depend on anything but the log? Do payloads and counts stay with their turn? Can a row make every import fail? | 4 log rows out of 9, two turns, two counts, one response id, one failed import |
| `repair` | Does the repair remove what it can judge, and is every row scanned in the end? | 3 rows out of 7, with quoted ones; both parsers; retention reaching past every row |
| `history` | Does the repair judge *every* synthetic row, as the import contract says? (It does not.) | as `repair`, no retention |
| `retention` | Are current bodies kept and old ones cleared, through batches, late rows, a narrowed window, months and failures? | 4 rows, batches of 2, 3 months, 2 failures |
| `window` | Does the archive retain bodies only for the configured window? (Not if it was widened and narrowed again.) | 3 rows, 2 months |
| `threads` | Do the threads act as one importer would? Is the published status true, are refreshes fresh, does everyone get the lock and does every row get in? | 2 handlers and the background thread, 1 row per source, 1 failure |
| `opencode` | Is a message missed only when it was filled in out of the lookback's reach? Does a push survive every import? Does the offset pass a line that was not read? Is what is in reach imported in the end? | 2 rows and no token log, or 1 row and 2 lines; 2 token values, a second database or log, 1 failure, lookback 1 |
| `lookback` | Are recently updated rows reprocessed? (Not those further back than the lookback.) | 2 rows, lookback 1 |
| `limits` | Is an answer ever another request's? Is every process greeted before it is asked, and whose is it? Do limits stay once they were shown? Does every request end? | 2 requests at once or in turn, 4 configurations, 1 edit, 1 server that exits, 1 notification |
| `strays` | Is there only the one process of the shared client? (Not if a client is replaced while a request is about to use it.) | 2 requests, 1 edit of the idle time |
| `readers` | Does each reader show what it says it shows, once, in one piece, and in the end? | client: 2 tabs, 2 versions, 2 inputs, 1 fault; settings: 3 choices, 4 accidents; signals: 2 tasks, 3 values, 3 thresholds, 2 versions, 3 renders; page: 2 tabs, 2 versions, 2 clicks, 1 failure, 2 buckets, 2 calls; queries: 2 chats, tables of 0 or 1 row to begin with and up to 3 rows of 5 kinds, 4 raw rows, 2 changes, periods of 2 units |
| `stale` | Does the mini client show stale rows silently? (Yes, if an import commits between the two requests of a refresh.) | 2 tabs, 2 versions, no input, no fault |

Why the bounds are enough. `upsert_turn` relates a new row to at most two stored ones (the
row with its id and the row of its turn and counts), and a fourth row shows what a later
import does to the result; two turns and two counts tell apart "same turn", "same counts"
and neither. One failed import is a rollback at every point of every import of the run;
a second one meets the same committed tables. `retention` has a full batch, a partial one
and an empty one, a failure between them and another after the restart; the month turns
twice, once within an import and once between two. In `threads`, two handlers and the
background thread give every pair of callers; a failure may be any one of the warnings,
a source or the process. With a lookback of one row, two rows are one in reach and one
out of it; the code's 100 rows differ only in how far that is, and the proofs hold for
any lookback. A third token value would be one more update of the same kind. Two lines
are one before the offset and one behind it. In `limits`, a second request meets what the
first left behind (a late answer, a dead process, an old snapshot) or overlaps it at
every point; three client objects are the shared one, its successor and a request's own. In `opencode` a
history has either two messages or a token log, because the import reads the two files
one after the other with a cursor each; a message that both report is in the second
kind. In `readers`, one change of the analytics is before, between or after any two reads
of a request, two inputs are a switch and the way back, and two clicks open one dialog after another, sorting
and closing being free; two changes of the tables are a row stored, or rewritten, and rewritten back or deleted; the four accidents of the
settings are, among others, a damaged file, a failed repair, a death in the next save and
a backup that cannot be opened. Every bound is a constant whose name begins with `Max`, and
appears only in guards of the environment's and the failures' actions. Symmetry is not
used, because some runs check liveness.

Deadlock is checked in every run but `limits` and `strays`, where nothing has to happen when
nobody asks for limits any more, and `readers` and `stale`: a reader whose bounds are
used up may rest.

### Fairness

* `CodexImport`, `RawArchive`: `WF(ImportStep)`. `auto_import_loop` starts an import
  after every interval whatever became of the last one, and no step of an import waits
  for anything. `AbortImport` and `FailImport` are bounded, which stands for "imports do
  not fail for ever"; nothing makes them happen.
* `OpenCodeImport`: `WF(ImportStep)`, for the same reason. Nothing is assumed of OpenCode,
  of pushes or of failures; half a line may stay half for ever.
* `CodexLimits`: `WF` of each request's own steps and, apart, of its time-out, since the clock
  passes the deadline however many lines the server sends. Requests are bounded, so
  both kinds of locks become free for good and weak fairness is enough to get them.
* `ImportRuns`: `WF` of each thread's steps (operating-system threads run on) and of the
  background thread's waking. `SF` of taking the lock: the lock is released between two
  runs for at least the interval the background thread sleeps, and requests come one
  at a time from a person or a poll; `threading.Lock` itself promises no order. The
  code as it is gives no more: under weak fairness alone two handlers could overtake a
  third for ever. Nothing is assumed of clients, of sources or of failures.

* `MiniClient`: `WF` of the worker, of the event loop, of a started server coming up (it may
  exit instead, which is a fault and bounded) and of the retry window passing. HTTP requests
  and `wait_for_api` have time-outs. `SF` is not needed: there is one worker.
* `WebDashboard`: `WF` of a request's steps, which has a time-out of 30 seconds, of the check,
  which an interval repeats every five seconds, and of details. A check is skipped while
  a request is under way; since clicks are bounded these get fewer. Nothing is assumed of
  users, imports or failures in either, and nothing in `MiniSettings`, `MiniSignals` and
  `UsageQueries`.

### What the code does otherwise than its documents say

* **`history`.** `codex-usage-import-contract.md` wants every existing synthetic row
  revalidated against the archive *or the Codex log row*. `repair_codex_usage_rows` only
  joins the archive, and the first import places the archive cursor without archiving.
  What a former parser misread in the first import stays in the totals.
* **`window`.** `raw-log-archive-plan.md` promises bodies only for the configured window.
  The recorded cutoff is compared with a computed one, so after the window was widened
  and narrowed again in one month nothing is cleared until the month turns.
* **`lookback`.** `pending-tasks.md` has the lookback reprocess *recently updated* rows. It
  goes back 100 row ids from the last imported row, whatever was updated: a message that
  is completed after the 100th one behind it stays out of the totals.
* **`strays`.** `architecture.md` has the service keep one reusable process. A request is given
  the shared client under `_CLIENT_LOCK` and enters it afterwards; another request whose
  configuration differs may replace and close it in between. The first one then starts
  a process on a client nobody refers to, which neither the idle check nor `atexit` closes.

* **`stale`.** `pending-tasks.md` has mini and web refreshes not silently show stale imported
  rows. `refresh_once` asks for the rows and then for the version: an import between the
  two is missing from the rows and known by the version, so no poll brings it. The next
  import with another version, or a tab switch, ends it. The page is not concerned: its
  dashboard names the version that was read first (`PageIsTrue`).
Six more disagreements were read in the source while the readers were modelled. They have no run of
their own; the properties of `readers` except them, or say what the code does:

* `app.js:56` hands the refresh under way to whoever asks for another, the tab-change listener
  (175-178) too. A tab selected during a refresh keeps the rows of the former one, and no poll sees a
  difference. `pending-tasks.md:662-663`: "Route dashboard, refresh, bucket detail, and polling through
  the active source." `PageIsTrue` and `PageCatchesUp` except it as `coalesced`.
* `detail-modal.js:291` draws an answer in whatever dialog is open when it comes, so a call's dialog may show
  another call whose own was closed. `call-detail-modal-plan.md:7-8` has the modal show the detail "for the selected
  call". `PageIsTrue` excepts it by `mixed`.
* `tasks.js:256-272` empties a bucket's table and keeps what it is sorted from (108-122): a click on a header before
  the answer, or after the request failed, draws the former bucket's tasks under the new title.
  `pending-tasks.md:1273`: "listing tasks inside the selected candle". `PageIsTrue` speaks of a bucket's rows once it was answered.
* `mini_client.py:1524-1545` keeps the values of the last render alone. A row over the threshold that a limit
  hid at one render counts as having crossed when it is back, and `seen_signal_rows` makes no difference.
  `pending-tasks.md:610-615`: "signal only for newly observed rows over the threshold", "Track per-row signal identity
  instead of re-alerting on old visible rows." `SignalsOnce` asks of a signal that some row was under a threshold *or
  out of sight* since the last one, which is what the code keeps, not what the plan wants.
* `queries.py:1191-1208` makes the version of `turns` alone: a raw log row that is archived changes the list of chats
  without usage under the same version. `pending-tasks.md:1191-1196`: "Poll the state endpoint from the
  browser and refresh views on change." `DashboardAgrees` asks of that list only that no chat is in both.
* `queries.py:493-497` gives the sum of a chat's rows as its total and `tokens_used` beside it.
  `source-analytics-query-contract.md:37-42` wants `tokens_used` when that is greater. Later entries of
  `pending-tasks.md` (205, 1500-1506) and `tests/test_api_contracts.py` (692-756) want what the code does: the contract is
  out of date, and `DashboardAgrees` says what the code and the tests say.

### What the models show that no document speaks of

`Accounts` says these things as the code does them:

* An estimate and a response event of one call with different counts both remain, and
  both are counted. Telemetry logged after its event is counted again.
* An estimate may take over the usage row of its turn when the counts are equal.
* A request scanned in one import and a usage row scanned in a later one never meet; a
  later usage row with the same synthetic id sets `request_json` to NULL again.
* Deleting a misread synthetic row also loses the genuine one it had overwritten.
* A refresh may report the status of a run that began after its own (hence
  `overtaken` in `StatusAgrees`); if the warnings raise, a request ends without answer.
* A line of the token log that is finished while the import stands in the middle of it is
  lost: both halves are malformed, and the next line moves the offset behind them (`torn`).
* If the database and the token log, or a push, report one message differently, the row
  keeps what was stored last.
* A database or log that was replaced and has grown past the cursor is taken for the old one.
* Two requests for limits that overlap may store their snapshots in the other order, or a
  snapshot of one command under another; the cache then serves the older one as fresh.
* A tab of the mini client shows the rows of another source, under that source's version, when
  it was selected while a worker was under way, until a new version or another switch.
* The Refresh button of the mini client fills its table with buckets of time.
* A filter of the page changed during a refresh keeps the old answer until the next version;
  so does one whose refresh failed, and a mode may be changed back by a late answer.
* The title above a call's payload stays what it was for the former call until the next is
  answered, for good if its request fails: `openTaskDetail` and the close event leave it.
* An upsert may rewrite a row's tokens, time or thread and the repair may delete rows; where the
  number and the sum come back to what they were, the version does not tell, and a dashboard
  read across it is a mixture under a version that stays (`rewritten` in `DashboardAgrees`).
* The version the readers compare covers thread names as little as raw logs.
* The first, partial period of a range is in its totals but not in its chart. A thread that has
  only refused rows is neither a task nor a raw-only one.
* If the settings file is damaged and its backup cannot be opened at that moment, the next
  save writes the defaults over both.
* `python -m app.importer` imports in another process, outside `IMPORT_LOCK`.

## 4. Proofs

Every theorem holds for all values of the constants, under the named assumptions of the
modules (types of the constants, positive batch and window, no negative tokens, the
background thread is not a handler).

* **`CodexImport_proofs`**: `TypeCorrect`, `TurnsComeFromLog`, `NoPoisonRow`,
  `RequestsReachRows`, `RowsAreRepaired` and the refinement `LedgerImplemented`. `RowsFromLog`
  speaks of `db` only, and is not inductive: the invariant says of `tx` with `scanned`, and
  of `db` with its cursor, that every row is one the scan could have stored
  (`StoreInv`). The heart of it is a lemma on `UpsertTurn`: a row's `sid` is
  behind the scan, response ids are unique, and rows that are still open to an event
  have the usage id of their turn, so at most one of them fits a new event. From this follows that neither
  conflict of `UpsertRaises` can arise.

  `ScanInv` adds what the open scan has done: every request behind the old cursor is kept,
  and every synthetic row with an archived body reparses, which the repair establishes and
  no upsert undoes. The two action properties are what a commit makes of it.

  `LedgerImplemented` proves `Spec => ImplementsLedger` for every log without quoted
  telemetry (`NoQuotes`, the logs `UsageLedger` speaks of: a former parser counts quoted
  text, the current one removes it again). `UsageLedger` says what is counted in terms of
  the log alone; `Books` relates that to the rows of `turns`, for the store as committed
  and as the transaction sees it: a row with an event and an id stands for the last report
  of its id; the rows without an event are the usage rows still open, one for one; rows
  without an id are as many, by turn and counts, as the reports without one. One lemma for
  each kind of log row shows how one more row moves both sides (`OpenAfterUsage`,
  `OpenAfterReport` on the log; `BooksAfterUsage`, `BooksAfterReport`, `BooksAfterSkip` on
  the store): `upsert_turn` replaces exactly the rows whose place the new report takes.
  `NothingInvalid`: on such logs the repair deletes nothing. `BooksMeanLedger` reads
  the abstract accounts off the books, so `Commit` is `Account`, `CodexWrites` is `LogGrows`
  and every other step a stutter, a failed import included.
* **`RawArchive_proofs`**: `TypeCorrect`, `CurrentMonthIsKept`, `ArchiveHasNoGap` for every
  sequence of window edits; `RecordIsHonoured` and `WindowIsKept` under `Narrowing` (no edit
  widens the window), which is the condition the `window` run shows to be needed. The
  inductive invariant relates the cutoff of the running import to the recorded one and
  to what the batches have already cleared (`last`).
* **`ImportRuns_proofs`**: `TypeCorrect`, `ImportsAreSerialised`, `StatusIsOwn`,
  `RefreshesAreFresh` and the refinement `OneImporter`, for any number of threads. `LockInv`: whoever is between the warnings and the release holds the
  lock. `StatusInv` and `FreshInv` carry what a thread knows from its import, across the
  release, to the moment it reads the status or the data.

  `OneImporter` proves `Spec => ImplementsSerial`. The mapping picks the thread that imports with
  `CHOOSE`; that there is at most one is `LockInv`, so a step of it is the step of `SerialImports`
  at the same stage (`MappingSound`), and a step outside those stages leaves alone what is mapped
  (`QuietStep`). What had to be added to the invariant is that who begins a run has no failures
  of a former one on record (`NoneFailedYet`).

* **`OpenCodeImport_proofs`**: `TypeCorrect`, `NothingIsMissed`, `LinesAreRead`, `PushesAreKept`,
  for every lookback and any number of messages, lines, files and failures. The
  invariant asks the same of the committed pair of cursors and rows and of the import's
  own pair (`MessagesSaved`, `LinesSaved`), so that a commit only copies and a failure
  only forgets. `MessagesSaved` adds that the cursor stands on a complete row: without it
  a row could be filled in out of reach of the cursor and not be late. `LockInv` says
  that the import without the write lock sees what is committed, which is why a push
  cannot be undone by it.

* **`CodexLimits_proofs`**: `TypeCorrect`, `AnswersOwn`, `Handshakes`, `Owned`,
  `StaleLimitsShown`, for any number of requests, clients, edits, notifications and
  servers that exit. None of the properties is inductive. `ClientSound`: a client gives each
  id once, its queues hold only ids it has given, and it is initialized only towards a
  process that was greeted. `CallSound` ties a waiting request to its client: it holds
  the client's lock, waits for the id given last, and whatever answers that id is
  no older than the request and of the client's command, which is the request's own.
  `OwnerInv` accounts for every live process; what keeps it is that a request which is given
  the shared client finds it either still shared, or being closed by another request, or
  astray. `CacheInv` says that the cache is of a command that has answered.

  `OneProcess`, which the run `strays` refutes, needs both an edit of the configuration and two
  requests at once: `OneProcessUnedited` proves it for any number of requests as long as
  nobody has edited the configuration, `OneProcessInTurn` for any number of edits if there
  is one handler. By `OwnerInv`, what runs on when no request does is in the shared client
  or in one that went astray (`OnlyAstray`). Only a client that is replaced goes astray, which takes a
  configuration it does not fit (`Unedited`), and only if another request was given it before.

* **`MiniClient_proofs`**: of the client, `ClientTypes`, `TabsKeepTheirOwn`,
  `SingleFlightRecovery`, `PollsAreHonest`, for any sources, inputs and faults. A callback carries no tab, so
  `TabsShowTheirOwn` rests on what the queue can hold (`QueueShape`: what one worker left, and
  its last callback at the end, while `worker_running` is set) and on whom the worker works
  for (`InStep`: the tab that is shown, unless it was overtaken). Whoever starts a worker finds `worker_running` cleared and
  the queue with it drained. For `OneRecoveryChild`, `ChildInv` adds that a server of the
  client's own is a child that lives.

  `PollsHideNothing` is the safety half of `ClientCatchesUp`: when the next poll is going to find
  its version unchanged, nothing is missing. Its invariant (`KnownInv`) follows the version from
  the request to the table: a poll has read it before its rows (`ReadInOrder`), its callback says
  so (`AnswerInOrder`), and from then on the table holds what there was at `dataVersion`, or has
  an excuse, or rows of a limit just raised are on their way (`ShownAsKnown`,
  `LimitPending`); if those fail to come, `set_error` leaves the excuse.

  Of its settings, `SettingsTypes`, `SavedSettingsSurvive`, for any number of choices
  and accidents. `FilesKeepSettings` alone is not inductive: the backup must be as new as the
  last save too (`NoFileBehind`), the backup is written only behind a file that is there
  and not older (`FileFirst`), and no one writes who was not allowed to (`WritersAllowed`).

  Of its signals, `SignalTypes`, `SignalsTellNews`, for any tasks, thresholds and renders. What the code keeps
  of the last render bounds what the histories know of all renders (`Remembered`): a row's kept value is not
  under its `lowest`, the kept threshold not over `highest`, and the kept value of a row that is not `loud` not
  over the kept threshold. So a crossing the code sees is one since the last signal (`SignalIsOfNews`), and a row newly
  over the threshold is one the code sees (`NewlyLoudIsOver`).

* **`Readers_proofs`**: of the page, `WebTypes`, `PageStaysTrue`, for any tabs, buckets,
  calls, versions, clicks and failures. `LoadSound` says what the request under way has read (the version
  before the rows), `AtHandIsRendered` that the dashboard at hand is the one that is rendered and that
  the task mode fits the range, so that drawing another chart leaves a true page true,
  `AtRest` that a page which rests shows its query, is about to be refreshed or is excused,
  `OwnCall` that the title of the payload is of the call that is drawn and that no answer is under way
  to an open dialog but its own and those in `mixed`, and `OwnBucket` the same of a bucket, and that
  its table, unless it is empty, shows what sorting would draw.

  Of the readers side by side, `ReadersAreThemselves`: every behaviour of `MC_Readers` is, seen
  through the variables of one reader, a behaviour of that reader alone, fairness apart, which no
  safety proof uses. So `ReadersTypes` and `ReadersKeepTheirPromises` follow from the theorems of
  the five modules: what the run `readers` checks of them together holds for every value of the constants.

* **`UsageQueries_proofs`**: `QueryTypes`, `DashboardIsOnePicture`, for any rows, periods, ranges
  and order of imports, which store, rewrite and delete rows. The sums are folds of the community modules, which take elements in
  the order `CHOOSE` gives: that there is such a fold over every finite set (`SumsExist`), that
  any element may be taken out of it (`SumOf`), and that the sums of the groups of a partition
  add up to the whole (`SumOfGroups`) are proved by minimal counterexamples, for want of an
  induction rule the provers can use. With `GroupsAddUp` each query tells the truth when it is
  read (`SummaryTrue`, `ChartAddsUp`, `ThreadsTrue`, `BucketsTrue`, `ModelsTrue`). What was read
  stays true while the version does and no row is rewritten: of the four fields of `data_state` two decide, the
  number of usage rows and the sum of their tokens. A new row that shows something raises the first
  (`StoringKeeps`), a row that comes to show more the second (`CompletionKeeps`), a new row that shows nothing
  leaves every part, and neither number falls (`StateBehind`). All other changes are `rewritten`, under which both may
  fall and come back (`RewritingKeeps`): there is no theorem without that condition, because the statement
  would be false. The raw-only tasks are read after the tasks; they are disjoint because each thread that is
  listed still has a row (`TasksCounted`, `RawOnlyHaveNoRows`). Assumed is that counts of tokens are not negative.

Only model-checked: the liveness properties (fairness and ENABLED are beyond the prover), that
is `EventuallyScanned`, `OldBodiesCleared`, both `RequestsEnd`, `EventuallyImported`,
`ReportsImported` and `ReadersCatchUp`; and what a run refutes. Of that, `OnlyWindowRetained` and `OneProcess` are proved under the conditions the
refutations show to be needed. Every invariant, action property and refinement that a
passing run checks is stated by a theorem.

## 5. Not modelled, and the plan

* Of the Codex import: thread titles and model back-fills, which copy text from one table to
  another, and the column migrations, each an ALTER of its own at the start.
* Of the queries: local time and its clock changes, the ranges `custom` and `all`, requests for
  all sources at once, limits and offsets of lists, and `_payloads_from_raw_logs`.
* Of the mini client: widgets, formatting, arguments, a second process with the same settings,
  and power loss (`_write_json_atomic` does not sync). Of the page: how charts and tables look.
* Session transcripts and thread names (`session_transcript.py`, `thread_names.py`) are look-ups
  in files of Codex that nothing here writes; configuration (`config.py`, `codex_discovery.py`)
  is merging of JSON, whose failures are those of `ImportRuns`. Both keep no state.
* Launchers, logging, static files, re-exports and the repository's tools.

Next:

1. A second process that imports without the lock, as a composition of `CodexImport`.
2. `custom` ranges and local time in `UsageQueries`.
