---------------------------- MODULE UsageQueries ----------------------------
(***************************************************************************)
(* The analytics queries (storage/queries.py) over the turns table, and the *)
(* dashboard that is put together from them.  The connection reads each     *)
(* SELECT in a snapshot of its own and takes the time anew for each range,  *)
(* while imports store, rewrite and delete rows; a transaction of several   *)
(* rows is several steps here.                                              *)
(*                                                                          *)
(* A row of turns is its source, thread, model, time and total tokens, and  *)
(* whether its parts contradict the total; its place in the table is its    *)
(* source_log_id.  Time is counted in units of which a period of the chart  *)
(* has BucketSize; ranges are whole periods long.  The dashboard's lists of *)
(* turns, which page nothing and add nothing up, are left out.              *)
(***************************************************************************)
EXTENDS Integers, Sequences, FiniteSets, Functions

CONSTANTS
    Kinds,              \* rows there can be: [source, thread, model, tokens, broken]
    Times,              \* when
    RawRows,            \* rows of raw_logs there can be: [thread, ts, named]
    RawLog,             \* those archived at the start, oldest first
    RawScanLimit,       \* RAW_ONLY_TASK_SCAN_LIMIT
    BucketSize,         \* BUCKET_SECONDS of the bucket
    MaxBuckets,         \* MAX_BUCKETS of range and bucket
    Noon,               \* the time at the start
    MaxRows,            \* bound: rows of turns
    MaxSteps            \* bound: changes to the tables, and units of time

ASSUME QueriesAssumption ==
    /\ BucketSize \in Nat \ {0} /\ MaxBuckets \in Nat \ {0}
    /\ RawScanLimit \in Nat /\ Noon \in Nat
    /\ MaxRows \in Nat /\ MaxSteps \in Nat
    /\ Times \subseteq Nat /\ RawLog \in Seq(RawRows)

\* Counts of tokens are not negative.
ASSUME KindsAssumption == \A kind \in Kinds : kind.tokens \in Nat

VARIABLES
    rows,           \* turns, by source_log_id
    rawLog,         \* raw_logs
    now,            \* time.time()
    request,        \* the dashboard request: what it asks for and has read
    ticked,         \* time has passed since the version was read (history)
    rewritten,      \* rows changed since, and not by new usage alone (history)
    steps           \* steps so far (history, bounded)

queryVars == <<rows, rawLog, now, request, ticked, rewritten, steps>>

CodexAndOpenCode == {"codex", "opencode"}

RangeLength == MaxBuckets * BucketSize

Period(ts) == ts \div BucketSize

-----------------------------------------------------------------------------
(* Clauses and sums.                                                       *)

Ids == DOMAIN rows

Codex(id) == rows[id].source = "codex"

\* _usage_clause
ShowsUsage(row) == row.source = "codex" => row.tokens > 0 /\ ~row.broken

HasUsage(id) == ShowsUsage(rows[id])

Scoped(source) ==
    {id \in Ids : rows[id].source = source /\ rows[id].ts >= now - RangeLength}

\* The queries of codex rows have the usage clause.
Selected(source) ==
    IF source = "codex" THEN {id \in Scoped(source) : HasUsage(id)} ELSE Scoped(source)

Tokens == [id \in Ids |-> rows[id].tokens]

Totals(ids) == [calls |-> Cardinality(ids), tokens |-> SumFunctionOnSet(Tokens, ids)]

GroupBy(key, ids) ==
    [k \in {key[id] : id \in ids} |-> Totals({id \in ids : key[id] = k})]

ThreadOf == [id \in Ids |-> rows[id].thread]

ModelOf == [id \in Ids |-> rows[id].model]

PeriodOf == [id \in Ids |-> Period(rows[id].ts)]

\* What the groups sum up to
AddUp(groups) ==
    [calls |-> SumFunction([k \in DOMAIN groups |-> groups[k].calls]),
     tokens |-> SumFunction([k \in DOMAIN groups |-> groups[k].tokens])]

-----------------------------------------------------------------------------
(* Queries.                                                                *)

\* codex_summary sums the threads, opencode_summary the rows.
Summary(source) ==
    IF source = "codex" THEN AddUp(GroupBy(ThreadOf, Selected(source)))
    ELSE Totals(Selected(source))

\* Mutant: the period that has begun is left out.
ExpectedPeriods_Past == (Period(now) - MaxBuckets) .. (Period(now) - 1)

ExpectedPeriods == (Period(now) - MaxBuckets + 1) .. Period(now)

\* _fill_bucket_rows: a row for each expected period and no other
Daily(source) ==
    LET groups == GroupBy(PeriodOf, Selected(source)) IN
    [p \in ExpectedPeriods |-> IF p \in DOMAIN groups THEN groups[p] ELSE Totals({})]

\* codex_task_buckets groups by period and thread, and then by period.
TaskBuckets(source) ==
    LET periods == {PeriodOf[id] : id \in Selected(source)}
        in(p) == {id \in Selected(source) : PeriodOf[id] = p}
    IN  [p \in periods |-> IF source = "codex" THEN AddUp(GroupBy(ThreadOf, in(p)))
                           ELSE Totals(in(p))]

BucketTasks(source, p) ==
    GroupBy(ThreadOf, {id \in Selected(source) : PeriodOf[id] = p})

UsageTasks(source) == GroupBy(ThreadOf, Selected(source))

\* raw_only_tasks: any codex row of the thread keeps it out, a refused one too;
\* what is old or has no name counts for the limit all the same.
RawOnlyTask(entry) ==
    /\ entry.named
    /\ entry.ts >= now - RangeLength
    /\ \A id \in Ids : Codex(id) => rows[id].thread # entry.thread

RawOnlyTasks ==
    LET recent == {rawLog[i] : i \in {j \in DOMAIN rawLog : j > Len(rawLog) - RawScanLimit}} IN
    {entry.thread : entry \in {e \in recent : RawOnlyTask(e)}}

Models(source) == GroupBy(ModelOf, {id \in Scoped(source) : HasUsage(id)})

\* task_detail of a chat: its rows of all times, refused ones as well
TaskDetail(thread) == Totals({id \in Ids : rows[id].thread = thread})

\* data_state, of both sources
DataState ==
    LET ids == {id \in Ids : HasUsage(id)} IN
    [turns |-> Cardinality(ids),
     latestLogId |-> IF ids = {} THEN 0 ELSE CHOOSE id \in ids : \A o \in ids : o <= id,
     latestTs |-> IF ids = {} THEN 0
                  ELSE CHOOSE t \in {rows[id].ts : id \in ids} : \A id \in ids : rows[id].ts <= t,
     tokens |-> SumFunctionOnSet(Tokens, ids)]

-----------------------------------------------------------------------------
(* The dashboard handler: one part after the other.                        *)

Nothing == [calls |-> 0, tokens |-> 0]

NoState == [turns |-> 0, latestLogId |-> 0, latestTs |-> 0, tokens |-> 0]

Request(source, separate) ==
    [pc |-> "state", source |-> source, separate |-> separate, state |-> NoState,
     summary |-> Nothing, daily |-> <<>>, tasks |-> <<>>, rawOnly |-> {}, models |-> <<>>]

Row(kind, ts) ==
    [source |-> kind.source, thread |-> kind.thread, model |-> kind.model,
     tokens |-> kind.tokens, broken |-> kind.broken, ts |-> ts]

Rows == {Row(kind, ts) : kind \in Kinds, ts \in Times}

LogIds == 1 .. MaxRows

QueriesInit ==
    /\ now = Noon
    /\ rows \in UNION {[ids -> {r \in Rows : r.ts <= Noon}] : ids \in SUBSET LogIds}
    /\ rawLog = RawLog
    /\ request \in {Request(s, mode) : s \in CodexAndOpenCode, mode \in BOOLEAN}
    /\ ticked = FALSE /\ rewritten = FALSE
    /\ steps = 0

QueriesTypeOK ==
    /\ Ids \subseteq LogIds /\ rows \in [Ids -> Rows]
    /\ rawLog \in Seq(RawRows)
    /\ now \in Noon .. Noon + MaxSteps
    /\ request.pc \in {"state", "summary", "daily", "tasks", "rawOnly", "models", "done"}
    /\ request.source \in CodexAndOpenCode
    /\ ticked \in BOOLEAN /\ rewritten \in BOOLEAN
    /\ steps \in 0 .. MaxSteps

Reads(part) == request.pc = part /\ UNCHANGED <<rows, rawLog, now, ticked, rewritten, steps>>

ReadDataState ==
    /\ Reads("state")
    /\ request' = [request EXCEPT !.pc = "summary", !.state = DataState]

ReadSummary ==
    /\ Reads("summary")
    /\ request' = [request EXCEPT !.pc = "daily", !.summary = Summary(request.source)]

ReadDaily ==
    /\ Reads("daily")
    /\ request' = [request EXCEPT !.pc = "tasks", !.daily = Daily(request.source)]

\* codex_tasks goes on with the chats that have no usage yet.
ReadTasks ==
    /\ Reads("tasks")
    /\ request' =
        [request EXCEPT
            !.pc = IF request.separate /\ request.source = "codex" THEN "rawOnly" ELSE "models",
            !.tasks = IF request.separate THEN UsageTasks(request.source)
                      ELSE TaskBuckets(request.source)]

ReadRawOnlyTasks ==
    /\ Reads("rawOnly")
    /\ request' = [request EXCEPT !.pc = "models", !.rawOnly = RawOnlyTasks]

\* Mutant: the version is read last.
ReadModels_StateLast ==
    /\ Reads("models")
    /\ request' = [request EXCEPT !.pc = "done", !.models = Models(request.source),
                                  !.state = DataState]

ReadModels ==
    /\ Reads("models")
    /\ request' = [request EXCEPT !.pc = "done", !.models = Models(request.source)]

-----------------------------------------------------------------------------
(* Meanwhile.                                                              *)

Step == steps < MaxSteps /\ steps' = steps + 1

\* The row is new, or its usage is more than it was.
Adds(id, from, row) ==
    from = id /\ (id \in Ids => ShowsUsage(row) /\ row.tokens > rows[id].tokens)

Counted(adds) == rewritten' = (rewritten \/ (request.pc # "state" /\ ~adds))

\* upsert_turn writes a new row, or all of one with the same response_id, which
\* moves to another source_log_id if no row has that, or of one with the same
\* source_log_id.  A row keeps its source.
UpsertRow ==
    /\ Step
    /\ \E id \in LogIds, row \in {r \in Rows : r.ts <= now} : \E from \in Ids \cup {id} :
        /\ from # id => id \notin Ids
        /\ from \in Ids => rows[from].source = row.source
        /\ rows' = [i \in (Ids \ {from}) \cup {id} |-> IF i = id THEN row ELSE rows[i]]
        /\ Counted(Adds(id, from, row))
    /\ UNCHANGED <<rawLog, now, request, ticked>>

\* The repair of the Codex import deletes rows it would not import again.
DeleteRows ==
    /\ Step
    /\ \E ids \in SUBSET {id \in Ids : Codex(id)} :
        /\ ids # {}
        /\ rows' = [i \in Ids \ ids |-> rows[i]]
    /\ Counted(FALSE)
    /\ UNCHANGED <<rawLog, now, request, ticked>>

ArchiveRow ==
    /\ Step
    /\ \E entry \in RawRows : entry.ts <= now /\ rawLog' = Append(rawLog, entry)
    /\ UNCHANGED <<rows, now, request, ticked, rewritten>>

Tick ==
    /\ Step
    /\ now' = now + 1
    /\ ticked' = (ticked \/ request.pc # "state")
    /\ UNCHANGED <<rows, rawLog, request, rewritten>>

QueriesNext ==
    \/ ReadDataState \/ ReadSummary \/ ReadDaily \/ ReadTasks \/ ReadRawOnlyTasks
    \/ ReadModels
    \/ UpsertRow \/ DeleteRows \/ ArchiveRow \/ Tick

QueriesSpec == QueriesInit /\ [][QueriesNext]_queryVars

-----------------------------------------------------------------------------
(* Properties.                                                             *)

\* What there is to show of a source: its usage within the range
Usage(source) ==
    {id \in Ids : /\ rows[id].source = source
                  /\ source = "codex" => rows[id].tokens # 0 /\ ~rows[id].broken
                  /\ rows[id].ts \in now - RangeLength .. now}

\* The range begins within a period; what that period still has of it is not
\* in the chart, whose first period is the next one.
BeforeChart(ids) == {id \in ids : Period(rows[id].ts) <= Period(now) - MaxBuckets}

SummaryAgrees == request.summary = Totals(Usage(request.source))

ChartAgrees ==
    LET ids == Usage(request.source) IN
    AddUp(request.daily) = Totals(ids \ BeforeChart(ids))

\* The rows of the table add up to the summary, and those a bucket opens to, to
\* what the table says of the bucket.  The calls a task opens to have at least
\* the tokens of its row: they are of all times, and refused ones as well.
TasksAgree ==
    /\ AddUp(request.tasks) = Totals(Usage(request.source))
    /\ \A key \in DOMAIN request.tasks :
        IF request.separate
        THEN TaskDetail(key).tokens >= request.tasks[key].tokens
        ELSE AddUp(BucketTasks(request.source, key)) = request.tasks[key]
    /\ request.separate => request.rawOnly \cap DOMAIN request.tasks = {}

ModelsAgree == AddUp(request.models) = Totals(Usage(request.source))

(***************************************************************************)
(* A dashboard whose version is still the present one, and during which no  *)
(* time went by and no row lost or changed its usage but for more, is one   *)
(* picture although it was read in several: all of its parts agree with the *)
(* rows there are, and so with one another.  With rewritten rows nothing of *)
(* the kind holds: the version counts rows and tokens and looks at none.    *)
(***************************************************************************)
DashboardAgrees ==
    request.pc = "done" /\ request.state = DataState /\ ~ticked /\ ~rewritten
        => SummaryAgrees /\ ChartAgrees /\ TasksAgree /\ ModelsAgree
=============================================================================
