---------------------------- MODULE WebDashboard ----------------------------
(***************************************************************************)
(* The web dashboard (web/app.js with js/dashboard-state.js, js/api.js,     *)
(* js/detail-modal.js and js/render/tasks.js).  The page's tab, range and   *)
(* task mode change while its requests are under way: at most one refresh,  *)
(* one check of the version, and the details of buckets and calls.          *)
(*                                                                          *)
(* Of a dashboard the model keeps the query it answers, the version it      *)
(* names and the version its rows were read at; of a bucket's rows and a    *)
(* call's details, whose they are.  Ranges are short or long: tasks are     *)
(* shown separately for short ones only.  Sorting the tables of the page    *)
(* draws what is drawn already, and a check whose body is still awaited     *)
(* when the next one begins is not modelled.                                *)
(***************************************************************************)
EXTENDS Naturals

CONSTANTS
    Tabs,               \* the tabs of the page
    DefaultTab,         \* DEFAULT_TAB
    Buckets,            \* periods whose tasks can be listed
    Calls,              \* tasks whose calls can be looked at
    MaxAnalytics,       \* bound: versions of the analytics
    MaxClicks,          \* bound: what the user changes, presses or opens
    MaxMishaps          \* bound: requests that fail

ASSUME WebTabsAssumption == DefaultTab \in Tabs
Nobody == "none"

ASSUME DialogsAssumption ==
    Buckets \cap Calls = {} /\ Nobody \notin Buckets \cup Calls
ASSUME WebBoundsAssumption ==
    MaxAnalytics \in Nat \ {0} /\ MaxClicks \in Nat /\ MaxMishaps \in Nat

VARIABLES
    analytics,      \* version of the analytics
    query,          \* activeSource, rangeFilter and taskMode
    loading,        \* refreshPromise: the request, and how far it got
    lastDashboard,  \* lastDashboard, if there is one
    page,           \* what is rendered
    pageVersion,    \* dataVersion, 0 for null
    check,          \* the version check: how it stands, the version it brings
    bucket,         \* bucketDialog: the bucket in its title, if it is open
    bucketRows,     \* bucketTasks: whose rows are drawn, if any
    bucketCache,    \* taskRowsCache.bucketTasksTable: whose rows, if any
    call,           \* detailDialog: the task it was opened for, if it is open
    detail,         \* detail, with all that is drawn of it: whose, if anybody's
    payloadTitle,   \* detailPayloadTitle: whose call it names, if any
    pending,        \* requests for details under way
    excuse,         \* why the page need not be what was asked for (history)
    answered,       \* the bucket that is open was answered (history)
    mixed,          \* who was awaited when another dialog was opened (history)
    clicks,         \* clicks so far (history, bounded)
    mishaps         \* failures so far (history, bounded)

pageVars == <<query, lastDashboard, page, pageVersion, excuse>>

bucketVars == <<bucket, bucketRows, bucketCache, answered>>

callVars == <<call, detail, payloadTitle>>

dialogVars == <<bucketVars, callVars, pending, mixed>>

bounds == <<clicks, mishaps>>

webVars == <<analytics, loading, check, pageVars, dialogVars, bounds>>

Modes == {"aggregate", "separate"}

PageQueries == [tab : Tabs, long : BOOLEAN, mode : Modes]

\* rows are those of a task mode, table is the one they are rendered in.
Dashboards ==
    [ask : PageQueries, version : Nat, at : Nat, table : Modes, there : BOOLEAN]

NoDashboard ==
    [ask |-> [tab |-> DefaultTab, long |-> FALSE, mode |-> "aggregate"],
     version |-> 0, at |-> 0, table |-> "aggregate", there |-> FALSE]

Subjects == Buckets \cup Calls

WebTypeOK ==
    /\ analytics \in 1 .. MaxAnalytics
    /\ query \in PageQueries
    /\ loading \in [pc : {"idle", "run"}, ask : PageQueries, version : Nat, at : Nat]
    /\ lastDashboard \in Dashboards /\ page \in Dashboards
    /\ pageVersion \in 0 .. MaxAnalytics
    /\ check \in [pc : {"none", "asked", "read"}, version : Nat]
    /\ {bucket, bucketRows, bucketCache} \subseteq Buckets \cup {Nobody}
    /\ {call, detail, payloadTitle} \subseteq Calls \cup {Nobody}
    /\ pending \in [Subjects -> Nat]
    /\ excuse \in SUBSET {"coalesced", "failed"}
    /\ answered \in BOOLEAN /\ mixed \in SUBSET Subjects
    /\ clicks \in Nat /\ mishaps \in Nat

-----------------------------------------------------------------------------
(* Queries and rendering.                                                  *)

\* syncTaskModeOptions
Synced(q) == IF q.long THEN [q EXCEPT !.mode = "aggregate"] ELSE q

NewLoad(q) == [pc |-> "run", ask |-> q, version |-> 0, at |-> 0]

NoLoad(q) == [NewLoad(q) EXCEPT !.pc = "idle"]

NoCheck == [pc |-> "none", version |-> 0]

\* The page is opened with the tab, range and mode it was left with.
WebInit ==
    /\ analytics = 1
    /\ query \in {Synced(q) : q \in PageQueries}
    /\ loading = NewLoad(query)
    /\ lastDashboard = NoDashboard /\ page = NoDashboard
    /\ pageVersion = 0
    /\ check = NoCheck
    /\ bucket = Nobody /\ bucketRows = Nobody /\ bucketCache = Nobody
    /\ call = Nobody /\ detail = Nobody /\ payloadTitle = Nobody
    /\ pending = [s \in Subjects |-> 0]
    /\ excuse = {} /\ answered = FALSE /\ mixed = {}
    /\ clicks = 0 /\ mishaps = 0

Click == clicks < MaxClicks /\ clicks' = clicks + 1 /\ UNCHANGED mishaps

Mishap == mishaps < MaxMishaps /\ mishaps' = mishaps + 1 /\ UNCHANGED clicks

Refreshing == loading.pc = "run"

\* renderDashboard takes the task mode from the dashboard, unless the range
\* no longer allows it: the rows stay as they are.
RenderDashboard(d) ==
    LET shownQuery == Synced([query EXCEPT !.mode = d.ask.mode]) IN
    /\ query' = shownQuery
    /\ page' = [d EXCEPT !.table = shownQuery.mode]

-----------------------------------------------------------------------------
(* refresh and refreshNow.                                                 *)

\* A refresh under way is the answer to the new query as well.
RefreshPage(q) ==
    IF Refreshing
    THEN /\ UNCHANGED loading
         /\ excuse' = excuse \cup (IF loading.ask = q THEN {} ELSE {"coalesced"})
    ELSE loading' = NewLoad(q) /\ UNCHANGED excuse

\* The server reads the version before the rows (queries.py, dashboard).
\* Mutant: it reads the version last.
ReadBefore_Rows == loading.at # 0

ReadBefore == loading.version = 0 /\ loading.at = 0

ReadState ==
    /\ Refreshing
    /\ loading.version = 0
    /\ ReadBefore
    /\ loading' = [loading EXCEPT !.version = analytics]
    /\ UNCHANGED <<analytics, check, pageVars, dialogVars, bounds>>

ReadDashboard ==
    /\ Refreshing
    /\ loading.at = 0
    /\ loading.version # 0 \/ ~ReadBefore
    /\ loading' = [loading EXCEPT !.at = analytics]
    /\ UNCHANGED <<analytics, check, pageVars, dialogVars, bounds>>

Answer ==
    [ask |-> loading.ask, version |-> loading.version, at |-> loading.at,
     table |-> loading.ask.mode, there |-> TRUE]

ShowAnswer ==
    /\ Refreshing
    /\ loading.version # 0 /\ loading.at # 0
    /\ lastDashboard' = Answer
    /\ RenderDashboard(Answer)
    /\ pageVersion' = loading.version
    /\ loading' = NoLoad(loading.ask)
    /\ excuse' = IF loading.ask = query' THEN {} ELSE {"coalesced"}
    /\ UNCHANGED <<analytics, check, dialogVars, bounds>>

\* Nothing is rendered; the next version brings the page up to date.
LoadFails ==
    /\ Refreshing
    /\ Mishap
    /\ loading' = NoLoad(loading.ask)
    /\ excuse' = IF pageVersion = analytics THEN excuse \cup {"failed"} ELSE excuse
    /\ UNCHANGED <<analytics, check, query, lastDashboard, page, pageVersion, dialogVars>>

-----------------------------------------------------------------------------
(* The user.                                                               *)

\* No dialog covers the page.
Uncovered == bucket = Nobody /\ call = Nobody

ChangeRange ==
    /\ Uncovered
    /\ Click
    /\ query' = Synced([query EXCEPT !.long = ~@])
    /\ RefreshPage(query')
    /\ UNCHANGED <<analytics, check, lastDashboard, page, pageVersion, dialogVars>>

ChangeTaskMode ==
    /\ Uncovered
    /\ Click
    /\ ~query.long
    /\ query' = [query EXCEPT !.mode = IF @ = "separate" THEN "aggregate" ELSE "separate"]
    /\ RefreshPage(query')
    /\ UNCHANGED <<analytics, check, lastDashboard, page, pageVersion, dialogVars>>

\* token-lens:tab-change, of the active tab as well
ChangeTab ==
    /\ Uncovered
    /\ Click
    /\ \E t \in Tabs : query' = [query EXCEPT !.tab = t]
    /\ lastDashboard' = NoDashboard
    /\ RefreshPage(query')
    /\ UNCHANGED <<analytics, check, page, pageVersion, dialogVars>>

\* The Refresh button; what the import finds is AnalyticsChange.
PressRefreshButton ==
    /\ Uncovered
    /\ Click
    /\ RefreshPage(query)
    /\ UNCHANGED <<analytics, check, query, lastDashboard, page, pageVersion, dialogVars>>

\* Another chart of the dashboard at hand: its task mode comes back with it.
ChangeChart ==
    /\ Uncovered
    /\ Click
    /\ lastDashboard.there
    /\ RenderDashboard(lastDashboard)
    /\ UNCHANGED <<analytics, loading, check, lastDashboard, pageVersion, excuse, dialogVars>>

Reload ==
    /\ Click
    /\ query' = Synced(query)
    /\ loading' = NewLoad(query')
    /\ lastDashboard' = NoDashboard /\ page' = NoDashboard
    /\ pageVersion' = 0
    /\ check' = NoCheck
    /\ bucket' = Nobody /\ bucketRows' = Nobody /\ bucketCache' = Nobody
    /\ call' = Nobody /\ detail' = Nobody /\ payloadTitle' = Nobody
    /\ pending' = [s \in Subjects |-> 0]
    /\ excuse' = {} /\ answered' = FALSE /\ mixed' = {}
    /\ UNCHANGED analytics

-----------------------------------------------------------------------------
(* pollForUpdates.                                                         *)

HasActiveRequests ==
    Refreshing \/ check.pc # "none" \/ \E s \in Subjects : pending[s] > 0

AskState ==
    /\ ~HasActiveRequests
    /\ check' = [NoCheck EXCEPT !.pc = "asked"]
    /\ UNCHANGED <<analytics, loading, pageVars, dialogVars, bounds>>

\* The server reads the version; the page hears of it later.
StateRead ==
    /\ check.pc = "asked"
    /\ check' = [pc |-> "read", version |-> analytics]
    /\ UNCHANGED <<analytics, loading, pageVars, dialogVars, bounds>>

\* Mutant: a page without a version is left alone.
StateDiffers_Known == pageVersion # 0 /\ check.version # pageVersion

StateDiffers == pageVersion = 0 \/ check.version # pageVersion

StateAnswers ==
    /\ check.pc = "read"
    /\ check' = NoCheck
    /\ IF StateDiffers THEN RefreshPage(query) ELSE UNCHANGED <<loading, excuse>>
    /\ UNCHANGED <<analytics, query, lastDashboard, page, pageVersion, dialogVars, bounds>>

CheckFails ==
    /\ check.pc # "none"
    /\ Mishap
    /\ check' = NoCheck
    /\ UNCHANGED <<analytics, loading, pageVars, dialogVars>>

-----------------------------------------------------------------------------
(* The dialogs of a bucket and of a call: openBucketDetail, openTaskDetail. *)

Sent(s) == [pending EXCEPT ![s] = @ + 1]

Received(s) == [pending EXCEPT ![s] = @ - 1]

\* What the dialog of s, one of its kind, may be given besides its own answers.
Mixed(kind, s) == mixed' = (mixed \ kind) \cup {o \in kind \ {s} : pending[o] > 0}

\* The table is emptied, what it was drawn from is not.
OpenBucket(b) ==
    /\ Uncovered /\ page.there
    /\ Click
    /\ bucket' = b /\ bucketRows' = Nobody /\ answered' = FALSE
    /\ pending' = Sent(b)
    /\ Mixed(Buckets, b)
    /\ UNCHANGED <<analytics, loading, check, pageVars, bucketCache, callVars>>

\* Mutant: the former details are left for the close event to forget.
AtOpening_Kept == detail

AtOpening == Nobody

\* A call is opened from the page or from the rows of a bucket; openTaskDetail
\* forgets the details but leaves the title above the payload.
OpenCall(c) ==
    /\ call = Nobody
    /\ IF bucket = Nobody THEN page.there ELSE bucketRows # Nobody
    /\ Click
    /\ call' = c /\ detail' = AtOpening
    /\ pending' = Sent(c)
    /\ Mixed(Calls, c)
    /\ UNCHANGED <<analytics, loading, check, pageVars, bucketVars, payloadTitle>>

\* changeSort: the table is drawn again from the rows kept for it.
SortBucket ==
    /\ bucket # Nobody /\ call = Nobody
    /\ bucketRows' = bucketCache
    /\ UNCHANGED <<analytics, loading, check, pageVars, bucket, bucketCache, answered,
                   callVars, pending, mixed, bounds>>

CloseBucket ==
    /\ bucket # Nobody /\ call = Nobody
    /\ bucket' = Nobody
    /\ UNCHANGED <<analytics, loading, check, pageVars, bucketRows, bucketCache, answered,
                   callVars, pending, mixed, bounds>>

CloseCall ==
    /\ call # Nobody
    /\ call' = Nobody /\ detail' = Nobody
    /\ UNCHANGED <<analytics, loading, check, pageVars, bucketVars, payloadTitle, pending,
                   mixed, bounds>>

\* Answers are drawn whoever is shown now, and if nobody is.
BucketAnswers(b) ==
    /\ pending[b] > 0
    /\ pending' = Received(b)
    /\ bucketCache' = b /\ bucketRows' = b
    /\ answered' = (answered \/ b = bucket)
    /\ UNCHANGED <<analytics, loading, check, pageVars, bucket, callVars, mixed, bounds>>

CallAnswers(c) ==
    /\ pending[c] > 0
    /\ pending' = Received(c)
    /\ detail' = c /\ payloadTitle' = c
    /\ UNCHANGED <<analytics, loading, check, pageVars, bucketVars, call, mixed, bounds>>

DetailFails(s) ==
    /\ pending[s] > 0
    /\ Mishap
    /\ pending' = Received(s)
    /\ UNCHANGED <<analytics, loading, check, pageVars, bucketVars, callVars, mixed>>

AnalyticsChange ==
    /\ analytics < MaxAnalytics
    /\ analytics' = analytics + 1
    /\ UNCHANGED <<loading, check, pageVars, dialogVars, bounds>>

-----------------------------------------------------------------------------
LoadStep == ReadState \/ ReadDashboard \/ ShowAnswer \/ LoadFails

CheckStep == AskState \/ StateRead \/ StateAnswers \/ CheckFails

DetailStep ==
    \/ \E b \in Buckets : BucketAnswers(b)
    \/ \E c \in Calls : CallAnswers(c)
    \/ \E s \in Subjects : DetailFails(s)

UserActs ==
    \/ ChangeRange \/ ChangeTaskMode \/ ChangeTab \/ PressRefreshButton
    \/ ChangeChart \/ Reload
    \/ (\E b \in Buckets : OpenBucket(b)) \/ SortBucket \/ CloseBucket
    \/ (\E c \in Calls : OpenCall(c)) \/ CloseCall

WebNext == LoadStep \/ CheckStep \/ DetailStep \/ UserActs \/ AnalyticsChange

(***************************************************************************)
(* Requests are answered or time out after 30 seconds, and the poll timer   *)
(* comes every five.  It may find a request under way each time: only the   *)
(* requests themselves get fewer once the user rests.                       *)
(***************************************************************************)
WebSpec ==
    /\ WebInit /\ [][WebNext]_webVars
    /\ WF_webVars(LoadStep) /\ WF_webVars(CheckStep) /\ WF_webVars(DetailStep)

-----------------------------------------------------------------------------
(* Properties.                                                             *)

\* The page answers query q, in the table of its mode.
Shows(q) == page.there /\ page.ask = q /\ page.table = q.mode

\* No dashboard is older than the version it goes by.
LabelIsTrue == page.at >= page.version /\ (page.there => pageVersion <= page.at)

\* At rest, with nothing new to poll for, the page is what its filters say.
FiltersAreTrue ==
    ~Refreshing /\ pageVersion = analytics => Shows(query) \/ excuse # {}

\* The call's dialog shows one call in all its parts, the one it was opened for.
CallIsTrue ==
    /\ detail # Nobody => payloadTitle = detail
    /\ call # Nobody => detail \in {Nobody, call} \cup mixed

\* The bucket's table shows what sorting would draw, once answered its bucket.
BucketIsTrue ==
    /\ bucketRows \in {Nobody, bucketCache}
    /\ bucket # Nobody /\ answered => bucketRows \in {bucket} \cup mixed

(***************************************************************************)
(* What the page says it shows is what it shows: rows are not older than    *)
(* the version the next poll compares, they are those of the tab, range and *)
(* mode that are selected, in that mode's table, and the dialogs show the   *)
(* call and, once it was answered, the bucket they were opened for.         *)
(* The code lets this fail in three ways, excepted one by one: a filter     *)
(* changed while a refresh was under way, a refresh that failed, and a late *)
(* answer for a dialog that was closed, awaited when this one was opened.   *)
(***************************************************************************)
PageIsTrue == LabelIsTrue /\ FiltersAreTrue /\ CallIsTrue /\ BucketIsTrue

(***************************************************************************)
(* The page catches up with the analytics and with its filters whenever     *)
(* these rest, although requests fail, polls are skipped and filters        *)
(* change, with the first two exceptions of PageIsTrue.                     *)
(***************************************************************************)
PageCatchesUp ==
    []<>(excuse # {} \/ (Shows(query) /\ page.at = analytics))
=============================================================================
