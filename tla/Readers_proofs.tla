------------------------- MODULE Readers_proofs -------------------------
(***************************************************************************)
(* Proofs about the web dashboard, for any tabs, buckets, calls, versions   *)
(* of the analytics, clicks and failed requests; and, at the end, about all *)
(* the readers of the analytics in one instance.                            *)
(***************************************************************************)
EXTENDS MC_Readers, MiniClient_proofs, UsageQueries_proofs, TLAPS

(***************************************************************************)
(* PageIsTrue is not inductive: it needs what the request under way has    *)
(* read, that the dashboard at hand is the one that is rendered, that a     *)
(* dialog is given no answers but its own and those that were awaited when  *)
(* it was opened, and that what sorting would draw is what is drawn.        *)
(***************************************************************************)
LoadSound ==
    /\ loading.version <= analytics /\ loading.at <= analytics
    /\ loading.version # 0 /\ loading.at # 0 => loading.version <= loading.at

AtHandIsRendered ==
    /\ query.long => query.mode = "aggregate"
    /\ pageVersion <= analytics
    /\ page.version <= page.at /\ lastDashboard.version <= lastDashboard.at
    /\ page.there => pageVersion <= page.at
    /\ lastDashboard.there =>
         page.there /\ page.ask = lastDashboard.ask /\ pageVersion <= lastDashboard.at

AtRest == ~Refreshing => pageVersion < analytics \/ Shows(query) \/ excuse # {}

OwnCall ==
    /\ detail # Nobody => payloadTitle = detail
    /\ call # Nobody =>
        /\ detail \in {Nobody, call} \cup mixed
        /\ \A o \in Calls \ ({call} \cup mixed) : pending[o] = 0

OwnBucket ==
    /\ bucketRows \in {Nobody, bucketCache}
    /\ bucket # Nobody =>
        /\ answered => bucketRows \in {bucket} \cup mixed
        /\ \A o \in Buckets \ ({bucket} \cup mixed) : pending[o] = 0

OwnDetails == OwnCall /\ OwnBucket

WebInv == WebTypeOK /\ LoadSound /\ AtHandIsRendered /\ AtRest /\ OwnDetails

-----------------------------------------------------------------------------
(* Records.                                                                *)

Loads == [pc : {"idle", "run"}, ask : PageQueries, version : Nat, at : Nat]

Checks == [pc : {"none", "asked", "read"}, version : Nat]

LEMMA NoCheckType == NoCheck \in Checks /\ [NoCheck EXCEPT !.pc = "asked"] \in Checks
  BY DEF NoCheck, Checks

LEMMA QueryChanges ==
    ASSUME NEW q \in PageQueries
    PROVE  /\ \A x \in Modes : [q EXCEPT !.mode = x] \in PageQueries
           /\ \A x \in BOOLEAN : [q EXCEPT !.long = x] \in PageQueries
           /\ \A x \in Tabs : [q EXCEPT !.tab = x] \in PageQueries
           /\ \A x : /\ [q EXCEPT !.mode = x].long = q.long
                     /\ [q EXCEPT !.mode = x].mode = x
                     /\ [q EXCEPT !.tab = x].long = q.long
                     /\ [q EXCEPT !.tab = x].mode = q.mode
           /\ [q EXCEPT !.mode = q.mode] = q
           /\ q.mode \in Modes /\ q.long \in BOOLEAN /\ q.tab \in Tabs
  BY DEF PageQueries

\* syncTaskModeOptions leaves a query that can be selected, and keeps such a one.
LEMMA SyncedSound ==
    ASSUME NEW q \in PageQueries
    PROVE  /\ Synced(q) \in PageQueries
           /\ Synced(q).long => Synced(q).mode = "aggregate"
           /\ (q.long => q.mode = "aggregate") => Synced(q) = q
  <1>1. "aggregate" \in Modes
    BY DEF Modes
  <1>2. CASE q.long
    BY <1>1, <1>2, QueryChanges DEF Synced
  <1>3. CASE ~q.long
    BY <1>3 DEF Synced
  <1> QED
    BY <1>2, <1>3

LEMMA LoadingTypes ==
    ASSUME NEW q \in PageQueries
    PROVE  /\ NewLoad(q) \in Loads /\ NoLoad(q) \in Loads
           /\ NewLoad(q).pc = "run" /\ NoLoad(q).pc = "idle"
           /\ NewLoad(q).ask = q /\ NoLoad(q).ask = q
           /\ NewLoad(q).version = 0 /\ NewLoad(q).at = 0
           /\ NoLoad(q).version = 0 /\ NoLoad(q).at = 0
  BY DEF NewLoad, NoLoad, Loads

LEMMA LoadReads ==
    ASSUME NEW x \in Loads, NEW v \in Nat
    PROVE  /\ [x EXCEPT !.version = v] \in Loads /\ [x EXCEPT !.at = v] \in Loads
           /\ [x EXCEPT !.version = v].pc = x.pc /\ [x EXCEPT !.at = v].pc = x.pc
           /\ [x EXCEPT !.version = v].version = v /\ [x EXCEPT !.version = v].at = x.at
           /\ [x EXCEPT !.at = v].at = v /\ [x EXCEPT !.at = v].version = x.version
  BY DEF Loads

LEMMA TableChange ==
    ASSUME NEW d \in Dashboards, NEW x \in Modes
    PROVE  /\ [d EXCEPT !.table = x] \in Dashboards
           /\ [d EXCEPT !.table = x].table = x
           /\ [d EXCEPT !.table = x].ask = d.ask
           /\ [d EXCEPT !.table = x].version = d.version
           /\ [d EXCEPT !.table = x].at = d.at
           /\ [d EXCEPT !.table = x].there = d.there
  BY DEF Dashboards

LEMMA NoDashboardType ==
    /\ NoDashboard \in Dashboards /\ ~NoDashboard.there
    /\ NoDashboard.version = 0 /\ NoDashboard.at = 0
  BY WebTabsAssumption DEF NoDashboard, Dashboards, PageQueries, Modes

(***************************************************************************)
(* renderDashboard leaves a query that can be selected, in whose table the *)
(* rows are.                                                               *)
(***************************************************************************)
LEMMA RenderSound ==
    ASSUME WebTypeOK, NEW d \in Dashboards, RenderDashboard(d)
    PROVE  /\ query' \in PageQueries /\ page' \in Dashboards
           /\ query'.long => query'.mode = "aggregate"
           /\ query' = Synced([query EXCEPT !.mode = d.ask.mode])
           /\ page'.ask = d.ask /\ page'.table = query'.mode /\ page'.there = d.there
           /\ page'.version = d.version /\ page'.at = d.at
  <1>1. query \in PageQueries /\ d.ask \in PageQueries
    BY DEF WebTypeOK, Dashboards
  <1>2. [query EXCEPT !.mode = d.ask.mode] \in PageQueries
    BY <1>1, QueryChanges
  <1>3. query' = Synced([query EXCEPT !.mode = d.ask.mode]) /\ page' = [d EXCEPT !.table = query'.mode]
    BY DEF RenderDashboard
  <1>4. query' \in PageQueries /\ (query'.long => query'.mode = "aggregate")
    BY <1>2, <1>3, SyncedSound
  <1>5. query'.mode \in Modes
    BY <1>4, QueryChanges
  <1> QED
    BY <1>3, <1>4, <1>5, TableChange

(***************************************************************************)
(* refresh: whatever it is called for, a request is under way.             *)
(***************************************************************************)
LEMMA RefreshPageSound ==
    ASSUME WebTypeOK, LoadSound, NEW q \in PageQueries, RefreshPage(q), UNCHANGED analytics
    PROVE  /\ loading' \in Loads /\ Refreshing' /\ LoadSound'
           /\ excuse' \in SUBSET {"coalesced", "failed"}
  <1>1. loading \in Loads /\ analytics \in Nat /\ excuse \in SUBSET {"coalesced", "failed"}
    BY WebBoundsAssumption DEF WebTypeOK, Loads
  <1>2. CASE Refreshing
    BY <1>1, <1>2 DEF RefreshPage, LoadSound, Refreshing
  <1>3. CASE ~Refreshing
    <2>1. loading' = NewLoad(q) /\ excuse' = excuse
      BY <1>3 DEF RefreshPage
    <2>2. NewLoad(q) \in Loads /\ NewLoad(q).pc = "run" /\ NewLoad(q).version = 0 /\ NewLoad(q).at = 0
      BY LoadingTypes
    <2> HIDE DEF NewLoad
    <2> QED
      BY <1>1, <2>1, <2>2 DEF LoadSound, Refreshing
  <1> QED
    BY <1>2, <1>3

-----------------------------------------------------------------------------
(* The inductive invariant.                                                *)

LEMMA WebInitSound == WebInit => WebInv
  <1> SUFFICES ASSUME WebInit PROVE WebInv
    OBVIOUS
  <1>1. PICK q \in PageQueries : query = Synced(q)
    BY DEF WebInit
  <1>2. query \in PageQueries /\ (query.long => query.mode = "aggregate")
    BY <1>1, SyncedSound
  <1>3. loading = NewLoad(query) /\ loading \in Loads /\ loading.pc = "run"
        /\ loading.version = 0 /\ loading.at = 0
    BY <1>2, LoadingTypes DEF WebInit
  <1>4. page \in Dashboards /\ lastDashboard = page /\ ~page.there /\ page.version = 0 /\ page.at = 0
    BY NoDashboardType DEF WebInit
  <1>5. /\ analytics = 1 /\ pageVersion = 0 /\ check = NoCheck /\ excuse = {}
        /\ bucket = Nobody /\ bucketRows = Nobody /\ bucketCache = Nobody
        /\ call = Nobody /\ detail = Nobody /\ payloadTitle = Nobody
        /\ answered = FALSE /\ mixed = {} /\ clicks = 0 /\ mishaps = 0
    BY DEF WebInit
  <1>6. pending \in [Subjects -> Nat]
    BY DEF WebInit
  <1>7. WebTypeOK
    <2>1. analytics \in 1 .. MaxAnalytics /\ pageVersion \in 0 .. MaxAnalytics
      BY <1>5, WebBoundsAssumption
    <2>2. /\ {bucket, bucketRows, bucketCache} \subseteq Buckets \cup {Nobody}
          /\ {call, detail, payloadTitle} \subseteq Calls \cup {Nobody}
          /\ excuse \in SUBSET {"coalesced", "failed"}
          /\ answered \in BOOLEAN /\ mixed \in SUBSET Subjects
          /\ clicks \in Nat /\ mishaps \in Nat
      BY <1>5
    <2> QED
      BY <1>2, <1>3, <1>4, <1>5, <1>6, <2>1, <2>2, NoCheckType DEF WebTypeOK, Loads, Checks
  <1>8. OwnDetails
    BY <1>5 DEF OwnDetails, OwnCall, OwnBucket
  <1> QED
    BY <1>2, <1>3, <1>4, <1>5, <1>7, <1>8
    DEF WebInv, LoadSound, AtHandIsRendered, AtRest, Refreshing

LEMMA LoadKeepsWebInv == WebInv /\ LoadStep => WebInv'
  <1> SUFFICES ASSUME WebInv, LoadStep PROVE WebInv'
    OBVIOUS
  <1> USE DEF WebInv
  <1>1. loading \in Loads /\ analytics \in Nat /\ loading.ask \in PageQueries /\ 0 \in Nat
        /\ loading.version \in Nat /\ loading.at \in Nat
    BY WebBoundsAssumption DEF WebTypeOK, Loads
  <1>2. CASE ReadState
    <2>1. loading' = [loading EXCEPT !.version = analytics] /\ loading.at = 0 /\ Refreshing
          /\ UNCHANGED <<analytics, check, pageVars, dialogVars, bounds>>
      BY <1>2 DEF ReadState, ReadBefore
    <2>2. loading' \in Loads /\ loading'.pc = "run" /\ loading'.version = analytics /\ loading'.at = 0
      BY <1>1, <2>1, LoadReads DEF Refreshing
    <2>3. WebTypeOK'
      BY <2>1, <2>2 DEF WebTypeOK, Loads, pageVars, dialogVars, bucketVars, callVars, bounds
    <2> QED
      BY <1>1, <2>1, <2>2, <2>3
      DEF LoadSound, AtHandIsRendered, AtRest, Refreshing, OwnDetails, OwnCall, OwnBucket, pageVars,
          dialogVars, bucketVars, callVars
  <1>3. CASE ReadDashboard
    <2>1. loading' = [loading EXCEPT !.at = analytics] /\ loading.version # 0 /\ Refreshing
          /\ UNCHANGED <<analytics, check, pageVars, dialogVars, bounds>>
      BY <1>3 DEF ReadDashboard, ReadBefore
    <2>2. loading' \in Loads /\ loading'.pc = "run" /\ loading'.at = analytics
          /\ loading'.version = loading.version
      BY <1>1, <2>1, LoadReads DEF Refreshing
    <2>3. WebTypeOK'
      BY <2>1, <2>2 DEF WebTypeOK, Loads, pageVars, dialogVars, bucketVars, callVars, bounds
    <2> QED
      BY <1>1, <2>1, <2>2, <2>3
      DEF LoadSound, AtHandIsRendered, AtRest, Refreshing, OwnDetails, OwnCall, OwnBucket, pageVars,
          dialogVars, bucketVars, callVars
  <1>4. CASE ShowAnswer
    <2>1. /\ lastDashboard' = Answer /\ RenderDashboard(Answer) /\ pageVersion' = loading.version
          /\ loading' = NoLoad(loading.ask) /\ loading.version # 0 /\ loading.at # 0
          /\ excuse' = IF loading.ask = query' THEN {} ELSE {"coalesced"}
          /\ UNCHANGED <<analytics, check, dialogVars, bounds>>
      BY <1>4 DEF ShowAnswer
    <2>2. /\ Answer \in Dashboards /\ Answer.there /\ Answer.ask = loading.ask
          /\ Answer.version = loading.version /\ Answer.at = loading.at
      BY <1>1 DEF Answer, Dashboards, PageQueries
    <2> HIDE DEF Answer
    <2>3. /\ query' \in PageQueries /\ page' \in Dashboards
          /\ query'.long => query'.mode = "aggregate"
          /\ page'.ask = loading.ask /\ page'.table = query'.mode /\ page'.there
          /\ page'.version = loading.version /\ page'.at = loading.at
      BY <2>1, <2>2, RenderSound
    <2>4. /\ loading' \in Loads /\ loading'.version = 0 /\ loading'.at = 0
      BY <1>1, <2>1, LoadingTypes
    <2>5. loading.version <= loading.at /\ loading.version <= analytics
      BY <2>1 DEF LoadSound
    <2>6. excuse' \in SUBSET {"coalesced", "failed"} /\ (excuse' = {} => loading.ask = query')
      BY <2>1
    <2>7. WebTypeOK'
      <3>1. pageVersion' \in 0 .. MaxAnalytics
        BY <1>1, <2>1, <2>5, WebBoundsAssumption DEF WebTypeOK
      <3> QED
        BY <2>1, <2>2, <2>3, <2>4, <2>6, <3>1 DEF WebTypeOK, Loads, dialogVars, bucketVars, callVars, bounds
    <2>8. LoadSound'
      BY <1>1, <2>1, <2>4 DEF LoadSound
    <2>9. AtHandIsRendered'
      BY <2>1, <2>2, <2>3, <2>5 DEF AtHandIsRendered
    <2>10. AtRest'
      BY <2>3, <2>6 DEF AtRest, Shows
    <2>11. OwnDetails'
      BY <2>1 DEF OwnDetails, OwnCall, OwnBucket, dialogVars, bucketVars, callVars
    <2> QED
      BY <2>7, <2>8, <2>9, <2>10, <2>11
  <1>5. CASE LoadFails
    <2>1. /\ loading' = NoLoad(loading.ask) /\ Mishap
          /\ excuse' = IF pageVersion = analytics THEN excuse \cup {"failed"} ELSE excuse
          /\ UNCHANGED <<analytics, check, query, lastDashboard, page, pageVersion, dialogVars>>
      BY <1>5 DEF LoadFails
    <2>2. loading' \in Loads /\ loading'.version = 0 /\ loading'.at = 0
      BY <1>1, <2>1, LoadingTypes
    <2>3. excuse' \in SUBSET {"coalesced", "failed"} /\ (pageVersion = analytics => excuse' # {})
      BY <2>1 DEF WebTypeOK
    <2>4. mishaps' \in Nat /\ clicks' \in Nat
      BY <2>1 DEF Mishap, WebTypeOK
    <2>5. WebTypeOK'
      BY <2>1, <2>2, <2>3, <2>4 DEF WebTypeOK, Loads, dialogVars, bucketVars, callVars
    <2>6. LoadSound' /\ AtHandIsRendered' /\ OwnDetails'
      BY <1>1, <2>1, <2>2 DEF LoadSound, AtHandIsRendered, OwnDetails, OwnCall, OwnBucket,
                             dialogVars, bucketVars, callVars
    <2>7. AtRest'
      <3>1. pageVersion \in Nat /\ pageVersion <= analytics
        BY DEF AtHandIsRendered, WebTypeOK
      <3> QED
        BY <1>1, <2>1, <2>3, <3>1 DEF AtRest
    <2> QED
      BY <2>5, <2>6, <2>7
  <1> QED
    BY <1>2, <1>3, <1>4, <1>5 DEF LoadStep

\* The user changes the query and a refresh is asked for.
LEMMA RefreshKeepsWebInv ==
    ASSUME WebInv, NEW q \in PageQueries, q.long => q.mode = "aggregate", RefreshPage(q), query' = q,
           lastDashboard' \in {lastDashboard, NoDashboard},
           check' \in Checks, clicks' \in Nat, mishaps' \in Nat,
           UNCHANGED <<analytics, page, pageVersion, dialogVars>>
    PROVE  WebInv'
  <1> USE DEF WebInv
  <1>1. loading' \in Loads /\ Refreshing' /\ LoadSound' /\ excuse' \in SUBSET {"coalesced", "failed"}
    BY RefreshPageSound
  <1>2. lastDashboard' \in Dashboards /\ (lastDashboard'.there => lastDashboard' = lastDashboard)
        /\ lastDashboard'.version <= lastDashboard'.at
    BY NoDashboardType DEF WebTypeOK, AtHandIsRendered
  <1>3. WebTypeOK'
    BY <1>1, <1>2 DEF WebTypeOK, Loads, Checks, dialogVars, bucketVars, callVars
  <1>4. AtHandIsRendered'
    BY <1>2 DEF AtHandIsRendered
  <1>5. OwnDetails'
    BY DEF OwnDetails, OwnCall, OwnBucket, dialogVars, bucketVars, callVars
  <1> QED
    BY <1>1, <1>3, <1>4, <1>5 DEF AtRest

-----------------------------------------------------------------------------
(* The dialogs.                                                            *)

LEMMA PendingChanges ==
    ASSUME WebTypeOK, NEW s \in Subjects
    PROVE  /\ Sent(s) \in [Subjects -> Nat]
           /\ \A o \in Subjects \ {s} : Sent(s)[o] = pending[o]
           /\ pending[s] > 0 => /\ Received(s) \in [Subjects -> Nat]
                                /\ \A o \in Subjects : pending[o] = 0 => Received(s)[o] = 0
  <1>1. pending \in [Subjects -> Nat]
    BY DEF WebTypeOK
  <1>2. pending[s] \in Nat
    BY <1>1
  <1>3. pending[s] > 0 => Received(s) \in [Subjects -> Nat]
    BY <1>1, <1>2 DEF Received
  <1>4. pending[s] > 0 => \A o \in Subjects : pending[o] = 0 => Received(s)[o] = 0
    BY <1>1, <1>2 DEF Received
  <1>5. Sent(s) \in [Subjects -> Nat] /\ \A o \in Subjects \ {s} : Sent(s)[o] = pending[o]
    BY <1>1, <1>2 DEF Sent
  <1> QED
    BY <1>3, <1>4, <1>5

\* What happens in the dialogs leaves the page as it is.
LEMMA PageBehindDialogs ==
    ASSUME WebInv, UNCHANGED <<analytics, loading, check, pageVars>>,
           {bucket', bucketRows', bucketCache'} \subseteq Buckets \cup {Nobody},
           {call', detail', payloadTitle'} \subseteq Calls \cup {Nobody},
           pending' \in [Subjects -> Nat], answered' \in BOOLEAN,
           mixed' \in SUBSET Subjects, clicks' \in Nat, mishaps' \in Nat,
           OwnCall', OwnBucket'
    PROVE  WebInv'
  <1>1. WebTypeOK'
    BY DEF WebInv, WebTypeOK, pageVars
  <1>2. LoadSound' /\ AtHandIsRendered' /\ AtRest'
    BY DEF WebInv, LoadSound, AtHandIsRendered, AtRest, Refreshing, Shows, pageVars
  <1> QED
    BY <1>1, <1>2 DEF WebInv, OwnDetails

LEMMA DialogTypes ==
    WebInv => /\ {bucket, bucketRows, bucketCache} \subseteq Buckets \cup {Nobody}
              /\ {call, detail, payloadTitle} \subseteq Calls \cup {Nobody}
              /\ pending \in [Subjects -> Nat] /\ answered \in BOOLEAN
              /\ mixed \in SUBSET Subjects /\ clicks \in Nat /\ mishaps \in Nat
              /\ (Click => clicks' \in Nat /\ mishaps' \in Nat)
              /\ (Mishap => clicks' \in Nat /\ mishaps' \in Nat)
              /\ WebTypeOK /\ OwnCall /\ OwnBucket
  BY DEF WebInv, WebTypeOK, OwnDetails, Click, Mishap

LEMMA BucketKeepsWebInv ==
    WebInv /\ ((\E b \in Buckets : OpenBucket(b)) \/ SortBucket \/ CloseBucket) => WebInv'
  <1> SUFFICES ASSUME WebInv, (\E x \in Buckets : OpenBucket(x)) \/ SortBucket \/ CloseBucket
               PROVE  WebInv'
    OBVIOUS
  <1> USE DialogTypes
  <1>1. CASE \E x \in Buckets : OpenBucket(x)
    <2>1. PICK x \in Buckets : OpenBucket(x)
      BY <1>1
    <2>2. /\ bucket' = x /\ bucketRows' = Nobody /\ answered' = FALSE /\ call = Nobody
          /\ pending' = Sent(x) /\ Mixed(Buckets, x) /\ Click
          /\ UNCHANGED <<analytics, loading, check, pageVars, bucketCache, call, detail, payloadTitle>>
      BY <2>1 DEF OpenBucket, Uncovered, callVars
    <2>3. /\ pending' \in [Subjects -> Nat]
          /\ \A o \in Buckets \ {x} : pending'[o] = pending[o] /\ pending[o] \in Nat
      BY <2>2, PendingChanges DEF Subjects
    <2>4. /\ mixed' \in SUBSET Subjects
          /\ mixed' \cap Calls = mixed \cap Calls
          /\ \A o \in Buckets \ ({x} \cup mixed') : ~(pending[o] > 0)
      BY <2>2, DialogsAssumption DEF Mixed, Subjects
    <2>5. OwnCall' /\ OwnBucket'
      BY <2>2, <2>3, <2>4 DEF OwnCall, OwnBucket
    <2> QED
      BY <2>2, <2>3, <2>4, <2>5, PageBehindDialogs
  <1>2. CASE SortBucket
    <2>1. /\ bucketRows' = bucketCache /\ bucket # Nobody
          /\ UNCHANGED <<analytics, loading, check, pageVars, bucket, bucketCache, answered,
                         call, detail, payloadTitle, pending, mixed, clicks, mishaps>>
      BY <1>2 DEF SortBucket, callVars, bounds
    <2>2. answered => bucketRows = bucketCache
      BY <2>1, DialogsAssumption DEF OwnBucket, Subjects
    <2>3. OwnCall' /\ OwnBucket'
      BY <2>1, <2>2 DEF OwnCall, OwnBucket
    <2> QED
      BY <2>1, <2>3, PageBehindDialogs
  <1>3. CASE CloseBucket
    <2>1. /\ bucket' = Nobody
          /\ UNCHANGED <<analytics, loading, check, pageVars, bucketRows, bucketCache, answered,
                         call, detail, payloadTitle, pending, mixed, clicks, mishaps>>
      BY <1>3 DEF CloseBucket, callVars, bounds
    <2>2. OwnCall' /\ OwnBucket'
      BY <2>1 DEF OwnCall, OwnBucket
    <2> QED
      BY <2>1, <2>2, PageBehindDialogs
  <1> QED
    BY <1>1, <1>2, <1>3

LEMMA CallKeepsWebInv ==
    WebInv /\ ((\E c \in Calls : OpenCall(c)) \/ CloseCall) => WebInv'
  <1> SUFFICES ASSUME WebInv, (\E x \in Calls : OpenCall(x)) \/ CloseCall PROVE WebInv'
    OBVIOUS
  <1> USE DialogTypes
  <1>1. CASE \E x \in Calls : OpenCall(x)
    <2>1. PICK x \in Calls : OpenCall(x)
      BY <1>1
    <2>2. /\ call' = x /\ detail' = Nobody
          /\ pending' = Sent(x) /\ Mixed(Calls, x) /\ Click
          /\ UNCHANGED <<analytics, loading, check, pageVars, bucket, bucketRows, bucketCache,
                         answered, payloadTitle>>
      BY <2>1 DEF OpenCall, AtOpening, bucketVars
    <2>3. /\ pending' \in [Subjects -> Nat]
          /\ \A o \in Subjects \ {x} : pending'[o] = pending[o] /\ pending[o] \in Nat
      BY <2>2, PendingChanges DEF Subjects
    <2>4. /\ mixed' \in SUBSET Subjects
          /\ mixed' \cap Buckets = mixed \cap Buckets
          /\ \A o \in Calls \ ({x} \cup mixed') : ~(pending[o] > 0)
      BY <2>2, DialogsAssumption DEF Mixed, Subjects
    <2>5. OwnCall'
      BY <2>2, <2>3, <2>4 DEF OwnCall, Subjects
    <2>6. \A o \in Buckets : pending'[o] = pending[o]
      BY <2>3, DialogsAssumption DEF Subjects
    <2>7. OwnBucket'
      <3>1. \A o \in Buckets \cup {Nobody} : o \in mixed' <=> o \in mixed
        BY <2>4, DialogsAssumption DEF Subjects
      <3>2. bucketRows \in Buckets \cup {Nobody}
        OBVIOUS
      <3>3. bucket # Nobody /\ answered => bucketRows \in {bucket} \cup mixed'
        BY <3>1, <3>2 DEF OwnBucket
      <3>4. bucket # Nobody => \A o \in Buckets \ ({bucket} \cup mixed') : pending[o] = 0
        BY <3>1 DEF OwnBucket
      <3> QED
        BY <2>2, <2>6, <3>3, <3>4 DEF OwnBucket
    <2> QED
      BY <2>2, <2>3, <2>4, <2>5, <2>7, PageBehindDialogs
  <1>2. CASE CloseCall
    <2>1. /\ call' = Nobody /\ detail' = Nobody
          /\ UNCHANGED <<analytics, loading, check, pageVars, bucket, bucketRows, bucketCache,
                         answered, payloadTitle, pending, mixed, clicks, mishaps>>
      BY <1>2 DEF CloseCall, bucketVars, bounds
    <2>2. OwnCall' /\ OwnBucket'
      BY <2>1 DEF OwnCall, OwnBucket
    <2> QED
      BY <2>1, <2>2, PageBehindDialogs
  <1> QED
    BY <1>1, <1>2

LEMMA DetailsKeepWebInv == WebInv /\ DetailStep => WebInv'
  <1> SUFFICES ASSUME WebInv, DetailStep PROVE WebInv'
    OBVIOUS
  <1> USE DialogTypes
  <1>1. CASE \E x \in Buckets : BucketAnswers(x)
    <2>1. PICK x \in Buckets : BucketAnswers(x)
      BY <1>1
    <2>2. /\ pending[x] > 0 /\ pending' = Received(x)
          /\ bucketCache' = x /\ bucketRows' = x /\ answered' = (answered \/ x = bucket)
          /\ UNCHANGED <<analytics, loading, check, pageVars, bucket, call, detail, payloadTitle,
                         mixed, clicks, mishaps>>
      BY <2>1 DEF BucketAnswers, callVars, bounds
    <2>3. /\ pending' \in [Subjects -> Nat]
          /\ \A o \in Subjects : pending[o] = 0 => pending'[o] = 0
      BY <2>2, PendingChanges DEF Subjects
    <2>4. OwnCall'
      BY <2>2, <2>3 DEF OwnCall, Subjects
    <2>5. bucket # Nobody => x \in {bucket} \cup mixed
      <3>1. pending[x] # 0
        BY <2>2
      <3> QED
        BY <3>1 DEF OwnBucket
    <2>6. OwnBucket'
      BY <2>2, <2>3, <2>5 DEF OwnBucket, Subjects
    <2>7. answered' \in BOOLEAN
      BY <2>2, Zenon
    <2> QED
      BY <2>2, <2>3, <2>4, <2>6, <2>7, PageBehindDialogs
  <1>2. CASE \E x \in Calls : CallAnswers(x)
    <2>1. PICK x \in Calls : CallAnswers(x)
      BY <1>2
    <2>2. /\ pending[x] > 0 /\ pending' = Received(x)
          /\ detail' = x /\ payloadTitle' = x
          /\ UNCHANGED <<analytics, loading, check, pageVars, bucket, bucketRows, bucketCache,
                         answered, call, mixed, clicks, mishaps>>
      BY <2>1 DEF CallAnswers, bucketVars, bounds
    <2>3. /\ pending' \in [Subjects -> Nat]
          /\ \A o \in Subjects : pending[o] = 0 => pending'[o] = 0
      BY <2>2, PendingChanges DEF Subjects
    <2>4. OwnBucket'
      BY <2>2, <2>3 DEF OwnBucket, Subjects
    <2>5. call # Nobody => x \in {call} \cup mixed
      <3>1. pending[x] # 0
        BY <2>2
      <3> QED
        BY <3>1 DEF OwnCall
    <2>6. OwnCall'
      BY <2>2, <2>3, <2>5 DEF OwnCall, Subjects
    <2> QED
      BY <2>2, <2>3, <2>4, <2>6, PageBehindDialogs
  <1>3. CASE \E s \in Subjects : DetailFails(s)
    <2>1. PICK s \in Subjects : DetailFails(s)
      BY <1>3
    <2>2. /\ pending[s] > 0 /\ pending' = Received(s) /\ Mishap
          /\ UNCHANGED <<analytics, loading, check, pageVars, bucket, bucketRows, bucketCache,
                         answered, call, detail, payloadTitle, mixed>>
      BY <2>1 DEF DetailFails, bucketVars, callVars
    <2>3. /\ pending' \in [Subjects -> Nat]
          /\ \A o \in Subjects : pending[o] = 0 => pending'[o] = 0
      BY <2>2, PendingChanges
    <2>4. OwnCall' /\ OwnBucket'
      BY <2>2, <2>3 DEF OwnCall, OwnBucket, Subjects
    <2> QED
      BY <2>2, <2>3, <2>4, PageBehindDialogs
  <1> QED
    BY <1>1, <1>2, <1>3 DEF DetailStep

LEMMA UserKeepsWebInv == WebInv /\ UserActs => WebInv'
  <1> SUFFICES ASSUME WebInv, UserActs PROVE WebInv'
    OBVIOUS
  <1> USE DEF WebInv
  <1>1. /\ query \in PageQueries /\ lastDashboard \in Dashboards
        /\ check \in Checks
        /\ clicks \in Nat /\ mishaps \in Nat
        /\ query.long => query.mode = "aggregate"
    BY DEF WebTypeOK, Checks, AtHandIsRendered
  <1>2. Click => clicks' \in Nat /\ mishaps' \in Nat
    BY <1>1 DEF Click
  <1>3. CASE ChangeRange
    <2>1. /\ query' = Synced([query EXCEPT !.long = ~query.long]) /\ RefreshPage(query') /\ Click
          /\ UNCHANGED <<analytics, check, lastDashboard, page, pageVersion, dialogVars>>
      BY <1>3 DEF ChangeRange
    <2>2. query' \in PageQueries /\ (query'.long => query'.mode = "aggregate")
      BY <1>1, <2>1, QueryChanges, SyncedSound
    <2> QED
      BY <1>1, <1>2, <2>1, <2>2, RefreshKeepsWebInv
  <1>4. CASE ChangeTaskMode
    <2> DEFINE other == IF query.mode = "separate" THEN "aggregate" ELSE "separate"
    <2>1. /\ query' = [query EXCEPT !.mode = other] /\ RefreshPage(query') /\ Click /\ ~query.long
          /\ UNCHANGED <<analytics, check, lastDashboard, page, pageVersion, dialogVars>>
      BY <1>4 DEF ChangeTaskMode
    <2>2. other \in Modes
      BY DEF Modes
    <2> HIDE DEF other
    <2>3. query' \in PageQueries /\ (query'.long => query'.mode = "aggregate")
      BY <1>1, <2>1, <2>2, QueryChanges
    <2> QED
      BY <1>1, <1>2, <2>1, <2>3, RefreshKeepsWebInv
  <1>5. CASE ChangeTab
    <2>1. PICK t \in Tabs : query' = [query EXCEPT !.tab = t]
      BY <1>5 DEF ChangeTab
    <2>2. /\ RefreshPage(query') /\ Click /\ lastDashboard' = NoDashboard
          /\ UNCHANGED <<analytics, check, page, pageVersion, dialogVars>>
      BY <1>5 DEF ChangeTab
    <2>3. query' \in PageQueries /\ (query'.long => query'.mode = "aggregate")
      BY <1>1, <2>1, QueryChanges
    <2> QED
      BY <1>1, <1>2, <2>2, <2>3, RefreshKeepsWebInv
  <1>6. CASE PressRefreshButton
    <2>1. /\ RefreshPage(query) /\ Click
          /\ UNCHANGED <<analytics, check, query, lastDashboard, page, pageVersion, dialogVars>>
      BY <1>6 DEF PressRefreshButton
    <2> QED
      BY <1>1, <1>2, <2>1, RefreshKeepsWebInv
  <1>7. CASE ChangeChart
    <2>1. /\ lastDashboard.there /\ RenderDashboard(lastDashboard) /\ Click
          /\ UNCHANGED <<analytics, loading, check, lastDashboard, pageVersion, excuse, dialogVars>>
      BY <1>7 DEF ChangeChart
    <2>2. /\ query' \in PageQueries /\ page' \in Dashboards
          /\ query'.long => query'.mode = "aggregate"
          /\ query' = Synced([query EXCEPT !.mode = lastDashboard.ask.mode])
          /\ page'.ask = lastDashboard.ask /\ page'.table = query'.mode
          /\ page'.there = lastDashboard.there
          /\ page'.version = lastDashboard.version /\ page'.at = lastDashboard.at
      BY <1>1, <2>1, RenderSound
    <2>3. Shows(query) => Shows(query)'
      <3> SUFFICES ASSUME Shows(query) PROVE page'.there /\ page'.ask = query' /\ page'.table = query'.mode
        BY DEF Shows
      <3>1. lastDashboard.ask = query
        BY <2>1 DEF Shows, AtHandIsRendered
      <3>2. query' = query
        BY <1>1, <2>2, <3>1, QueryChanges, SyncedSound
      <3> QED
        BY <2>1, <2>2, <3>1, <3>2
    <2>4. WebTypeOK'
      BY <1>2, <2>1, <2>2 DEF WebTypeOK, dialogVars, bucketVars, callVars
    <2>5. AtHandIsRendered'
      BY <2>1, <2>2 DEF AtHandIsRendered
    <2> QED
      BY <2>1, <2>3, <2>4, <2>5 DEF LoadSound, AtRest, Refreshing, OwnDetails, OwnCall,
                                          OwnBucket, dialogVars, bucketVars, callVars
  <1>8. CASE Reload
    <2>1. /\ query' = Synced(query) /\ loading' = NewLoad(query') /\ Click
          /\ lastDashboard' = NoDashboard /\ page' = NoDashboard /\ pageVersion' = 0
          /\ check' = NoCheck /\ excuse' = {} /\ UNCHANGED analytics
          /\ bucket' = Nobody /\ bucketRows' = Nobody /\ bucketCache' = Nobody
          /\ call' = Nobody /\ detail' = Nobody /\ payloadTitle' = Nobody
          /\ pending' = [s \in Subjects |-> 0]
          /\ answered' = FALSE /\ mixed' = {}
      BY <1>8 DEF Reload
    <2>2. query' \in PageQueries /\ (query'.long => query'.mode = "aggregate")
      BY <1>1, <2>1, SyncedSound
    <2>3. loading' \in Loads /\ loading'.pc = "run" /\ loading'.version = 0 /\ loading'.at = 0
      BY <2>1, <2>2, LoadingTypes
    <2>4. analytics \in Nat
      BY WebBoundsAssumption DEF WebTypeOK
    <2>5. WebTypeOK'
      <3>1. analytics' \in 1 .. MaxAnalytics /\ pageVersion' \in 0 .. MaxAnalytics
        BY <2>1, WebBoundsAssumption DEF WebTypeOK
      <3>2. /\ {bucket', bucketRows', bucketCache'} \subseteq Buckets \cup {Nobody}
            /\ {call', detail', payloadTitle'} \subseteq Calls \cup {Nobody}
            /\ excuse' \in SUBSET {"coalesced", "failed"}
            /\ answered' \in BOOLEAN /\ mixed' \in SUBSET Subjects
        BY <2>1
      <3>3. pending' \in [Subjects -> Nat] /\ page' \in Dashboards /\ lastDashboard' \in Dashboards
        BY <2>1, NoDashboardType
      <3> QED
        BY <1>2, <2>1, <2>2, <2>3, <3>1, <3>2, <3>3, NoCheckType DEF WebTypeOK, Loads, Checks
    <2>6. OwnDetails'
      BY <2>1 DEF OwnDetails, OwnCall, OwnBucket
    <2> QED
      BY <2>1, <2>2, <2>3, <2>4, <2>5, <2>6, NoDashboardType
      DEF LoadSound, AtHandIsRendered, AtRest, Refreshing
  <1>9. CASE (\E b \in Buckets : OpenBucket(b)) \/ SortBucket \/ CloseBucket
    BY <1>9, BucketKeepsWebInv
  <1>10. CASE (\E c \in Calls : OpenCall(c)) \/ CloseCall
    BY <1>10, CallKeepsWebInv
  <1> QED
    BY <1>3, <1>4, <1>5, <1>6, <1>7, <1>8, <1>9, <1>10 DEF UserActs

LEMMA CheckKeepsWebInv == WebInv /\ CheckStep => WebInv'
  <1> SUFFICES ASSUME WebInv, CheckStep PROVE WebInv'
    OBVIOUS
  <1> USE DEF WebInv
  <1>1. CASE AskState \/ StateRead \/ CheckFails
    <2>1. /\ UNCHANGED <<analytics, loading, pageVars, dialogVars>>
          /\ clicks' \in Nat /\ mishaps' \in Nat
      BY <1>1 DEF AskState, StateRead, CheckFails, Mishap, bounds, WebTypeOK
    <2>2. check' \in Checks
      <3>1. analytics \in Nat
        BY WebBoundsAssumption DEF WebTypeOK
      <3> QED
        BY <1>1, <3>1, NoCheckType DEF AskState, StateRead, CheckFails, Checks
    <2>3. WebTypeOK'
      BY <2>1, <2>2 DEF WebTypeOK, Checks, pageVars, dialogVars, bucketVars, callVars
    <2>4. OwnDetails'
      BY <2>1 DEF OwnDetails, OwnCall, OwnBucket, dialogVars, bucketVars, callVars
    <2> QED
      BY <2>1, <2>3, <2>4 DEF LoadSound, AtHandIsRendered, AtRest, Refreshing, Shows, pageVars
  <1>2. CASE StateAnswers
    <2>1. /\ check' = NoCheck /\ (RefreshPage(query) \/ UNCHANGED <<loading, excuse>>)
          /\ UNCHANGED <<analytics, query, lastDashboard, page, pageVersion, dialogVars, bounds>>
      BY <1>2 DEF StateAnswers
    <2>2. query \in PageQueries /\ (query.long => query.mode = "aggregate")
          /\ clicks' \in Nat /\ mishaps' \in Nat /\ check' \in Checks
      BY <2>1, NoCheckType DEF WebTypeOK, AtHandIsRendered, bounds
    <2>3. CASE RefreshPage(query)
      BY <2>1, <2>2, <2>3, RefreshKeepsWebInv
    <2>4. CASE UNCHANGED <<loading, excuse>>
      <3>1. WebTypeOK'
        BY <2>1, <2>2, <2>4 DEF WebTypeOK, Checks, dialogVars, bucketVars, callVars
      <3>2. OwnDetails'
        BY <2>1 DEF OwnDetails, OwnCall, OwnBucket, dialogVars, bucketVars, callVars
      <3> QED
        BY <2>1, <2>4, <3>1, <3>2 DEF LoadSound, AtHandIsRendered, AtRest, Refreshing, Shows
    <2> QED
      BY <2>1, <2>3, <2>4
  <1> QED
    BY <1>1, <1>2 DEF CheckStep

LEMMA OthersKeepWebInv == WebInv /\ (AnalyticsChange \/ UNCHANGED webVars) => WebInv'
  <1> SUFFICES ASSUME WebInv, AnalyticsChange \/ UNCHANGED webVars PROVE WebInv'
    OBVIOUS
  <1> USE DEF WebInv
  <1>1. /\ analytics' \in 1 .. MaxAnalytics /\ analytics <= analytics' /\ analytics \in Nat
        /\ UNCHANGED <<loading, check, pageVars, dialogVars, bounds>>
    BY WebBoundsAssumption DEF AnalyticsChange, webVars, WebTypeOK
  <1>2. WebTypeOK'
    BY <1>1 DEF WebTypeOK, pageVars, dialogVars, bucketVars, callVars, bounds
  <1>3. loading.version \in Nat /\ loading.at \in Nat /\ pageVersion \in Nat /\ analytics' \in Nat
    BY <1>1, WebBoundsAssumption DEF WebTypeOK
  <1>4. OwnDetails'
    BY <1>1 DEF OwnDetails, OwnCall, OwnBucket, dialogVars, bucketVars, callVars
  <1> QED
    BY <1>1, <1>2, <1>3, <1>4 DEF LoadSound, AtHandIsRendered, AtRest, Refreshing, Shows, pageVars

LEMMA WebInvariance == WebInit /\ [][WebNext]_webVars => []WebInv
  <1>1. WebInv /\ [WebNext]_webVars => WebInv'
    BY LoadKeepsWebInv, UserKeepsWebInv, CheckKeepsWebInv, DetailsKeepWebInv, OthersKeepWebInv
    DEF WebNext
  <1> QED
    BY <1>1, WebInitSound, PTL

LEMMA PageTrue == WebInv => PageIsTrue
  <1> SUFFICES ASSUME WebInv PROVE LabelIsTrue /\ FiltersAreTrue /\ CallIsTrue /\ BucketIsTrue
    BY DEF PageIsTrue
  <1> USE DEF WebInv
  <1>1. LabelIsTrue
    BY DEF LabelIsTrue, AtHandIsRendered, WebTypeOK, Dashboards
  <1>2. FiltersAreTrue
    <2>1. analytics \in Nat
      BY WebBoundsAssumption DEF WebTypeOK
    <2> QED
      BY <2>1 DEF FiltersAreTrue, AtRest
  <1>3. CallIsTrue /\ BucketIsTrue
    BY DEF CallIsTrue, BucketIsTrue, OwnDetails, OwnCall, OwnBucket
  <1> QED
    BY <1>1, <1>2, <1>3

-----------------------------------------------------------------------------
(* Theorems.                                                               *)

(***************************************************************************)
(* The page, its request, its check and its dialog keep their types.       *)
(***************************************************************************)
THEOREM WebTypes == WebSpec => []WebTypeOK
  <1>1. WebInv => WebTypeOK
    BY DEF WebInv
  <1> QED
    BY <1>1, WebInvariance, PTL DEF WebSpec

(***************************************************************************)
(* The page shows what it says: rows no older than the version the next    *)
(* poll compares, of the selected tab, range and mode, the details of the  *)
(* call and, once answered, the rows of the bucket that were opened,       *)
(* whatever the page keeps of former dialogs (refreshNow, renderDashboard, *)
(* openTaskDetail, openBucketDetail, changeSort).                          *)
(***************************************************************************)
THEOREM PageStaysTrue == WebSpec => []PageIsTrue
  BY PageTrue, WebInvariance, PTL DEF WebSpec

-----------------------------------------------------------------------------
(* The readers in one instance.                                            *)

\* Each step of the instance is, for every reader, one of its own or none.
LEMMA StepsAreTheirOwn ==
    ASSUME [ReadersNext]_readersVars
    PROVE  /\ [ClientNext]_clientVars
           /\ [SettingsNext]_settingsVars
           /\ [SignalsNext]_signalVars
           /\ [WebNext]_webVars
           /\ [QueriesNext]_queryVars
           /\ UNCHANGED reader
  <1>1. CASE \/ Client(WorkerStep) \/ Client(RetryWindowPasses) \/ Client(EventLoopStep)
             \/ Client(UserStep) \/ Client(ServerStep)
    BY <1>1 DEF Client, Moves, ClientNext
  <1>2. CASE Settings(SettingsNext)
    BY <1>2 DEF Settings, Moves
  <1>3. CASE Signals(SignalsNext)
    BY <1>3 DEF Signals, Moves
  <1>4. CASE \/ Page(LoadStep) \/ Page(CheckStep) \/ Page(DetailStep)
             \/ Page(UserActs) \/ Page(AnalyticsChange)
    BY <1>4 DEF Page, Moves, WebNext
  <1>5. CASE Queries(QueriesNext)
    BY <1>5 DEF Queries, Moves
  <1>6. CASE UNCHANGED readersVars
    BY <1>6 DEF readersVars
  <1> QED
    BY <1>1, <1>2, <1>3, <1>4, <1>5, <1>6 DEF ReadersNext

(***************************************************************************)
(* Composition: each reader behaves in the common instance as it does by    *)
(* itself, fairness apart, so that what is proved of it alone holds there.  *)
(***************************************************************************)
THEOREM ReadersAreThemselves ==
    ReadersSpec => /\ ClientInit /\ [][ClientNext]_clientVars
                   /\ SettingsSpec
                   /\ SignalsSpec
                   /\ WebInit /\ [][WebNext]_webVars
                   /\ QueriesSpec
  <1>1. ReadersInit => ClientInit /\ SettingsInit /\ SignalsInit /\ WebInit /\ QueriesInit
    BY DEF ReadersInit
  <1>2. [ReadersNext]_readersVars =>
            /\ [ClientNext]_clientVars
            /\ [SettingsNext]_settingsVars
            /\ [SignalsNext]_signalVars
            /\ [WebNext]_webVars
            /\ [QueriesNext]_queryVars
    BY StepsAreTheirOwn
  <1> QED
    BY <1>1, <1>2, PTL DEF ReadersSpec, SettingsSpec, SignalsSpec, QueriesSpec

(***************************************************************************)
(* Every reader's state keeps its types, whichever of them moves.           *)
(***************************************************************************)
THEOREM ReadersTypes == ReadersSpec => []TypeOK
  <1>1. ReadersInit => reader \in Readers
    BY DEF ReadersInit
  <1>2. reader \in Readers /\ [ReadersNext]_readersVars => (reader \in Readers)'
    BY StepsAreTheirOwn
  <1>3. ReadersSpec => [](reader \in Readers)
    BY <1>1, <1>2, PTL DEF ReadersSpec
  <1>4. IInv => ClientTypeOK
    BY DEF IInv
  <1>5. WebInv => WebTypeOK
    BY DEF WebInv
  <1>6. /\ reader \in Readers
        /\ ClientTypeOK /\ SettingsTypeOK /\ SignalsTypeOK /\ WebTypeOK /\ QueriesTypeOK
        => TypeOK
    BY DEF TypeOK
  <1> QED
    BY <1>3, <1>4, <1>5, <1>6, ReadersAreThemselves, ClientIInv, SettingsTypes, SignalTypes,
       WebInvariance, QueryTypes, PTL

(***************************************************************************)
(* In one instance, too: tabs show rows of their own, polls hide nothing,   *)
(* one child serves at most, settings survive, signals tell news, the page  *)
(* is what it says, and a dashboard during which no row was rewritten is    *)
(* one picture.                                                             *)
(***************************************************************************)
THEOREM ReadersKeepTheirPromises ==
    ReadersSpec => /\ []TabsShowTheirOwn
                   /\ []PollsHideNothing
                   /\ []OneRecoveryChild
                   /\ []SettingsSurvive
                   /\ SignalsOnce
                   /\ []PageIsTrue
                   /\ []DashboardAgrees
  <1>1. IInv /\ ChildInv => TabsShowTheirOwn /\ OneRecoveryChild
    BY DEF IInv, ChildInv, OneRecoveryChild
  <1> QED
    BY <1>1, ReadersAreThemselves, ClientIInv, ClientKnowsAll, KnownShows,
       SavedSettingsSurvive, SignalsTellNews, PageTrue, WebInvariance, DashboardIsOnePicture, PTL
=============================================================================
