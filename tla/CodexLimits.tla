----------------------------- MODULE CodexLimits -----------------------------
(***************************************************************************)
(* How the account limits get to a request.  read_usage_limits             *)
(* (app/services/codex_account_service.py) runs in the thread of each      *)
(* request.  It asks a Codex app server, a child process that speaks       *)
(* JSON lines, through a client that all requests share                    *)
(* (app/services/codex_app_server_client.py), and keeps the last snapshot  *)
(* in three globals that no lock protects.                                 *)
(*                                                                         *)
(* The server may be slow, silent, talkative or gone at any time, and the  *)
(* owner may edit the configuration while requests are under way: another  *)
(* command or idle time replaces the shared client, `persistent: false`    *)
(* gives each request a client of its own, and limits may be switched off. *)
(***************************************************************************)
EXTENDS Naturals, Sequences, FiniteSets

CONSTANTS
    Handlers,       \* threads of requests
    Clients,        \* objects of class CodexAppServerClient
    Configs,        \* what the owner may configure
    FirstConfig,    \* the configuration at the start
    NoClient,       \* None
    NoHandler,      \* nobody holds the lock
    NoCommand,      \* _CACHE_COMMAND before the first success
    MaxRequests,    \* bound: requests
    MaxEdits,       \* bound: edits of the configuration
    MaxUsed,        \* bound: how far the account's usage grows
    MaxExits,       \* bound: servers that exit of themselves
    MaxNotices      \* bound: lines in the queue when an unasked one arrives

Commands == {c.cmd : c \in Configs}

ASSUME ConfigsAssumption ==
    /\ \A c \in Configs : c.mode \in {"off", "shared", "once"} /\ c.idle \in Nat
    /\ Configs = {[mode |-> c.mode, cmd |-> c.cmd, idle |-> c.idle] : c \in Configs}
    /\ FirstConfig \in Configs
ASSUME NobodyAssumption ==
    /\ NoClient \notin Clients /\ NoHandler \notin Handlers /\ NoCommand \notin Commands
ASSUME BoundsAssumption ==
    /\ MaxRequests \in Nat /\ MaxEdits \in Nat /\ MaxUsed \in Nat
    /\ MaxExits \in Nat /\ MaxNotices \in Nat

VARIABLES
    conf,           \* the configuration file
    edits,          \* how often it was edited (bounded)
    used,           \* usage of the account, as the server would report it
    asked,          \* requests so far (bounded)
    exits,          \* servers that exited of themselves (bounded)
    pc,             \* where each request stands
    cfg,            \* the configuration it has loaded
    my,             \* the client it was given
    old,            \* the client it is about to close
    waitId,         \* the message it waits for
    got,            \* what the server answered, or what the request returned
    mark,           \* usage when the request began (history)
    client,         \* _CLIENT
    clientLock,     \* who holds _CLIENT_LOCK
    clients,        \* the clients and their processes
    cache,          \* _CACHE
    cacheFresh,     \* _CACHE_TS lies less than cache_seconds back
    cacheCmd,       \* _CACHE_COMMAND
    answered,       \* commands that have answered a request (history)
    astray          \* clients closed before a request they were given to (history)

ownerVars == <<conf, edits, used, exits>>

cacheVars == <<cache, cacheFresh, cacheCmd, answered>>

vars == <<ownerVars, asked, pc, cfg, my, old, waitId, got, mark, client, clientLock,
          clients, cacheVars, astray>>

\* What the server says of its account.
Snapshots == [used: Nat, cmd: Commands]

NoSnapshot == [used |-> 0, cmd |-> NoCommand]

\* A line of the server: the id it answers, 0 if none, and its snapshot.
Lines == [id: Nat, snap: Snapshots \cup {NoSnapshot}]

\* A line to the server.
Requests == [id: Nat, method: {"initialize", "read"}]

ClientStates ==
    [cmd: Commands \cup {NoCommand}, idle: Nat, lock: Handlers \cup {NoHandler},
     proc: {"none", "live", "dead"}, initialized: BOOLEAN, nextId: Nat,
     inbox: Seq(Requests), lines: Seq(Lines), greeted: BOOLEAN]      \* initialize answered

NewClient(cmd, idle) ==
    [cmd |-> cmd, idle |-> idle, lock |-> NoHandler,
     proc |-> "none", initialized |-> FALSE, nextId |-> 1,
     inbox |-> <<>>, lines |-> <<>>, greeted |-> FALSE]

Storing == {"snapshot", "command"}

Places == Storing \cup {"idle", "lookup", "copy", "client", "detach", "close", "own",
                       "request", "handshake", "wait", "fail"}

TypeOK ==
    /\ conf \in Configs
    /\ edits \in Nat /\ used \in Nat /\ asked \in Nat /\ exits \in Nat
    /\ pc \in [Handlers -> Places]
    /\ cfg \in [Handlers -> Configs]
    /\ my \in [Handlers -> Clients \cup {NoClient}]
    /\ old \in [Handlers -> Clients \cup {NoClient}]
    /\ waitId \in [Handlers -> Nat]
    /\ got \in [Handlers -> Snapshots \cup {NoSnapshot}]
    /\ mark \in [Handlers -> Nat]
    /\ client \in Clients \cup {NoClient}
    /\ clientLock \in Handlers \cup {NoHandler}
    /\ clients \in [Clients -> ClientStates]
    /\ cache \in Snapshots \cup {NoSnapshot}
    /\ cacheFresh \in BOOLEAN
    /\ cacheCmd \in Commands \cup {NoCommand}
    /\ answered \subseteq Commands
    /\ astray \subseteq Clients
    /\ \A h \in Handlers : pc[h] = "copy" => cache # NoSnapshot

Init ==
    /\ conf = FirstConfig /\ edits = 0 /\ used = 0 /\ asked = 0 /\ exits = 0
    /\ pc = [h \in Handlers |-> "idle"]
    /\ cfg = [h \in Handlers |-> FirstConfig]
    /\ my = [h \in Handlers |-> NoClient]
    /\ old = [h \in Handlers |-> NoClient]
    /\ waitId = [h \in Handlers |-> 0]
    /\ got = [h \in Handlers |-> NoSnapshot]
    /\ mark = [h \in Handlers |-> 0]
    /\ client = NoClient /\ clientLock = NoHandler
    /\ clients = [c \in Clients |-> NewClient(NoCommand, 0)]
    /\ cache = NoSnapshot /\ cacheFresh = FALSE /\ cacheCmd = NoCommand
    /\ answered = {} /\ astray = {}
-----------------------------------------------------------------------------
(* The owner, the account, the clock and the server.                       *)

requestVars == <<asked, pc, cfg, my, old, waitId, got, mark, client, clientLock, astray>>

EditConfig ==
    /\ edits < MaxEdits
    /\ conf' \in Configs \ {conf}
    /\ edits' = edits + 1
    /\ UNCHANGED <<used, exits, requestVars, clients, cacheVars>>

UseAccount ==
    /\ used < MaxUsed
    /\ used' = used + 1
    /\ UNCHANGED <<conf, edits, exits, requestVars, clients, cacheVars>>

CacheExpires ==
    /\ cacheFresh
    /\ cacheFresh' = FALSE
    /\ UNCHANGED <<ownerVars, requestVars, clients, cache, cacheCmd, answered>>

\* A server answers in order, a read with a snapshot or with an error.
ServerAnswers(c) ==
    LET s == clients[c] IN
    /\ s.proc = "live"
    /\ s.inbox # <<>>
    /\ LET m == Head(s.inbox)
           now == [used |-> used, cmd |-> s.cmd]
       IN  \E snap \in {NoSnapshot} \cup (IF m.method = "read" THEN {now} ELSE {}) :
             clients' = [clients EXCEPT
                 ![c].inbox = Tail(@),
                 ![c].lines = Append(@, [id |-> m.id, snap |-> snap]),
                 ![c].greeted = @ \/ m.method = "initialize"]
    /\ UNCHANGED <<ownerVars, requestVars, cacheVars>>

\* A notification, taken for an answer, would be a snapshot without windows.
ServerNotifies(c) ==
    /\ clients[c].proc = "live"
    /\ Len(clients[c].lines) < MaxNotices
    /\ clients' = [clients EXCEPT
           ![c].lines = Append(@, [id |-> 0, snap |-> [used |-> 0, cmd |-> clients[c].cmd]])]
    /\ UNCHANGED <<ownerVars, requestVars, cacheVars>>

ServerExits(c) ==
    /\ clients[c].proc = "live"
    /\ exits < MaxExits
    /\ exits' = exits + 1
    /\ clients' = [clients EXCEPT ![c].proc = "dead"]
    /\ UNCHANGED <<conf, edits, used, requestVars, cacheVars>>

Environment ==
    \/ EditConfig \/ UseAccount \/ CacheExpires
    \/ \E c \in Clients : ServerAnswers(c) \/ ServerNotifies(c) \/ ServerExits(c)
-----------------------------------------------------------------------------
(* read_usage_limits: the configuration and the cache.                     *)

Goto(h, next) == pc' = [pc EXCEPT ![h] = next]

\* The locals of read_usage_limits and of what it calls are gone.
Return(h) ==
    /\ Goto(h, "idle")
    /\ cfg' = [cfg EXCEPT ![h] = FirstConfig]
    /\ my' = [my EXCEPT ![h] = NoClient]
    /\ waitId' = [waitId EXCEPT ![h] = 0]
    /\ got' = [got EXCEPT ![h] = NoSnapshot]
    /\ mark' = [mark EXCEPT ![h] = 0]

locals == <<cfg, my, waitId, got, mark>>

Ask(h) ==
    /\ pc[h] = "idle"
    /\ asked < MaxRequests
    /\ asked' = asked + 1
    /\ cfg' = [cfg EXCEPT ![h] = conf]
    /\ mark' = [mark EXCEPT ![h] = used]
    /\ Goto(h, IF conf.mode = "off" THEN "detach" ELSE "lookup")
    /\ UNCHANGED <<ownerVars, my, old, waitId, got, client, clientLock, clients, cacheVars, astray>>

CacheHolds(h) == cache # NoSnapshot /\ cacheCmd = cfg[h].cmd

LookUp(h) ==
    /\ pc[h] = "lookup"
    /\ Goto(h, CASE CacheHolds(h) /\ cacheFresh -> "copy"
                 [] cfg[h].mode = "once"        -> "detach"
                 [] OTHER                       -> "client")
    /\ UNCHANGED <<ownerVars, asked, cfg, my, old, waitId, got, mark, client, clientLock,
                   clients, cacheVars, astray>>

\* dict(_CACHE): the snapshot may be another one by now.
Copy(h) ==
    /\ pc[h] = "copy"
    /\ Return(h)
    /\ UNCHANGED <<ownerVars, asked, old, client, clientLock, clients, cacheVars, astray>>

\* Three assignments, and another thread may come between them.  _CACHE_TS
\* goes with the last: a moment ago it was as old as the snapshot before.
StoreSnapshot(h) ==
    /\ pc[h] = "snapshot"
    /\ cache' = got[h]
    /\ Goto(h, "command")
    /\ UNCHANGED <<ownerVars, asked, locals, old, client, clientLock, clients, cacheFresh,
                   cacheCmd, answered, astray>>

StoreCommand(h) ==
    /\ pc[h] = "command"
    /\ cacheFresh' = TRUE
    /\ cacheCmd' = cfg[h].cmd
    /\ answered' = answered \cup {cfg[h].cmd}
    /\ Return(h)
    /\ UNCHANGED <<ownerVars, asked, old, client, clientLock, clients, cache, astray>>

\* Mutant: a snapshot that has expired is not shown after a failure.
MayShowStale_Fresh(h) == CacheHolds(h) /\ cacheFresh

\* Mutant: a snapshot is taken for granted.
MayShowStale_Always(h) == TRUE

MayShowStale(h) == CacheHolds(h)

\* _stale_or_unavailable
Fail(h) ==
    /\ pc[h] = "fail"
    /\ IF MayShowStale(h)
       THEN Goto(h, "copy") /\ UNCHANGED locals
       ELSE Return(h)
    /\ UNCHANGED <<ownerVars, asked, old, client, clientLock, clients, cacheVars, astray>>

-----------------------------------------------------------------------------
(* _shared_client and close_codex_account_client.                          *)

InUse(c) == c = client \/ \E h \in Handlers : c \in {my[h], old[h]}

\* An object nobody refers to is as good as a new one, but for its process.
Fresh(c) == ~InUse(c) /\ clients[c].proc # "live"

Create(h, idle) ==
    LET c == CHOOSE c \in Clients : Fresh(c) IN
    /\ \E k \in Clients : Fresh(k)
    /\ clients' = [clients EXCEPT ![c] = NewClient(cfg[h].cmd, idle)]
    /\ my' = [my EXCEPT ![h] = c]
    /\ astray' = astray \ {c}

Fits(h) ==
    /\ client # NoClient
    /\ clients[client].cmd = cfg[h].cmd
    /\ clients[client].idle = cfg[h].idle

TakeClient(h) ==
    /\ pc[h] = "client"
    /\ clientLock = NoHandler
    /\ Fits(h)
    /\ my' = [my EXCEPT ![h] = client]
    /\ Goto(h, "request")
    /\ UNCHANGED <<ownerVars, asked, cfg, old, waitId, got, mark, client, clientLock, clients,
                   cacheVars, astray>>

\* The lock is kept while the old client is closed.
ReplaceClient(h) ==
    /\ pc[h] = "client"
    /\ clientLock = NoHandler
    /\ ~Fits(h)
    /\ Create(h, cfg[h].idle)
    /\ client' = my'[h]
    /\ old' = [old EXCEPT ![h] = client]
    /\ clientLock' = h
    /\ Goto(h, "close")
    /\ UNCHANGED <<ownerVars, asked, cfg, waitId, got, mark, cacheVars>>

Detach(h) ==
    /\ pc[h] = "detach"
    /\ clientLock = NoHandler
    /\ old' = [old EXCEPT ![h] = client]
    /\ client' = NoClient
    /\ Goto(h, "close")
    /\ UNCHANGED <<ownerVars, asked, cfg, my, waitId, got, mark, clientLock, clients,
                   cacheVars, astray>>

\* The process is stopped, with its tree, and what it has written is dropped.
Stopped(s) ==
    [s EXCEPT !.proc = "none", !.initialized = FALSE, !.inbox = <<>>, !.lines = <<>>,
              !.greeted = FALSE]

\* Mutant: an old client is forgotten, not closed.
ClosedOld_Forgotten(s) == s

ClosedOld(s) == Stopped(s)

\* close() waits for a request that is under way.
CloseOld(h) ==
    /\ pc[h] = "close"
    /\ IF old[h] = NoClient
       THEN UNCHANGED <<clients, astray>>
       ELSE /\ clients[old[h]].lock = NoHandler
            /\ clients' = [clients EXCEPT ![old[h]] = ClosedOld(@)]
            /\ astray' = IF \E g \in Handlers : pc[g] = "request" /\ my[g] = old[h]
                         THEN astray \cup {old[h]} ELSE astray
    /\ old' = [old EXCEPT ![h] = NoClient]
    /\ clientLock' = IF clientLock = h THEN NoHandler ELSE clientLock
    /\ CASE cfg[h].mode = "off"    -> Return(h)
         [] cfg[h].mode = "once"   -> Goto(h, "own") /\ UNCHANGED locals
         [] cfg[h].mode = "shared" -> Goto(h, "request") /\ UNCHANGED locals
    /\ UNCHANGED <<ownerVars, asked, client, cacheVars>>

\* request_rate_limits_once
OwnClient(h) ==
    /\ pc[h] = "own"
    /\ Create(h, 0)
    /\ Goto(h, "request")
    /\ UNCHANGED <<ownerVars, asked, cfg, old, waitId, got, mark, client, clientLock, cacheVars>>

-----------------------------------------------------------------------------
(* CodexAppServerClient.request_rate_limits.                               *)

\* Mutant: the handshake is made once for a client, not for a process.
NeedsHandshake_First(s) == s.nextId = 1

NeedsHandshake(s) == ~s.initialized

\* A message with the next id, or the handshake that has to precede it.
Sent(s, method) ==
    [s EXCEPT !.inbox = Append(@, [id |-> s.nextId, method |-> method]), !.nextId = @ + 1]

Send(h, s) ==
    LET shake == NeedsHandshake(s) IN
    /\ clients' = [clients EXCEPT ![my[h]] = Sent(s, IF shake THEN "initialize" ELSE "read")]
    /\ waitId' = [waitId EXCEPT ![h] = s.nextId]
    /\ Goto(h, IF shake THEN "handshake" ELSE "wait")

Live(s) == s.proc = "live"

\* An idle process is stopped, a dead one forgotten, and a new one started.
Enter(h) ==
    /\ pc[h] = "request"
    /\ clients[my[h]].lock = NoHandler
    /\ LET s == [clients[my[h]] EXCEPT !.lock = h] IN
       \/ Live(s) /\ Send(h, s)
       \/ /\ ~Live(s) \/ (s.initialized /\ s.idle > 0)
          /\ Send(h, [Stopped(s) EXCEPT !.proc = "live"])
    /\ UNCHANGED <<ownerVars, asked, cfg, my, old, got, mark, client, clientLock, cacheVars, astray>>

\* Popen raises.
CannotStart(h) ==
    /\ pc[h] = "request"
    /\ clients[my[h]].lock = NoHandler
    /\ ~Live(clients[my[h]]) \/ (clients[my[h]].initialized /\ clients[my[h]].idle > 0)
    /\ clients' = [clients EXCEPT ![my[h]] = Stopped(@)]
    /\ Goto(h, "fail")
    /\ UNCHANGED <<ownerVars, asked, cfg, my, old, waitId, got, mark, client, clientLock,
                   cacheVars, astray>>

Waiting(h) == pc[h] \in {"handshake", "wait"}

\* Mutant: whatever the server says is the answer.
IsAnswer_Any(h, line) == TRUE

IsAnswer(h, line) == line.id = waitId[h]

SkipLine(h) ==
    /\ Waiting(h)
    /\ clients[my[h]].lines # <<>>
    /\ ~IsAnswer(h, Head(clients[my[h]].lines))
    /\ clients' = [clients EXCEPT ![my[h]].lines = Tail(@)]
    /\ UNCHANGED <<ownerVars, asked, pc, cfg, my, old, waitId, got, mark, client, clientLock,
                   cacheVars, astray>>

ShakeHands(h) ==
    LET s == clients[my[h]] IN
    /\ pc[h] = "handshake"
    /\ s.lines # <<>>
    /\ IsAnswer(h, Head(s.lines))
    /\ clients' = [clients EXCEPT
           ![my[h]] = Sent([s EXCEPT !.lines = Tail(@), !.initialized = TRUE], "read")]
    /\ waitId' = [waitId EXCEPT ![h] = s.nextId]
    /\ Goto(h, "wait")
    /\ UNCHANGED <<ownerVars, asked, cfg, my, old, got, mark, client, clientLock, cacheVars, astray>>

\* A client of the request's own is closed at once.
Unlocked(h, s) ==
    [(IF cfg[h].mode = "once" THEN Stopped(s) ELSE s) EXCEPT !.lock = NoHandler]

Receive(h) ==
    LET s == clients[my[h]]
        snap == Head(s.lines).snap
    IN
    /\ pc[h] = "wait"
    /\ s.lines # <<>>
    /\ IsAnswer(h, Head(s.lines))
    /\ clients' = [clients EXCEPT ![my[h]] = Unlocked(h, [s EXCEPT !.lines = Tail(@)])]
    /\ got' = [got EXCEPT ![h] = snap]
    /\ Goto(h, IF snap = NoSnapshot THEN "fail" ELSE "snapshot")
    /\ UNCHANGED <<ownerVars, asked, cfg, my, old, waitId, mark, client, clientLock, cacheVars, astray>>

\* Any exception closes the client.
Raise(h) ==
    /\ clients' = [clients EXCEPT ![my[h]] = [Stopped(@) EXCEPT !.lock = NoHandler]]
    /\ Goto(h, "fail")
    /\ UNCHANGED <<ownerVars, asked, cfg, my, old, waitId, got, mark, client, clientLock,
                   cacheVars, astray>>

ServerGone(h) ==
    /\ Waiting(h)
    /\ clients[my[h]].lines = <<>>
    /\ clients[my[h]].proc = "dead"
    /\ Raise(h)

\* Mutant: the request waits for as long as the process lives.
DeadlinePassed_Never(h) == FALSE

\* The deadline may have passed at any time.
DeadlinePassed(h) == Waiting(h)

TimeOut(h) == DeadlinePassed(h) /\ Raise(h)

Step(h) ==
    \/ LookUp(h) \/ Copy(h) \/ StoreSnapshot(h) \/ StoreCommand(h) \/ Fail(h)
    \/ TakeClient(h) \/ ReplaceClient(h) \/ Detach(h) \/ CloseOld(h) \/ OwnClient(h)
    \/ Enter(h) \/ CannotStart(h) \/ SkipLine(h) \/ ShakeHands(h) \/ Receive(h) \/ ServerGone(h)

Next == Environment \/ \E h \in Handlers : Ask(h) \/ Step(h) \/ TimeOut(h)

Spec == Init /\ [][Next]_vars

\* Threads run on, and the clock does.
FairSpec == Spec /\ \A h \in Handlers : WF_vars(Step(h)) /\ WF_vars(TimeOut(h))
-----------------------------------------------------------------------------
(* Properties.                                                             *)

(***************************************************************************)
(* What a request takes for its answer was read by the server of its own   *)
(* command after the request began: no late answer to an earlier request,  *)
(* and no notification (_wait_for_message, close).                         *)
(***************************************************************************)
AnswersAreOwn ==
    \A h \in Handlers : pc[h] \in Storing =>
        got[h].used >= mark[h] /\ got[h].cmd = cfg[h].cmd

(***************************************************************************)
(* No process is asked for limits before it has answered the handshake,    *)
(* whatever became of the processes before it (_ensure_initialized).       *)
(***************************************************************************)
HandshakeFirst ==
    \A c \in Clients : \A i \in DOMAIN clients[c].inbox :
        clients[c].inbox[i].method = "read" => clients[c].greeted

(***************************************************************************)
(* A process runs on only in the shared client, in one a request still     *)
(* uses or closes, or in one that was closed between the moment a request  *)
(* was given it and the moment it entered it (_shared_client).             *)
(***************************************************************************)
ProcessesOwned ==
    \A c \in Clients : Live(clients[c]) => InUse(c) \/ c \in astray

(***************************************************************************)
(* architecture.md:246-250: one reusable process is kept, the one of the   *)
(* shared client.  Without a request under way there is no other.          *)
(***************************************************************************)
OneProcess ==
    (\A h \in Handlers : pc[h] = "idle") =>
        \A c \in Clients : Live(clients[c]) => c = client

(***************************************************************************)
(* Once a command has answered, and as long as no other has, no request    *)
(* for it ends without a snapshot, whatever fails (_stale_or_unavailable). *)
(***************************************************************************)
LimitsStay ==
    [][\A h \in Handlers :
          pc[h] = "fail" /\ pc'[h] = "idle" => ~(answered = {cfg[h].cmd})]_vars

(***************************************************************************)
(* Every request ends, although servers are silent and the two kinds of    *)
(* locks are held while clients are closed and answers waited for.         *)
(***************************************************************************)
RequestsEnd == \A h \in Handlers : pc[h] # "idle" ~> pc[h] = "idle"
=============================================================================
