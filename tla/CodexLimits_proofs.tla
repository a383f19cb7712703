-------------------------- MODULE CodexLimits_proofs --------------------------
(***************************************************************************)
(* Proofs about CodexLimits, for any number of requests, clients, edits of *)
(* the configuration, notifications and servers that exit.                 *)
(***************************************************************************)
EXTENDS CodexLimits, SequenceTheorems, TLAPS

Waits == {"handshake", "wait"}

Speaking == {"request"} \cup Waits

-----------------------------------------------------------------------------
(* The inductive invariant.                                                *)

(***************************************************************************)
(* A client: ids are given out once, it reads limits from greeted          *)
(* processes only, and a process runs the client's command.                *)
(***************************************************************************)
IdsSound(s) ==
    /\ s.nextId >= 1
    /\ \A i \in DOMAIN s.inbox : s.inbox[i].id < s.nextId
    /\ \A i \in DOMAIN s.lines : s.lines[i].id < s.nextId

Greeted(s) ==
    /\ s.initialized => s.greeted
    /\ \A i \in DOMAIN s.inbox : s.inbox[i].method = "read" => s.greeted

ClientSound(s) ==
    IdsSound(s) /\ Greeted(s) /\ (s.proc # "none" => s.cmd \in Commands)

(***************************************************************************)
(* A request that waits holds its client's lock and waits for the message  *)
(* sent last, whose answer cannot be older than the request.  The answer   *)
(* to a handshake means that the process was greeted.                      *)
(***************************************************************************)
AnswerDue(s, h, id, since) ==
    /\ s.lock = h
    /\ id = s.nextId - 1
    /\ id >= 1
    /\ \A i \in DOMAIN s.lines :
          s.lines[i].id = id /\ s.lines[i].snap # NoSnapshot =>
              s.lines[i].snap.used >= since /\ s.lines[i].snap.cmd = s.cmd

GreetingDue(s, id) ==
    /\ \A i \in DOMAIN s.inbox : s.inbox[i].id = id => s.inbox[i].method = "initialize"
    /\ \A i \in DOMAIN s.lines : s.lines[i].id = id => s.greeted

\* A request that has a client, or gets to use the one it is replacing
HasClient(h) == pc[h] \in Speaking \/ (pc[h] = "close" /\ cfg[h].mode = "shared")

ModeFits(h) ==
    /\ pc[h] = "lookup" => cfg[h].mode # "off"
    /\ pc[h] = "client" => cfg[h].mode = "shared"
    /\ pc[h] = "detach" => cfg[h].mode # "shared"
    /\ pc[h] = "own" => cfg[h].mode = "once"

CallSound(h) ==
    /\ mark[h] <= used
    /\ ModeFits(h)
    /\ pc[h] # "close" => old[h] = NoClient
    /\ pc[h] = "close" /\ cfg[h].mode = "shared" => my[h] = client /\ clientLock = h
    /\ HasClient(h) => my[h] \in Clients /\ clients[my[h]].cmd = cfg[h].cmd
    /\ pc[h] \in Waits => AnswerDue(clients[my[h]], h, waitId[h], mark[h])
    /\ pc[h] = "handshake" => GreetingDue(clients[my[h]], waitId[h])
    /\ pc[h] \in Storing => got[h].used >= mark[h] /\ got[h].cmd = cfg[h].cmd

(***************************************************************************)
(* Who answers for a process: the shared client, a request that is about   *)
(* to close it, a request that has it to itself; or it went astray.        *)
(***************************************************************************)
Held(c) == c = client \/ c \in astray \/ \E h \in Handlers : old[h] = c

HasToItself(h, c) == pc[h] \in Speaking /\ cfg[h].mode = "once" /\ my[h] = c

OwnerInv ==
    /\ \A c \in Clients :
          Live(clients[c]) => Held(c) \/ \E h \in Handlers : HasToItself(h, c)
    /\ \A h \in Handlers : pc[h] = "request" /\ cfg[h].mode # "once" => Held(my[h])

CacheInv ==
    /\ answered # {} => cache # NoSnapshot /\ cacheCmd \in answered
    /\ \A h \in Handlers : pc[h] = "command" => cache # NoSnapshot

IInv ==
    /\ TypeOK
    /\ \A c \in Clients : ClientSound(clients[c])
    /\ \A h \in Handlers : CallSound(h)
    /\ OwnerInv
    /\ CacheInv

-----------------------------------------------------------------------------
(* What the operators on a client's record do.                             *)

LEMMA ConfigFields ==
    ASSUME NEW k \in Configs
    PROVE  /\ k.mode \in {"off", "shared", "once"} /\ k.idle \in Nat
           /\ k.cmd \in Commands /\ k.cmd # NoCommand
  BY ConfigsAssumption, NobodyAssumption DEF Commands

LEMMA Fields ==
    ASSUME NEW s \in ClientStates
    PROVE  /\ s.cmd \in Commands \cup {NoCommand} /\ s.idle \in Nat
           /\ s.lock \in Handlers \cup {NoHandler}
           /\ s.proc \in {"none", "live", "dead"} /\ s.initialized \in BOOLEAN
           /\ s.nextId \in Nat /\ s.greeted \in BOOLEAN
           /\ s.inbox \in Seq(Requests) /\ s.lines \in Seq(Lines)
  BY DEF ClientStates

LEMMA NewClientSound ==
    ASSUME NEW cmd \in Commands \cup {NoCommand}, NEW idle \in Nat
    PROVE  /\ NewClient(cmd, idle) \in ClientStates
           /\ ClientSound(NewClient(cmd, idle))
           /\ NewClient(cmd, idle).cmd = cmd /\ ~Live(NewClient(cmd, idle))
  BY DEF NewClient, ClientStates, ClientSound, IdsSound, Greeted, Live

LEMMA NothingQueued == <<>> \in Seq(Requests) /\ <<>> \in Seq(Lines)
  OBVIOUS

LEMMA StoppedType ==
    ASSUME NEW s \in ClientStates, NEW q \in Seq(Requests), NEW l \in Seq(Lines)
    PROVE  [s EXCEPT !.proc = "none", !.initialized = FALSE, !.inbox = q, !.lines = l,
                     !.greeted = FALSE] \in ClientStates
  BY DEF ClientStates

LEMMA StoppedSound ==
    ASSUME NEW s \in ClientStates, ClientSound(s)
    PROVE  /\ Stopped(s) \in ClientStates /\ ClientSound(Stopped(s))
           /\ Stopped(s).cmd = s.cmd /\ ~Live(Stopped(s)) /\ Stopped(s).lock = s.lock
           /\ Stopped(s).lines = <<>> /\ Stopped(s).inbox = <<>>
           /\ Stopped(s).nextId = s.nextId /\ Stopped(s).initialized = FALSE
           /\ Stopped(s).greeted = FALSE
  <1> DEFINE t == Stopped(s)
  <1>1. /\ t.cmd = s.cmd /\ t.proc = "none" /\ t.lock = s.lock /\ t.idle = s.idle
        /\ t.lines = <<>> /\ t.inbox = <<>> /\ t.nextId = s.nextId
        /\ t.initialized = FALSE /\ t.greeted = FALSE
    BY DEF Stopped, ClientStates
  <1>2. t \in ClientStates
    BY StoppedType, NothingQueued DEF Stopped
  <1> HIDE DEF t
  <1>3. ClientSound(t)
    BY <1>1 DEF ClientSound, IdsSound, Greeted
  <1> QED
    BY <1>1, <1>2, <1>3 DEF Live, t

\* The lock is neither here nor there.
LEMMA LockedSound ==
    ASSUME NEW s \in ClientStates, ClientSound(s), NEW h \in Handlers \cup {NoHandler}
    PROVE  LET t == [s EXCEPT !.lock = h] IN
           /\ t \in ClientStates /\ ClientSound(t)
           /\ t.cmd = s.cmd /\ t.lock = h /\ t.proc = s.proc /\ t.lines = s.lines
           /\ t.inbox = s.inbox /\ t.nextId = s.nextId /\ t.idle = s.idle
           /\ t.initialized = s.initialized /\ t.greeted = s.greeted
  BY DEF ClientStates, ClientSound, IdsSound, Greeted

LEMMA StartedSound ==
    ASSUME NEW s \in ClientStates, ClientSound(s), s.cmd \in Commands
    PROVE  LET t == [s EXCEPT !.proc = "live"] IN
           /\ t \in ClientStates /\ ClientSound(t)
           /\ t.cmd = s.cmd /\ t.lock = s.lock /\ t.lines = s.lines
           /\ t.inbox = s.inbox /\ t.nextId = s.nextId
           /\ t.initialized = s.initialized /\ t.greeted = s.greeted
  BY DEF ClientStates, ClientSound, IdsSound, Greeted

LEMMA QueueType ==
    ASSUME NEW s \in ClientStates, NEW q \in Seq(Requests), NEW n \in Nat
    PROVE  [s EXCEPT !.inbox = q, !.nextId = n] \in ClientStates
  BY DEF ClientStates

LEMMA Elements ==
    ASSUME NEW S, NEW q \in Seq(S)
    PROVE  /\ \A i \in DOMAIN q : q[i] \in S
           /\ q # <<>> => 1 \in DOMAIN q /\ Head(q) = q[1]
  OBVIOUS

LEMMA Appended ==
    ASSUME NEW S, NEW q \in Seq(S), NEW e \in S
    PROVE  /\ Append(q, e) \in Seq(S)
           /\ DOMAIN Append(q, e) = 1 .. Len(q) + 1 /\ DOMAIN q = 1 .. Len(q)
           /\ \A i \in DOMAIN Append(q, e) :
                 Append(q, e)[i] = e \/ (i \in DOMAIN q /\ Append(q, e)[i] = q[i])
  OBVIOUS

LEMMA Tailed ==
    ASSUME NEW S, NEW q \in Seq(S), q # <<>>
    PROVE  /\ Tail(q) \in Seq(S) /\ Head(q) \in S
           /\ 1 \in DOMAIN q /\ Head(q) = q[1]
           /\ \A i \in DOMAIN Tail(q) : i + 1 \in DOMAIN q /\ Tail(q)[i] = q[i + 1]
  <1>1. /\ Tail(q) \in Seq(S) /\ Len(Tail(q)) = Len(q) - 1
        /\ \A i \in 1 .. Len(Tail(q)) : Tail(q)[i] = q[i + 1]
    BY HeadTailProperties
  <1>2. DOMAIN Tail(q) = 1 .. Len(Tail(q)) /\ DOMAIN q = 1 .. Len(q) /\ Len(q) \in Nat
    BY <1>1
  <1>3. Len(q) >= 1 /\ Head(q) = q[1] /\ Head(q) \in S
    OBVIOUS
  <1> QED
    BY <1>1, <1>2, <1>3

(***************************************************************************)
(* A message that is sent gets an id no message and no line has yet.       *)
(***************************************************************************)
LEMMA SentSound ==
    ASSUME NEW s \in ClientStates, ClientSound(s),
           NEW method \in {"initialize", "read"}, method = "read" => s.greeted
    PROVE  LET t == Sent(s, method) IN
           /\ t \in ClientStates /\ ClientSound(t)
           /\ t.cmd = s.cmd /\ t.lock = s.lock /\ t.proc = s.proc /\ t.lines = s.lines
           /\ t.nextId = s.nextId + 1 /\ t.nextId - 1 >= 1
           /\ \A i \in DOMAIN t.lines : t.lines[i].id # s.nextId
           /\ \A i \in DOMAIN t.inbox : t.inbox[i].id = s.nextId => t.inbox[i].method = method
  <1> DEFINE m == [id |-> s.nextId, method |-> method]
             q == Append(s.inbox, m)
             t == Sent(s, method)
  <1>1. /\ s.nextId \in Nat /\ s.inbox \in Seq(Requests) /\ s.lines \in Seq(Lines)
        /\ m \in Requests /\ m.id = s.nextId /\ m.method = method
    BY Fields DEF Requests
  <1>2. /\ q \in Seq(Requests)
        /\ \A i \in DOMAIN q : q[i] = m \/ (i \in DOMAIN s.inbox /\ q[i] = s.inbox[i])
    <2> HIDE DEF m
    <2> QED
      BY <1>1, Appended
  <1>3. t = [s EXCEPT !.inbox = q, !.nextId = s.nextId + 1]
    BY DEF Sent, q, m
  <1> HIDE DEF q, m, t
  <1>4. t \in ClientStates
    <2> DEFINE n == s.nextId + 1
    <2>1. n \in Nat
      BY <1>1
    <2>2. t = [s EXCEPT !.inbox = q, !.nextId = n]
      BY <1>3
    <2> HIDE DEF n
    <2> QED
      BY <1>2, <2>1, <2>2, QueueType
  <1>5. /\ t.cmd = s.cmd /\ t.lock = s.lock /\ t.proc = s.proc /\ t.lines = s.lines
        /\ t.nextId = s.nextId + 1 /\ t.inbox = q
        /\ t.initialized = s.initialized /\ t.greeted = s.greeted
    BY <1>3 DEF ClientStates
  <1>6. /\ \A i \in DOMAIN s.inbox : s.inbox[i].id \in Nat
        /\ \A i \in DOMAIN s.lines : s.lines[i].id \in Nat
    <2>1. /\ \A i \in DOMAIN s.inbox : s.inbox[i] \in Requests
          /\ \A i \in DOMAIN s.lines : s.lines[i] \in Lines
      BY <1>1, Elements
    <2> QED
      BY <2>1 DEF Requests, Lines
  <1>7. /\ s.nextId >= 1
        /\ \A i \in DOMAIN s.inbox : s.inbox[i].id < s.nextId
        /\ \A i \in DOMAIN s.lines : s.lines[i].id < s.nextId
        /\ s.initialized => s.greeted
        /\ \A i \in DOMAIN s.inbox : s.inbox[i].method = "read" => s.greeted
    BY DEF ClientSound, IdsSound, Greeted
  <1>8. /\ \A i \in DOMAIN q : q[i].id < s.nextId + 1
        /\ \A i \in DOMAIN q : q[i].method = "read" => s.greeted
        /\ \A i \in DOMAIN q : q[i].id = s.nextId => q[i].method = method
    <2> SUFFICES ASSUME NEW i \in DOMAIN q
                 PROVE  /\ q[i].id < s.nextId + 1
                        /\ q[i].method = "read" => s.greeted
                        /\ q[i].id = s.nextId => q[i].method = method
      OBVIOUS
    <2>1. CASE q[i] = m
      BY <2>1, <1>1
    <2>2. CASE i \in DOMAIN s.inbox /\ q[i] = s.inbox[i]
      BY <2>2, <1>1, <1>6, <1>7
    <2> QED
      BY <2>1, <2>2, <1>2
  <1>9. \A i \in DOMAIN s.lines : s.lines[i].id < s.nextId + 1 /\ s.lines[i].id # s.nextId
    BY <1>1, <1>6, <1>7
  <1>10. t.nextId >= 1 /\ t.nextId - 1 >= 1
    BY <1>1, <1>5, <1>7
  <1>11. ClientSound(t)
    BY <1>5, <1>7, <1>8, <1>9, <1>10 DEF ClientSound, IdsSound, Greeted
  <1> QED
    BY <1>4, <1>5, <1>8, <1>9, <1>10, <1>11 DEF t

-----------------------------------------------------------------------------
(* What the server does to a client's record.                              *)

Answered(s, snap) ==
    [s EXCEPT !.inbox = Tail(@), !.lines = Append(@, [id |-> Head(s.inbox).id, snap |-> snap]),
              !.greeted = @ \/ Head(s.inbox).method = "initialize"]

Noticed(s) == [s EXCEPT !.lines = Append(@, [id |-> 0, snap |-> [used |-> 0, cmd |-> s.cmd]])]

\* Whoever waits for an answer may go on waiting for it.
Undisturbed(s, t) ==
    /\ t.cmd = s.cmd
    /\ \A h \in Handlers, id \in Nat, since \in Nat :
          since <= used /\ AnswerDue(s, h, id, since) =>
              /\ AnswerDue(t, h, id, since)
              /\ GreetingDue(s, id) => GreetingDue(t, id)

LEMMA QueuesType ==
    ASSUME NEW s \in ClientStates, NEW q \in Seq(Requests), NEW l \in Seq(Lines),
           NEW b \in BOOLEAN
    PROVE  LET t == [s EXCEPT !.inbox = q, !.lines = l, !.greeted = b] IN
           /\ t \in ClientStates
           /\ t.inbox = q /\ t.lines = l /\ t.greeted = b
           /\ t.cmd = s.cmd /\ t.lock = s.lock /\ t.proc = s.proc
           /\ t.nextId = s.nextId /\ t.initialized = s.initialized
  BY DEF ClientStates

LEMMA AnsweredSound ==
    ASSUME NEW s \in ClientStates, ClientSound(s), s.proc = "live", s.inbox # <<>>,
           used \in Nat,
           NEW snap, snap = NoSnapshot \/ snap = [used |-> used, cmd |-> s.cmd]
    PROVE  LET t == Answered(s, snap) IN
           /\ t \in ClientStates /\ ClientSound(t)
           /\ Undisturbed(s, t) /\ t.proc = s.proc
  <1> DEFINE m == Head(s.inbox)
             e == [id |-> m.id, snap |-> snap]
             q == Tail(s.inbox)
             l == Append(s.lines, e)
             b == s.greeted \/ m.method = "initialize"
             t == Answered(s, snap)
  <1>1. s.inbox \in Seq(Requests) /\ s.lines \in Seq(Lines) /\ s.nextId \in Nat
    BY Fields
  <1>2. s.cmd \in Commands
    BY DEF ClientSound
  <1>3. /\ q \in Seq(Requests) /\ m \in Requests /\ 1 \in DOMAIN s.inbox /\ m = s.inbox[1]
        /\ \A i \in DOMAIN q : i + 1 \in DOMAIN s.inbox /\ q[i] = s.inbox[i + 1]
    BY <1>1, Tailed
  <1>4. /\ e \in Lines /\ e.id = m.id /\ e.snap = snap
        /\ snap # NoSnapshot => snap.used = used /\ snap.cmd = s.cmd
    BY <1>2, <1>3 DEF Requests, Lines, Snapshots
  <1>5. /\ l \in Seq(Lines)
        /\ \A i \in DOMAIN l : l[i] = e \/ (i \in DOMAIN s.lines /\ l[i] = s.lines[i])
    <2> HIDE DEF e
    <2> QED
      BY <1>1, <1>4, Appended
  <1>6. b \in BOOLEAN
    OBVIOUS
  <1>7. t = [s EXCEPT !.inbox = q, !.lines = l, !.greeted = b]
    BY DEF Answered
  <1> HIDE DEF q, l, t, e
  <1>8. /\ t \in ClientStates
        /\ t.inbox = q /\ t.lines = l /\ t.greeted = b
        /\ t.cmd = s.cmd /\ t.lock = s.lock /\ t.proc = s.proc
        /\ t.nextId = s.nextId /\ t.initialized = s.initialized
    <2>1. q \in Seq(Requests) /\ l \in Seq(Lines)
      BY <1>3, <1>5
    <2> HIDE DEF b, m
    <2> QED
      <3>1. t \in ClientStates
        BY <2>1, <1>6, <1>7, QueuesType
      <3>2. t.greeted = b
        BY <1>6, <1>7 DEF ClientStates
      <3>3. /\ t.inbox = q /\ t.lines = l
            /\ t.cmd = s.cmd /\ t.lock = s.lock /\ t.proc = s.proc
            /\ t.nextId = s.nextId /\ t.initialized = s.initialized
        BY <1>7 DEF ClientStates
      <3> QED
        BY <3>1, <3>2, <3>3
  <1>9. ClientSound(t)
    <2>1. IdsSound(s) /\ Greeted(s)
      BY DEF ClientSound
    <2>2. IdsSound(t)
      <3>1. m.id < s.nextId
        BY <2>1, <1>3 DEF IdsSound
      <3>2. \A i \in DOMAIN q : q[i].id < s.nextId
        BY <2>1, <1>3 DEF IdsSound
      <3>3. \A i \in DOMAIN l : l[i].id < s.nextId
        BY <2>1, <3>1, <1>4, <1>5 DEF IdsSound
      <3> QED
        BY <2>1, <3>2, <3>3, <1>8 DEF IdsSound
    <2>3. Greeted(t)
      <3>1. t.initialized => t.greeted
        BY <2>1, <1>8 DEF Greeted
      <3>2. \A i \in DOMAIN t.inbox : t.inbox[i].method = "read" => t.greeted
        BY <2>1, <1>3, <1>8 DEF Greeted
      <3> QED
        BY <3>1, <3>2 DEF Greeted
    <2> QED
      BY <2>2, <2>3, <1>2, <1>8 DEF ClientSound
  <1>10. Undisturbed(s, t)
    <2> SUFFICES ASSUME NEW h \in Handlers, NEW id \in Nat, NEW since \in Nat,
                        since <= used, AnswerDue(s, h, id, since)
                 PROVE  /\ AnswerDue(t, h, id, since)
                        /\ GreetingDue(s, id) => GreetingDue(t, id)
      BY <1>8 DEF Undisturbed
    <2>1. AnswerDue(t, h, id, since)
      BY <1>4, <1>5, <1>8 DEF AnswerDue
    <2>2. ASSUME GreetingDue(s, id)
          PROVE  GreetingDue(t, id)
      <3>1. \A i \in DOMAIN t.inbox : t.inbox[i].id = id => t.inbox[i].method = "initialize"
        BY <2>2, <1>3, <1>8 DEF GreetingDue
      <3>2. \A i \in DOMAIN t.lines : t.lines[i].id = id => t.greeted
        <4>1. CASE m.id = id
          <5>1. m.method = "initialize"
            BY <4>1, <2>2, <1>3 DEF GreetingDue
          <5> QED
            BY <5>1, <1>8
        <4>2. CASE m.id # id
          BY <4>2, <2>2, <1>4, <1>5, <1>8 DEF GreetingDue
        <4> QED
          BY <4>1, <4>2
      <3> QED
        BY <3>1, <3>2 DEF GreetingDue
    <2> QED
      BY <2>1, <2>2
  <1> QED
    BY <1>8, <1>9, <1>10 DEF t

LEMMA LinesType ==
    ASSUME NEW s \in ClientStates, NEW l \in Seq(Lines)
    PROVE  LET t == [s EXCEPT !.lines = l] IN
           /\ t \in ClientStates
           /\ t.inbox = s.inbox /\ t.lines = l /\ t.greeted = s.greeted
           /\ t.cmd = s.cmd /\ t.lock = s.lock /\ t.proc = s.proc
           /\ t.nextId = s.nextId /\ t.initialized = s.initialized
  BY DEF ClientStates

LEMMA NoticedSound ==
    ASSUME NEW s \in ClientStates, ClientSound(s), s.proc = "live", used \in Nat
    PROVE  LET t == Noticed(s) IN
           /\ t \in ClientStates /\ ClientSound(t)
           /\ Undisturbed(s, t) /\ t.proc = s.proc
  <1> DEFINE e == [id |-> 0, snap |-> [used |-> 0, cmd |-> s.cmd]]
             l == Append(s.lines, e)
             t == Noticed(s)
  <1>1. s.lines \in Seq(Lines) /\ s.nextId \in Nat
    BY Fields
  <1>2. s.cmd \in Commands
    BY DEF ClientSound
  <1>3. e \in Lines /\ e.id = 0
    BY <1>2 DEF Lines, Snapshots
  <1>4. /\ l \in Seq(Lines)
        /\ \A i \in DOMAIN l : l[i] = e \/ (i \in DOMAIN s.lines /\ l[i] = s.lines[i])
    <2> HIDE DEF e
    <2> QED
      BY <1>1, <1>3, Appended
  <1>5. t = [s EXCEPT !.lines = l]
    BY DEF Noticed
  <1> HIDE DEF l, t, e
  <1>6. /\ t \in ClientStates
        /\ t.inbox = s.inbox /\ t.lines = l /\ t.greeted = s.greeted
        /\ t.cmd = s.cmd /\ t.lock = s.lock /\ t.proc = s.proc
        /\ t.nextId = s.nextId /\ t.initialized = s.initialized
    BY <1>4, <1>5, LinesType
  <1>7. ClientSound(t)
    <2>1. IdsSound(s) /\ Greeted(s)
      BY DEF ClientSound
    <2>2. IdsSound(t)
      BY <2>1, <1>1, <1>3, <1>4, <1>6 DEF IdsSound
    <2>3. Greeted(t)
      BY <2>1, <1>6 DEF Greeted
    <2> QED
      BY <2>2, <2>3, <1>2, <1>6 DEF ClientSound
  <1>8. Undisturbed(s, t)
    <2> SUFFICES ASSUME NEW h \in Handlers, NEW id \in Nat, NEW since \in Nat,
                        since <= used, AnswerDue(s, h, id, since)
                 PROVE  /\ AnswerDue(t, h, id, since)
                        /\ GreetingDue(s, id) => GreetingDue(t, id)
      BY <1>6 DEF Undisturbed
    <2>1. id # 0
      BY DEF AnswerDue
    <2> QED
      BY <2>1, <1>3, <1>4, <1>6 DEF AnswerDue, GreetingDue
  <1> QED
    BY <1>6, <1>7, <1>8 DEF t

LEMMA ExitedSound ==
    ASSUME NEW s \in ClientStates, ClientSound(s), s.proc = "live"
    PROVE  LET t == [s EXCEPT !.proc = "dead"] IN
           /\ t \in ClientStates /\ ClientSound(t)
           /\ Undisturbed(s, t) /\ t.proc = "dead"
  BY DEF ClientStates, ClientSound, IdsSound, Greeted, Undisturbed, AnswerDue, GreetingDue

-----------------------------------------------------------------------------
(* What a waiting request does to its client's record.                     *)

LEMMA SkippedSound ==
    ASSUME NEW s \in ClientStates, ClientSound(s), s.lines # <<>>
    PROVE  LET t == [s EXCEPT !.lines = Tail(@)] IN
           /\ t \in ClientStates /\ ClientSound(t) /\ Undisturbed(s, t)
           /\ t.proc = s.proc /\ t.lock = s.lock /\ t.nextId = s.nextId
           /\ t.greeted = s.greeted /\ t.inbox = s.inbox /\ t.initialized = s.initialized
  <1> DEFINE l == Tail(s.lines)
             t == [s EXCEPT !.lines = l]
  <1>1. s.lines \in Seq(Lines) /\ s.nextId \in Nat
    BY Fields
  <1>2. /\ l \in Seq(Lines)
        /\ \A i \in DOMAIN l : i + 1 \in DOMAIN s.lines /\ l[i] = s.lines[i + 1]
    BY <1>1, Tailed
  <1>3. t = [s EXCEPT !.lines = Tail(@)]
    OBVIOUS
  <1> HIDE DEF l
  <1>4. /\ t \in ClientStates
        /\ t.inbox = s.inbox /\ t.lines = l /\ t.greeted = s.greeted
        /\ t.cmd = s.cmd /\ t.lock = s.lock /\ t.proc = s.proc
        /\ t.nextId = s.nextId /\ t.initialized = s.initialized
    BY <1>2, LinesType
  <1> HIDE DEF t
  <1>5. ClientSound(t)
    BY <1>2, <1>4 DEF ClientSound, IdsSound, Greeted
  <1>6. Undisturbed(s, t)
    BY <1>2, <1>4 DEF Undisturbed, AnswerDue, GreetingDue
  <1> QED
    BY <1>3, <1>4, <1>5, <1>6

LEMMA RaisedSound ==
    ASSUME NEW s \in ClientStates, ClientSound(s)
    PROVE  LET t == [Stopped(s) EXCEPT !.lock = NoHandler] IN
           /\ t \in ClientStates /\ ClientSound(t)
           /\ t.cmd = s.cmd /\ ~Live(t) /\ t.lock = NoHandler
  <1> DEFINE u == Stopped(s)
  <1>1. u \in ClientStates /\ ClientSound(u) /\ u.cmd = s.cmd /\ ~Live(u)
    BY StoppedSound
  <1> HIDE DEF u
  <1> DEFINE t == [u EXCEPT !.lock = NoHandler]
  <1>2. t \in ClientStates /\ ClientSound(t) /\ t.cmd = u.cmd /\ t.lock = NoHandler /\ t.proc = u.proc
    BY <1>1, LockedSound
  <1> QED
    BY <1>1, <1>2 DEF u, Live

(***************************************************************************)
(* A request enters with a client that runs, or with one started anew.     *)
(***************************************************************************)
LEMMA Spoken ==
    ASSUME NEW s \in ClientStates, ClientSound(s),
           NEW h \in Handlers, s.lock = h, NEW since \in Nat,
           NEW method \in {"initialize", "read"}, method = "read" => s.greeted
    PROVE  LET t == Sent(s, method) IN
           /\ t \in ClientStates /\ ClientSound(t) /\ t.cmd = s.cmd /\ t.proc = s.proc
           /\ AnswerDue(t, h, s.nextId, since)
           /\ method = "initialize" => GreetingDue(t, s.nextId)
  <1> DEFINE t == Sent(s, method)
  <1>1. /\ t \in ClientStates /\ ClientSound(t)
        /\ t.cmd = s.cmd /\ t.lock = s.lock /\ t.proc = s.proc
        /\ t.nextId = s.nextId + 1 /\ t.nextId - 1 >= 1
        /\ \A i \in DOMAIN t.lines : t.lines[i].id # s.nextId
        /\ \A i \in DOMAIN t.inbox : t.inbox[i].id = s.nextId => t.inbox[i].method = method
    BY SentSound
  <1>2. s.nextId \in Nat
    BY Fields
  <1> HIDE DEF t
  <1>3. AnswerDue(t, h, s.nextId, since)
    BY <1>1, <1>2 DEF AnswerDue
  <1>4. method = "initialize" => GreetingDue(t, s.nextId)
    BY <1>1 DEF GreetingDue
  <1> QED
    BY <1>1, <1>3, <1>4 DEF t

-----------------------------------------------------------------------------
(* What a step leaves alone.                                               *)

Same(g) ==
    /\ pc'[g] = pc[g] /\ cfg'[g] = cfg[g] /\ my'[g] = my[g] /\ old'[g] = old[g]
    /\ waitId'[g] = waitId[g] /\ got'[g] = got[g] /\ mark'[g] = mark[g]

\* A request that does not move stays sound if what it holds is left alone.
LEMMA OtherCall ==
    ASSUME TypeOK, NEW g \in Handlers, CallSound(g), Same(g), used <= used', used' \in Nat,
           pc[g] = "close" /\ cfg[g].mode = "shared" =>
               client' = client /\ clientLock' = clientLock,
           HasClient(g) => clients'[my[g]].cmd = clients[my[g]].cmd,
           pc[g] \in Waits => AnswerDue(clients'[my[g]], g, waitId[g], mark[g]),
           pc[g] = "handshake" => GreetingDue(clients'[my[g]], waitId[g])
    PROVE  CallSound(g)'
  <1>1. mark'[g] <= used'
    BY DEF TypeOK, CallSound, Same
  <1>2. ModeFits(g)' /\ (pc'[g] # "close" => old'[g] = NoClient)
    BY DEF CallSound, Same, ModeFits
  <1>3. pc'[g] = "close" /\ cfg'[g].mode = "shared" => my'[g] = client' /\ clientLock' = g
    BY DEF CallSound, Same
  <1>4. HasClient(g)' => my'[g] \in Clients /\ clients'[my'[g]].cmd = cfg'[g].cmd
    BY DEF CallSound, Same, HasClient
  <1>5. /\ pc'[g] \in Waits => AnswerDue(clients'[my'[g]], g, waitId'[g], mark'[g])
        /\ pc'[g] = "handshake" => GreetingDue(clients'[my'[g]], waitId'[g])
    BY DEF Same
  <1>6. pc'[g] \in Storing => got'[g].used >= mark'[g] /\ got'[g].cmd = cfg'[g].cmd
    BY DEF CallSound, Same
  <1> QED
    BY <1>1, <1>2, <1>3, <1>4, <1>5, <1>6 DEF CallSound

LEMMA ClientMoves ==
    ASSUME IInv, NEW c \in Clients, NEW t \in ClientStates, ClientSound(t),
           clients' = [clients EXCEPT ![c] = t]
    PROVE  /\ clients' \in [Clients -> ClientStates]
           /\ \A k \in Clients : ClientSound(clients[k])' /\ (k # c => clients'[k] = clients[k])
           /\ clients'[c] = t
  BY DEF IInv, TypeOK, ClientSound, IdsSound, Greeted

(***************************************************************************)
(* A server, or a request that drops a line, disturbs no request.          *)
(***************************************************************************)
LEMMA ServerStep ==
    ASSUME IInv, NEW c \in Clients, NEW t \in ClientStates, ClientSound(t),
           Undisturbed(clients[c], t), Live(t) => Live(clients[c]),
           clients' = [clients EXCEPT ![c] = t],
           UNCHANGED <<conf, edits, used, requestVars, cacheVars>>, exits' \in Nat
    PROVE  IInv'
  <1>1. /\ clients' \in [Clients -> ClientStates]
        /\ \A k \in Clients : ClientSound(clients[k])' /\ (k # c => clients'[k] = clients[k])
        /\ clients'[c] = t
    BY ClientMoves
  <1>2. TypeOK'
    BY <1>1 DEF IInv, TypeOK, requestVars, cacheVars
  <1>3. ASSUME NEW g \in Handlers
        PROVE  CallSound(g)'
    <2>1. TypeOK /\ CallSound(g) /\ Same(g) /\ used' = used /\ used \in Nat
      BY DEF IInv, TypeOK, Same, requestVars
    <2>2. waitId[g] \in Nat /\ mark[g] \in Nat /\ mark[g] <= used
      BY DEF IInv, TypeOK, CallSound
    <2>3. HasClient(g) => my[g] \in Clients /\ clients'[my[g]].cmd = clients[my[g]].cmd
      BY <1>1, <2>1 DEF CallSound, Undisturbed
    <2>4. pc[g] \in Waits => HasClient(g) /\ AnswerDue(clients[my[g]], g, waitId[g], mark[g])
      BY <2>1 DEF CallSound, HasClient, Speaking
    <2>5. pc[g] \in Waits => AnswerDue(clients'[my[g]], g, waitId[g], mark[g])
      <3>1. CASE my[g] = c
        BY <3>1, <2>2, <2>4, <1>1 DEF Undisturbed
      <3>2. CASE my[g] # c
        BY <3>2, <2>3, <2>4, <1>1
      <3> QED
        BY <3>1, <3>2
    <2>6. ASSUME pc[g] = "handshake"
          PROVE  GreetingDue(clients'[my[g]], waitId[g])
      <3>1. /\ GreetingDue(clients[my[g]], waitId[g]) /\ HasClient(g)
            /\ AnswerDue(clients[my[g]], g, waitId[g], mark[g])
        BY <2>1, <2>4, <2>6 DEF CallSound, Waits
      <3>2. CASE my[g] = c
        BY <3>1, <3>2, <2>2, <1>1 DEF Undisturbed
      <3>3. CASE my[g] # c
        BY <3>1, <3>3, <2>3, <1>1
      <3> QED
        BY <3>2, <3>3
    <2> QED
      BY <2>1, <2>3, <2>5, <2>6, OtherCall DEF requestVars
  <1>4. OwnerInv'
    BY <1>1 DEF IInv, OwnerInv, Held, HasToItself, requestVars, Live
  <1>5. CacheInv'
    BY DEF IInv, CacheInv, requestVars, cacheVars
  <1> QED
    BY <1>1, <1>2, <1>3, <1>4, <1>5 DEF IInv

(***************************************************************************)
(* A request does something to the client it uses, or is about to use,     *)
(* under the client's lock.                                                *)
(***************************************************************************)
LEMMA CallStep ==
    ASSUME IInv, NEW h \in Handlers, pc[h] \in Speaking,
           NEW t \in ClientStates, ClientSound(t), t.cmd = clients[my[h]].cmd,
           clients[my[h]].lock \in {NoHandler, h},
           Live(t) => pc[h] = "request" \/ Live(clients[my[h]]),
           NEW next \in Waits \cup {"fail", "snapshot"},
           Live(t) /\ cfg[h].mode = "once" => next \in Waits,
           NEW w \in Nat, NEW x \in Snapshots \cup {NoSnapshot},
           next \in Waits => AnswerDue(t, h, w, mark[h]),
           next = "handshake" => GreetingDue(t, w),
           next = "snapshot" => x.used >= mark[h] /\ x.cmd = cfg[h].cmd,
           clients' = [clients EXCEPT ![my[h]] = t], Goto(h, next),
           waitId' = [waitId EXCEPT ![h] = w], got' = [got EXCEPT ![h] = x],
           UNCHANGED <<ownerVars, asked, cfg, my, old, mark, client, clientLock, cacheVars, astray>>
    PROVE  IInv'
  <1>1. /\ my[h] \in Clients /\ clients[my[h]].cmd = cfg[h].cmd
        /\ mark[h] <= used /\ old[h] = NoClient
    BY DEF IInv, CallSound, HasClient, Speaking, Waits
  <1>2. /\ clients' \in [Clients -> ClientStates]
        /\ \A k \in Clients :
              ClientSound(clients[k])' /\ (k # my[h] => clients'[k] = clients[k])
        /\ clients'[my[h]] = t
    BY <1>1, ClientMoves
  <1>3. pc'[h] = next /\ waitId'[h] = w /\ got'[h] = x
    BY DEF IInv, TypeOK, Goto
  <1>4. \A g \in Handlers : g # h => Same(g)
    BY DEF Same, Goto, IInv, TypeOK
  <1>5. TypeOK'
    <2>1. /\ pc' \in [Handlers -> Places]
          /\ waitId' \in [Handlers -> Nat] /\ got' \in [Handlers -> Snapshots \cup {NoSnapshot}]
      BY DEF IInv, TypeOK, Goto, Waits, Storing, Places
    <2>2. \A g \in Handlers : pc'[g] = "copy" => cache' # NoSnapshot
      BY <1>3, <1>4 DEF IInv, TypeOK, Same, Waits, cacheVars
    <2> QED
      BY <1>2, <2>1, <2>2 DEF IInv, TypeOK, ownerVars, cacheVars
  <1>6. CallSound(h)'
    <2>1. mark'[h] = mark[h] /\ cfg'[h] = cfg[h] /\ my'[h] = my[h] /\ old'[h] = old[h] /\ used' = used
      BY DEF ownerVars
    <2>2. ModeFits(h)' /\ pc'[h] # "close"
      BY <1>3 DEF ModeFits, Waits
    <2>3. pc'[h] \in Storing => next = "snapshot"
      BY <1>3 DEF Storing, Waits
    <2> QED
      BY <1>1, <1>2, <1>3, <2>1, <2>2, <2>3 DEF CallSound
  <1>7. ASSUME NEW g \in Handlers, g # h
        PROVE  CallSound(g)'
    <2>1. /\ TypeOK /\ CallSound(g) /\ Same(g) /\ used' = used /\ used \in Nat
          /\ client' = client /\ clientLock' = clientLock
      BY <1>4, <1>7 DEF IInv, TypeOK, ownerVars
    <2>2. HasClient(g) => clients'[my[g]].cmd = clients[my[g]].cmd
      BY <1>2, <2>1 DEF CallSound
    <2>3. pc[g] \in Waits => my[g] \in Clients /\ AnswerDue(clients[my[g]], g, waitId[g], mark[g])
      BY <2>1 DEF CallSound, HasClient, Speaking
    <2>4. pc[g] \in Waits => my[g] # my[h]
      BY <2>3, <1>7, NobodyAssumption DEF AnswerDue
    <2>5. /\ pc[g] \in Waits => AnswerDue(clients'[my[g]], g, waitId[g], mark[g])
          /\ pc[g] = "handshake" => GreetingDue(clients'[my[g]], waitId[g])
      BY <2>1, <2>3, <2>4, <1>2 DEF CallSound, Waits
    <2> QED
      BY <2>1, <2>2, <2>5, OtherCall
  <1>8. OwnerInv'
    <2>1. ASSUME NEW c \in Clients, Live(clients'[c])
          PROVE  Held(c)' \/ \E g \in Handlers : HasToItself(g, c)'
      <3>1. \A k \in Clients : Held(k) => Held(k)'
        BY DEF Held
      <3>2. \A g \in Handlers, k \in Clients : g # h /\ HasToItself(g, k) => HasToItself(g, k)'
        BY <1>4 DEF Same, HasToItself
      <3>3. CASE c # my[h]
        BY <3>1, <3>2, <3>3, <2>1, <1>2 DEF IInv, OwnerInv, HasToItself
      <3>4. CASE c = my[h] /\ cfg[h].mode = "once"
        BY <3>4, <2>1, <1>2, <1>3 DEF HasToItself, Speaking
      <3>5. CASE c = my[h] /\ cfg[h].mode # "once"
        <4>1. Held(c) \/ \E g \in Handlers : HasToItself(g, c)
          BY <3>5, <2>1, <1>2 DEF IInv, OwnerInv
        <4> QED
          BY <4>1, <3>1, <3>2, <3>5 DEF HasToItself
      <3> QED
        BY <3>3, <3>4, <3>5
    <2>2. ASSUME NEW g \in Handlers, pc'[g] = "request", cfg'[g].mode # "once"
          PROVE  Held(my[g])'
      BY <2>2, <1>3, <1>4 DEF IInv, OwnerInv, Held, Same, Waits
    <2> QED
      BY <2>1, <2>2 DEF OwnerInv
  <1>9. CacheInv'
    BY <1>3, <1>4 DEF IInv, CacheInv, Same, cacheVars, Waits
  <1> QED
    BY <1>2, <1>5, <1>6, <1>7, <1>8, <1>9 DEF IInv

-----------------------------------------------------------------------------
(* The steps of the server.                                                *)

LEMMA StepServerAnswers ==
    ASSUME IInv, NEW c \in Clients, ServerAnswers(c)
    PROVE  IInv'
  <1> DEFINE s == clients[c]
             m == Head(s.inbox)
             now == [used |-> used, cmd |-> s.cmd]
  <1>1. s \in ClientStates /\ ClientSound(s) /\ s.proc = "live" /\ s.inbox # <<>> /\ used \in Nat
    BY DEF IInv, TypeOK, ServerAnswers
  <1>2. PICK snap \in {NoSnapshot} \cup (IF m.method = "read" THEN {now} ELSE {}) :
            clients' = [clients EXCEPT
                 ![c].inbox = Tail(@),
                 ![c].lines = Append(@, [id |-> m.id, snap |-> snap]),
                 ![c].greeted = @ \/ m.method = "initialize"]
    BY DEF ServerAnswers
  <1>3. snap = NoSnapshot \/ snap = now
    OBVIOUS
  <1> DEFINE t == Answered(s, snap)
  <1>4. t \in ClientStates /\ ClientSound(t) /\ Undisturbed(s, t) /\ t.proc = s.proc
    BY <1>1, <1>3, AnsweredSound
  <1>5. clients' = [clients EXCEPT ![c] = t]
    BY <1>1, <1>2 DEF Answered, IInv, TypeOK, ClientStates
  <1>6. UNCHANGED <<ownerVars, requestVars, cacheVars>>
    BY DEF ServerAnswers
  <1> HIDE DEF t
  <1> QED
    BY <1>1, <1>4, <1>5, <1>6, ServerStep DEF IInv, TypeOK, ownerVars, Live

LEMMA StepServerNotifies ==
    ASSUME IInv, NEW c \in Clients, ServerNotifies(c)
    PROVE  IInv'
  <1> DEFINE s == clients[c]
             t == Noticed(s)
  <1>1. s \in ClientStates /\ ClientSound(s) /\ s.proc = "live" /\ used \in Nat
    BY DEF IInv, TypeOK, ServerNotifies
  <1>2. t \in ClientStates /\ ClientSound(t) /\ Undisturbed(s, t) /\ t.proc = s.proc
    BY <1>1, NoticedSound
  <1>3. clients' = [clients EXCEPT ![c] = t]
    BY <1>1 DEF Noticed, ServerNotifies, IInv, TypeOK, ClientStates
  <1>4. UNCHANGED <<ownerVars, requestVars, cacheVars>>
    BY DEF ServerNotifies
  <1> HIDE DEF t
  <1> QED
    BY <1>1, <1>2, <1>3, <1>4, ServerStep DEF IInv, TypeOK, ownerVars, Live

LEMMA StepServerExits ==
    ASSUME IInv, NEW c \in Clients, ServerExits(c)
    PROVE  IInv'
  <1> DEFINE s == clients[c]
             t == [s EXCEPT !.proc = "dead"]
  <1>1. s \in ClientStates /\ ClientSound(s) /\ s.proc = "live"
    BY DEF IInv, TypeOK, ServerExits
  <1>2. t \in ClientStates /\ ClientSound(t) /\ Undisturbed(s, t) /\ t.proc = "dead"
    BY <1>1, ExitedSound
  <1>3. /\ clients' = [clients EXCEPT ![c] = t]
        /\ UNCHANGED <<conf, edits, used, requestVars, cacheVars>> /\ exits' \in Nat
    BY DEF ServerExits, IInv, TypeOK
  <1> HIDE DEF t
  <1> QED
    BY <1>1, <1>2, <1>3, ServerStep DEF Live

-----------------------------------------------------------------------------
(* The steps of request_rate_limits.                                       *)

LEMMA StepEnter ==
    ASSUME IInv, NEW h \in Handlers, Enter(h)
    PROVE  IInv'
  <1> DEFINE c == my[h]
             s == [clients[c] EXCEPT !.lock = h]
  <1>1. /\ pc[h] = "request" /\ clients[c].lock = NoHandler
        /\ UNCHANGED <<ownerVars, asked, cfg, my, old, got, mark, client, clientLock, cacheVars, astray>>
    BY DEF Enter
  <1>2. c \in Clients /\ clients[c].cmd = cfg[h].cmd
    BY <1>1 DEF IInv, CallSound, HasClient, Speaking
  <1>3. clients[c] \in ClientStates /\ ClientSound(clients[c]) /\ cfg[h] \in Configs
    BY <1>2 DEF IInv, TypeOK
  <1>4. clients[c].cmd \in Commands /\ mark[h] \in Nat /\ got[h] \in Snapshots \cup {NoSnapshot}
    BY <1>2, <1>3, ConfigFields DEF IInv, TypeOK
  <1>5. /\ s \in ClientStates /\ ClientSound(s) /\ s.cmd = clients[c].cmd
        /\ s.lock = h /\ s.proc = clients[c].proc
    BY <1>3, LockedSound
  <1>6. ASSUME NEW u \in ClientStates, ClientSound(u), u.cmd = clients[c].cmd, u.lock = h,
               u.proc = "live", Send(h, u)
        PROVE  IInv'
    <2> DEFINE method == IF NeedsHandshake(u) THEN "initialize" ELSE "read"
               next == IF NeedsHandshake(u) THEN "handshake" ELSE "wait"
               t == Sent(u, method)
    <2>1. method = "read" => u.greeted
      BY <1>6 DEF NeedsHandshake, ClientSound, Greeted
    <2>2. method \in {"initialize", "read"} /\ next \in Waits /\ u.nextId \in Nat
      BY <1>6, Fields DEF Waits
    <2>3. next = "handshake" => method = "initialize"
      OBVIOUS
    <2>4. /\ clients' = [clients EXCEPT ![my[h]] = t]
          /\ waitId' = [waitId EXCEPT ![h] = u.nextId] /\ Goto(h, next)
      BY <1>6 DEF Send
    <2> HIDE DEF method, next
    <2>5. /\ t \in ClientStates /\ ClientSound(t) /\ t.cmd = u.cmd /\ t.proc = u.proc
          /\ AnswerDue(t, h, u.nextId, mark[h])
          /\ method = "initialize" => GreetingDue(t, u.nextId)
      BY <1>4, <1>5, <1>6, <2>1, <2>2, Spoken
    <2>6. got' = [got EXCEPT ![h] = got[h]]
      BY <1>1 DEF IInv, TypeOK
    <2>7. next # "snapshot" /\ pc[h] \in Speaking
      BY <1>1, <2>2 DEF Waits, Speaking
    <2> HIDE DEF t
    <2> QED
      BY <1>1, <1>4, <1>6, <2>2, <2>3, <2>4, <2>5, <2>6, <2>7, CallStep
  <1>7. CASE Live(s) /\ Send(h, s)
    BY <1>5, <1>6, <1>7 DEF Live
  <1>8. CASE Send(h, [Stopped(s) EXCEPT !.proc = "live"])
    <2> DEFINE r == Stopped(s)
               u == [r EXCEPT !.proc = "live"]
    <2>1. r \in ClientStates /\ ClientSound(r) /\ r.cmd = s.cmd /\ r.lock = s.lock
      BY <1>5, StoppedSound
    <2> HIDE DEF r
    <2>2. u \in ClientStates /\ ClientSound(u) /\ u.cmd = r.cmd /\ u.lock = r.lock /\ u.proc = "live"
      BY <1>4, <1>5, <2>1, StartedSound, Fields
    <2>3. Send(h, u)
      BY <1>8 DEF r
    <2> QED
      BY <1>5, <1>6, <2>1, <2>2, <2>3
  <1> QED
    BY <1>7, <1>8 DEF Enter

\* However a request comes to close its client.
LEMMA Closed ==
    ASSUME IInv, NEW h \in Handlers, pc[h] \in Speaking,
           clients[my[h]].lock \in {NoHandler, h},
           NEW t \in ClientStates, ClientSound(t), t.cmd = clients[my[h]].cmd, ~Live(t),
           clients' = [clients EXCEPT ![my[h]] = t], Goto(h, "fail"),
           UNCHANGED <<ownerVars, asked, cfg, my, old, waitId, got, mark, client, clientLock,
                       cacheVars, astray>>
    PROVE  IInv'
  <1>1. /\ waitId[h] \in Nat /\ got[h] \in Snapshots \cup {NoSnapshot}
        /\ waitId' = [waitId EXCEPT ![h] = waitId[h]] /\ got' = [got EXCEPT ![h] = got[h]]
    BY DEF IInv, TypeOK
  <1>2. "fail" \notin Waits
    BY DEF Waits
  <1> QED
    BY <1>1, <1>2, CallStep

LEMMA StepCannotStart ==
    ASSUME IInv, NEW h \in Handlers, CannotStart(h)
    PROVE  IInv'
  <1> DEFINE t == Stopped(clients[my[h]])
  <1>1. /\ pc[h] \in Speaking /\ clients[my[h]].lock = NoHandler
        /\ clients' = [clients EXCEPT ![my[h]] = t] /\ Goto(h, "fail")
        /\ UNCHANGED <<ownerVars, asked, cfg, my, old, waitId, got, mark, client, clientLock,
                       cacheVars, astray>>
    BY DEF CannotStart, Speaking
  <1>2. clients[my[h]] \in ClientStates /\ ClientSound(clients[my[h]])
    BY <1>1 DEF IInv, TypeOK, CallSound, HasClient
  <1>3. t \in ClientStates /\ ClientSound(t) /\ t.cmd = clients[my[h]].cmd /\ ~Live(t)
    BY <1>2, StoppedSound
  <1> HIDE DEF t
  <1> QED
    BY <1>1, <1>3, Closed

\* What a request that waits knows of its client.
LEMMA WaitingKnows ==
    ASSUME IInv, NEW h \in Handlers, pc[h] \in Waits
    PROVE  /\ my[h] \in Clients
           /\ clients[my[h]] \in ClientStates /\ ClientSound(clients[my[h]])
           /\ clients[my[h]].cmd = cfg[h].cmd /\ cfg[h] \in Configs
           /\ AnswerDue(clients[my[h]], h, waitId[h], mark[h]) /\ clients[my[h]].lock = h
           /\ pc[h] = "handshake" => GreetingDue(clients[my[h]], waitId[h])
           /\ pc[h] \in Speaking
  BY DEF IInv, TypeOK, CallSound, HasClient, Speaking, AnswerDue

LEMMA StepRaise ==
    ASSUME IInv, NEW h \in Handlers, pc[h] \in Waits, Raise(h)
    PROVE  IInv'
  <1> DEFINE t == [Stopped(clients[my[h]]) EXCEPT !.lock = NoHandler]
  <1>1. t \in ClientStates /\ ClientSound(t) /\ t.cmd = clients[my[h]].cmd /\ ~Live(t)
    BY WaitingKnows, RaisedSound
  <1>2. /\ clients' = [clients EXCEPT ![my[h]] = t] /\ Goto(h, "fail")
        /\ UNCHANGED <<ownerVars, asked, cfg, my, old, waitId, got, mark, client, clientLock,
                       cacheVars, astray>>
    BY DEF Raise
  <1> HIDE DEF t
  <1> QED
    BY <1>1, <1>2, WaitingKnows, Closed

LEMMA StepSkipLine ==
    ASSUME IInv, NEW h \in Handlers, SkipLine(h)
    PROVE  IInv'
  <1> DEFINE s == clients[my[h]]
             t == [s EXCEPT !.lines = Tail(@)]
  <1>1. pc[h] \in Waits /\ s.lines # <<>>
    BY DEF SkipLine, Waiting, Waits
  <1>2. t \in ClientStates /\ ClientSound(t) /\ Undisturbed(s, t) /\ t.proc = s.proc
    BY <1>1, WaitingKnows, SkippedSound
  <1>3. clients' = [clients EXCEPT ![my[h]] = t]
    BY DEF SkipLine
  <1>4. UNCHANGED <<conf, edits, used, requestVars, cacheVars>> /\ exits' \in Nat
    BY DEF SkipLine, requestVars, ownerVars, IInv, TypeOK
  <1> HIDE DEF t
  <1> QED
    BY <1>1, <1>2, <1>3, <1>4, WaitingKnows, ServerStep DEF Live

LEMMA StepShakeHands ==
    ASSUME IInv, NEW h \in Handlers, ShakeHands(h)
    PROVE  IInv'
  <1> DEFINE s == clients[my[h]]
             r == [s EXCEPT !.lines = Tail(@)]
             u == [r EXCEPT !.initialized = TRUE]
             t == Sent(u, "read")
  <1>1. /\ pc[h] = "handshake" /\ s.lines # <<>> /\ Head(s.lines).id = waitId[h]
        /\ clients' = [clients EXCEPT
              ![my[h]] = Sent([s EXCEPT !.lines = Tail(@), !.initialized = TRUE], "read")]
        /\ waitId' = [waitId EXCEPT ![h] = s.nextId] /\ Goto(h, "wait")
        /\ UNCHANGED <<ownerVars, asked, cfg, my, old, got, mark, client, clientLock, cacheVars, astray>>
    BY DEF ShakeHands, IsAnswer
  <1>2. /\ my[h] \in Clients /\ s \in ClientStates /\ ClientSound(s) /\ s.lock = h
        /\ GreetingDue(s, waitId[h]) /\ pc[h] \in Speaking /\ s.lines \in Seq(Lines)
    BY <1>1, WaitingKnows, Fields DEF Waits
  <1>3. s.greeted
    BY <1>1, <1>2, Elements DEF GreetingDue
  <1>4. /\ r \in ClientStates /\ ClientSound(r) /\ Undisturbed(s, r)
        /\ r.proc = s.proc /\ r.lock = s.lock /\ r.nextId = s.nextId /\ r.greeted = s.greeted
    BY <1>1, <1>2, SkippedSound
  <1>5. /\ u = [s EXCEPT !.lines = Tail(@), !.initialized = TRUE]
        /\ clients' = [clients EXCEPT ![my[h]] = t]
    BY <1>1
  <1> HIDE DEF r
  <1>6. /\ u \in ClientStates /\ ClientSound(u) /\ u.greeted
        /\ u.proc = r.proc /\ u.lock = r.lock /\ u.nextId = r.nextId /\ u.cmd = r.cmd
    BY <1>3, <1>4 DEF ClientStates, ClientSound, IdsSound, Greeted
  <1>7. mark[h] \in Nat /\ got[h] \in Snapshots \cup {NoSnapshot} /\ s.nextId \in Nat
    BY <1>2, Fields DEF IInv, TypeOK
  <1> HIDE DEF u
  <1>8. /\ t \in ClientStates /\ ClientSound(t) /\ t.cmd = u.cmd /\ t.proc = u.proc
        /\ AnswerDue(t, h, u.nextId, mark[h])
    BY <1>2, <1>4, <1>6, <1>7, Spoken
  <1>9. got' = [got EXCEPT ![h] = got[h]]
    BY <1>1 DEF IInv, TypeOK
  <1>10. t.cmd = s.cmd /\ t.proc = s.proc /\ AnswerDue(t, h, s.nextId, mark[h])
    BY <1>4, <1>6, <1>8 DEF Undisturbed
  <1>11. "wait" \in Waits
    BY DEF Waits
  <1> HIDE DEF t, s
  <1> QED
    BY <1>1, <1>2, <1>5, <1>7, <1>8, <1>9, <1>10, <1>11, CallStep DEF Live, s

LEMMA UnlockedSound ==
    ASSUME NEW s \in ClientStates, ClientSound(s), NEW h \in Handlers
    PROVE  LET t == Unlocked(h, s) IN
           /\ t \in ClientStates /\ ClientSound(t) /\ t.cmd = s.cmd
           /\ Live(t) => Live(s) /\ cfg[h].mode # "once"
  <1> DEFINE r == IF cfg[h].mode = "once" THEN Stopped(s) ELSE s
             t == [r EXCEPT !.lock = NoHandler]
  <1>1. /\ r \in ClientStates /\ ClientSound(r) /\ r.cmd = s.cmd
        /\ Live(r) => Live(s) /\ cfg[h].mode # "once"
    BY StoppedSound
  <1>2. t = Unlocked(h, s)
    BY DEF Unlocked
  <1> HIDE DEF r
  <1>3. t \in ClientStates /\ ClientSound(t) /\ t.cmd = r.cmd /\ t.proc = r.proc
    BY <1>1, LockedSound
  <1> QED
    BY <1>1, <1>2, <1>3 DEF Live

LEMMA StepReceive ==
    ASSUME IInv, NEW h \in Handlers, Receive(h)
    PROVE  IInv'
  <1> DEFINE s == clients[my[h]]
             r == [s EXCEPT !.lines = Tail(@)]
             t == Unlocked(h, r)
             snap == Head(s.lines).snap
             next == IF snap = NoSnapshot THEN "fail" ELSE "snapshot"
  <1>1. /\ pc[h] = "wait" /\ s.lines # <<>> /\ Head(s.lines).id = waitId[h]
        /\ clients' = [clients EXCEPT ![my[h]] = t]
        /\ got' = [got EXCEPT ![h] = snap] /\ Goto(h, next)
        /\ UNCHANGED <<ownerVars, asked, cfg, my, old, waitId, mark, client, clientLock, cacheVars, astray>>
    BY DEF Receive, IsAnswer
  <1>2. /\ my[h] \in Clients /\ s \in ClientStates /\ ClientSound(s) /\ s.lock = h
        /\ pc[h] \in Speaking /\ s.lines \in Seq(Lines) /\ s.cmd = cfg[h].cmd
        /\ AnswerDue(s, h, waitId[h], mark[h])
    BY <1>1, WaitingKnows, Fields DEF Waits
  <1>3. /\ snap \in Snapshots \cup {NoSnapshot}
        /\ snap # NoSnapshot => snap.used >= mark[h] /\ snap.cmd = s.cmd
    <2>1. 1 \in DOMAIN s.lines /\ Head(s.lines) = s.lines[1] /\ s.lines[1] \in Lines
      BY <1>1, <1>2, Elements
    <2> QED
      BY <2>1, <1>1, <1>2 DEF AnswerDue, Lines
  <1>4. r \in ClientStates /\ ClientSound(r) /\ Undisturbed(s, r) /\ r.proc = s.proc
    BY <1>1, <1>2, SkippedSound
  <1> HIDE DEF r
  <1>5. /\ t \in ClientStates /\ ClientSound(t) /\ t.cmd = r.cmd
        /\ Live(t) => Live(r) /\ cfg[h].mode # "once"
    BY <1>4, UnlockedSound
  <1>6. waitId[h] \in Nat /\ waitId' = [waitId EXCEPT ![h] = waitId[h]]
    BY <1>1 DEF IInv, TypeOK
  <1>7. /\ t.cmd = s.cmd /\ (Live(t) => Live(s))
        /\ next \in {"fail", "snapshot"} /\ next \notin Waits
        /\ next = "snapshot" => snap.used >= mark[h] /\ snap.cmd = cfg[h].cmd
    BY <1>2, <1>3, <1>4, <1>5 DEF Undisturbed, Live, Waits
  <1> HIDE DEF t, snap, next, s
  <1> QED
    BY <1>1, <1>2, <1>3, <1>5, <1>6, <1>7, CallStep DEF s

-----------------------------------------------------------------------------
(* The steps outside the clients.                                          *)

Apart(h) == pc[h] \notin Speaking \cup {"close"}

\* A step that concerns the configuration, the account and the cache only.
LEMMA LocalStep ==
    ASSUME IInv, NEW h \in Handlers, Apart(h), Apart(h)',
           \A g \in Handlers : g # h => Same(g),
           UNCHANGED <<clients, client, clientLock, old, astray, used>>,
           TypeOK', CallSound(h)', CacheInv'
    PROVE  IInv'
  <1>1. ASSUME NEW g \in Handlers, g # h
        PROVE  CallSound(g)'
    <2>1. TypeOK /\ CallSound(g) /\ Same(g) /\ used' = used /\ used \in Nat
      BY <1>1 DEF IInv, TypeOK
    <2> QED
      BY <2>1, OtherCall DEF CallSound, Waits
  <1>2. OwnerInv'
    <2>1. \A c \in Clients : Held(c) => Held(c)'
      BY DEF Held
    <2>2. ASSUME NEW g \in Handlers, NEW c \in Clients, HasToItself(g, c)
          PROVE  HasToItself(g, c)'
      BY <2>2 DEF Same, HasToItself, Apart
    <2>3. ASSUME NEW g \in Handlers, pc'[g] = "request", cfg'[g].mode # "once"
          PROVE  Held(my[g])'
      BY <2>3 DEF IInv, OwnerInv, Held, Same, Apart, Speaking
    <2> QED
      BY <2>1, <2>2, <2>3 DEF IInv, OwnerInv
  <1>3. \A c \in Clients : ClientSound(clients[c])'
    BY DEF IInv
  <1> QED
    BY <1>1, <1>2, <1>3 DEF IInv

LEMMA StepAsk ==
    ASSUME IInv, NEW h \in Handlers, Ask(h)
    PROVE  IInv'
  <1>1. TypeOK /\ CallSound(h) /\ pc[h] = "idle"
    BY DEF IInv, Ask
  <1>2. \A g \in Handlers : g # h => Same(g)
    BY <1>1 DEF Ask, Goto, Same, TypeOK
  <1>3. pc'[h] \in {"detach", "lookup"} /\ cfg'[h] = conf /\ mark'[h] = used
    BY <1>1 DEF Ask, Goto, TypeOK
  <1>4. TypeOK'
    <2>1. pc' \in [Handlers -> Places]
      BY <1>1 DEF Ask, Goto, TypeOK, Places
    <2> QED
      BY <1>1, <1>2, <1>3, <2>1 DEF Ask, TypeOK, Same, ownerVars, cacheVars
  <1>5. CallSound(h)'
    <2>1. conf.mode = "off" => pc'[h] = "detach"
      BY <1>1 DEF Ask, Goto, TypeOK
    <2>2. conf.mode # "off" => pc'[h] = "lookup"
      BY <1>1 DEF Ask, Goto, TypeOK
    <2>3. used' = used /\ old'[h] = NoClient /\ used \in Nat
      BY <1>1 DEF Ask, ownerVars, CallSound, TypeOK
    <2> QED
      BY <1>3, <2>1, <2>2, <2>3 DEF CallSound, ModeFits, HasClient, Speaking, Waits, Storing
  <1>6. CacheInv'
    BY <1>2, <1>3 DEF IInv, CacheInv, Ask, cacheVars, Same
  <1>7. Apart(h) /\ Apart(h)'
    BY <1>1, <1>3 DEF Apart, Speaking, Waits
  <1> QED
    BY <1>2, <1>4, <1>5, <1>6, <1>7, LocalStep DEF Ask, ownerVars

LEMMA StepLookUp ==
    ASSUME IInv, NEW h \in Handlers, LookUp(h)
    PROVE  IInv'
  <1>1. TypeOK /\ CallSound(h) /\ pc[h] = "lookup" /\ cfg[h].mode # "off" /\ cfg[h] \in Configs
    BY DEF IInv, LookUp, CallSound, ModeFits, TypeOK
  <1>2. \A g \in Handlers : g # h => Same(g)
    BY <1>1 DEF LookUp, Goto, Same, TypeOK
  <1>3. \/ pc'[h] = "copy" /\ cache # NoSnapshot
        \/ pc'[h] = "detach" /\ cfg[h].mode = "once"
        \/ pc'[h] = "client" /\ cfg[h].mode # "once"
    BY <1>1 DEF LookUp, Goto, TypeOK, CacheHolds
  <1>4. cfg[h].mode # "once" => cfg[h].mode = "shared"
    BY <1>1, ConfigFields
  <1>5. TypeOK'
    <2>1. pc' \in [Handlers -> Places]
      BY <1>1 DEF LookUp, Goto, TypeOK, Places
    <2> QED
      BY <1>1, <1>2, <1>3, <2>1 DEF LookUp, TypeOK, Same, ownerVars, cacheVars
  <1>6. CallSound(h)'
    BY <1>1, <1>3, <1>4
       DEF LookUp, ownerVars, CallSound, ModeFits, HasClient, Speaking, Waits, Storing
  <1>7. CacheInv'
    BY <1>2, <1>3 DEF IInv, CacheInv, LookUp, cacheVars, Same
  <1>8. Apart(h) /\ Apart(h)'
    BY <1>1, <1>3 DEF Apart, Speaking, Waits
  <1> QED
    BY <1>2, <1>5, <1>6, <1>7, <1>8, LocalStep DEF LookUp, ownerVars

\* A request that ends is as if it had never been.
LEMMA Returned ==
    ASSUME TypeOK, NEW h \in Handlers, Return(h), UNCHANGED <<old, used>>, old[h] = NoClient
    PROVE  /\ \A g \in Handlers : g # h => Same(g)
           /\ pc'[h] = "idle" /\ Apart(h)' /\ CallSound(h)'
           /\ pc' \in [Handlers -> Places]
           /\ cfg' \in [Handlers -> Configs] /\ my' \in [Handlers -> Clients \cup {NoClient}]
           /\ waitId' \in [Handlers -> Nat] /\ got' \in [Handlers -> Snapshots \cup {NoSnapshot}]
           /\ mark' \in [Handlers -> Nat]
  <1>1. \A g \in Handlers : g # h => Same(g)
    BY DEF Return, Goto, Same, TypeOK, Places
  <1>2. pc'[h] = "idle" /\ mark'[h] = 0
    BY DEF Return, Goto, TypeOK
  <1>3. CallSound(h)'
    BY <1>2 DEF TypeOK, CallSound, ModeFits, HasClient, Speaking, Waits, Storing
  <1>4. /\ pc' \in [Handlers -> Places]
        /\ cfg' \in [Handlers -> Configs] /\ my' \in [Handlers -> Clients \cup {NoClient}]
        /\ waitId' \in [Handlers -> Nat] /\ got' \in [Handlers -> Snapshots \cup {NoSnapshot}]
        /\ mark' \in [Handlers -> Nat]
    BY ConfigsAssumption DEF Return, Goto, TypeOK, Places
  <1> QED
    BY <1>1, <1>2, <1>3, <1>4 DEF Apart, Speaking, Waits

LEMMA StepCopy ==
    ASSUME IInv, NEW h \in Handlers, Copy(h)
    PROVE  IInv'
  <1>1. /\ TypeOK /\ old[h] = NoClient /\ pc[h] = "copy" /\ Return(h)
        /\ UNCHANGED <<ownerVars, asked, old, client, clientLock, clients, cacheVars, astray>>
    BY DEF IInv, CallSound, Copy
  <1>2. UNCHANGED <<old, used>>
    BY <1>1 DEF ownerVars
  <1>3. TypeOK'
    BY <1>1, <1>2, Returned DEF TypeOK, Same, ownerVars, cacheVars
  <1>4. CacheInv'
    BY <1>1, <1>2, Returned DEF IInv, CacheInv, cacheVars, Same
  <1>5. Apart(h)
    BY <1>1 DEF Apart, Speaking, Waits
  <1> QED
    BY <1>1, <1>2, <1>3, <1>4, <1>5, Returned, LocalStep

LEMMA StepStoreCommand ==
    ASSUME IInv, NEW h \in Handlers, StoreCommand(h)
    PROVE  IInv'
  <1>1. /\ TypeOK /\ old[h] = NoClient /\ pc[h] = "command" /\ Return(h)
        /\ UNCHANGED <<ownerVars, asked, old, client, clientLock, clients, cache, astray>>
        /\ cfg[h] \in Configs /\ cache # NoSnapshot
        /\ cacheFresh' = TRUE /\ cacheCmd' = cfg[h].cmd /\ answered' = answered \cup {cfg[h].cmd}
    BY DEF IInv, TypeOK, CallSound, StoreCommand, CacheInv
  <1>2. UNCHANGED <<old, used>>
    BY <1>1 DEF ownerVars
  <1>3. cfg[h].cmd \in Commands
    BY <1>1, ConfigFields
  <1>4. TypeOK'
    BY <1>1, <1>2, <1>3, Returned DEF TypeOK, Same, ownerVars
  <1>5. CacheInv'
    BY <1>1, <1>2, Returned DEF IInv, CacheInv, Same
  <1>6. Apart(h)
    BY <1>1 DEF Apart, Speaking, Waits
  <1> QED
    BY <1>1, <1>2, <1>4, <1>5, <1>6, Returned, LocalStep

LEMMA StepStoreSnapshot ==
    ASSUME IInv, NEW h \in Handlers, StoreSnapshot(h)
    PROVE  IInv'
  <1>1. /\ TypeOK /\ CallSound(h) /\ pc[h] = "snapshot" /\ cfg[h] \in Configs
        /\ cache' = got[h] /\ Goto(h, "command")
        /\ UNCHANGED <<ownerVars, asked, locals, old, client, clientLock, clients, cacheFresh,
                       cacheCmd, answered, astray>>
    BY DEF IInv, TypeOK, StoreSnapshot
  <1>2. \A g \in Handlers : g # h => Same(g)
    BY <1>1 DEF Goto, Same, TypeOK, locals
  <1>3. pc'[h] = "command"
    BY <1>1 DEF Goto, TypeOK
  <1>4. cache' # NoSnapshot /\ cache' \in Snapshots
    <2>1. got[h].cmd = cfg[h].cmd
      BY <1>1 DEF CallSound, Storing
    <2>2. got[h] # NoSnapshot
      BY <1>1, <2>1, ConfigFields DEF NoSnapshot
    <2> QED
      BY <1>1, <2>2 DEF TypeOK
  <1>5. TypeOK'
    <2>1. pc' \in [Handlers -> Places]
      BY <1>1 DEF Goto, TypeOK, Storing, Places
    <2> QED
      BY <1>1, <1>4, <2>1 DEF TypeOK, ownerVars, locals
  <1>6. CallSound(h)'
    BY <1>1, <1>3 DEF CallSound, ModeFits, HasClient, Speaking, Waits, Storing, ownerVars, locals
  <1>7. CacheInv'
    BY <1>1, <1>4 DEF IInv, CacheInv
  <1>8. Apart(h) /\ Apart(h)'
    BY <1>1, <1>3 DEF Apart, Speaking, Waits
  <1> QED
    BY <1>1, <1>2, <1>5, <1>6, <1>7, <1>8, LocalStep DEF ownerVars

LEMMA StepFail ==
    ASSUME IInv, NEW h \in Handlers, Fail(h)
    PROVE  IInv'
  <1>1. /\ TypeOK /\ CallSound(h) /\ pc[h] = "fail" /\ old[h] = NoClient
        /\ UNCHANGED <<ownerVars, asked, old, client, clientLock, clients, cacheVars, astray>>
    BY DEF IInv, CallSound, Fail
  <1>2. UNCHANGED <<old, used>>
    BY <1>1 DEF ownerVars
  <1>3. Apart(h)
    BY <1>1 DEF Apart, Speaking, Waits
  <1>4. CASE CacheHolds(h) /\ Goto(h, "copy") /\ UNCHANGED locals
    <2>1. \A g \in Handlers : g # h => Same(g)
      BY <1>1, <1>4 DEF Goto, Same, TypeOK, locals
    <2>2. pc'[h] = "copy" /\ cache # NoSnapshot
      BY <1>1, <1>4 DEF Goto, TypeOK, CacheHolds
    <2>3. pc' \in [Handlers -> Places]
      BY <1>1, <1>4 DEF Goto, TypeOK, Places
    <2>4. TypeOK'
      BY <1>1, <1>4, <2>1, <2>2, <2>3 DEF TypeOK, ownerVars, locals, cacheVars, Same
    <2>5. CallSound(h)'
      BY <1>1, <1>4, <2>2
         DEF CallSound, ModeFits, HasClient, Speaking, Waits, Storing, ownerVars, locals
    <2>6. CacheInv'
      BY <1>1, <2>1, <2>2 DEF IInv, CacheInv, cacheVars, Same
    <2>7. Apart(h)'
      BY <2>2 DEF Apart, Speaking, Waits
    <2> QED
      BY <1>1, <1>2, <1>3, <2>1, <2>4, <2>5, <2>6, <2>7, LocalStep
  <1>5. CASE Return(h)
    <2>1. TypeOK'
      BY <1>1, <1>2, <1>5, Returned DEF TypeOK, Same, ownerVars, cacheVars
    <2>2. CacheInv'
      BY <1>1, <1>2, <1>5, Returned DEF IInv, CacheInv, cacheVars, Same
    <2> QED
      BY <1>1, <1>2, <1>3, <1>5, <2>1, <2>2, Returned, LocalStep
  <1> QED
    BY <1>4, <1>5 DEF Fail, MayShowStale

-----------------------------------------------------------------------------
(* The steps of _shared_client and close_codex_account_client.             *)

\* A step of h that leaves the clients that others use alone.
LEMMA OthersSound ==
    ASSUME IInv, NEW h \in Handlers, \A g \in Handlers : g # h => Same(g), used' = used,
           clientLock = NoHandler \/ clientLock = h \/ UNCHANGED <<client, clientLock>>,
           \A g \in Handlers : g # h /\ HasClient(g) =>
               /\ clients'[my[g]].cmd = clients[my[g]].cmd
               /\ pc[g] \in Waits => clients'[my[g]] = clients[my[g]]
    PROVE  \A g \in Handlers : g # h => CallSound(g)'
  <1> SUFFICES ASSUME NEW g \in Handlers, g # h
               PROVE  CallSound(g)'
    OBVIOUS
  <1>1. TypeOK /\ CallSound(g) /\ Same(g) /\ used' = used /\ used \in Nat
    BY DEF IInv, TypeOK
  <1>2. pc[g] = "close" /\ cfg[g].mode = "shared" => client' = client /\ clientLock' = clientLock
    BY <1>1, NobodyAssumption DEF CallSound
  <1>3. pc[g] \in Waits =>
          HasClient(g) /\ AnswerDue(clients[my[g]], g, waitId[g], mark[g])
    BY <1>1 DEF CallSound, HasClient, Speaking
  <1>4. pc[g] = "handshake" => GreetingDue(clients[my[g]], waitId[g]) /\ pc[g] \in Waits
    BY <1>1 DEF CallSound, Waits
  <1> QED
    BY <1>1, <1>2, <1>3, <1>4, OtherCall

LEMMA StepTakeClient ==
    ASSUME IInv, NEW h \in Handlers, TakeClient(h)
    PROVE  IInv'
  <1>1. /\ TypeOK /\ CallSound(h) /\ pc[h] = "client" /\ cfg[h].mode = "shared"
        /\ clientLock = NoHandler /\ Fits(h) /\ client \in Clients
        /\ my' = [my EXCEPT ![h] = client] /\ Goto(h, "request")
        /\ UNCHANGED <<ownerVars, asked, cfg, old, waitId, got, mark, client, clientLock, clients,
                       cacheVars, astray>>
    BY DEF IInv, TypeOK, CallSound, ModeFits, TakeClient, Fits
  <1>2. \A g \in Handlers : g # h => Same(g)
    BY <1>1 DEF Goto, Same, TypeOK
  <1>3. pc'[h] = "request" /\ my'[h] = client
    BY <1>1 DEF Goto, TypeOK
  <1>4. TypeOK'
    <2>1. pc' \in [Handlers -> Places]
      BY <1>1 DEF Goto, TypeOK, Places
    <2> QED
      BY <1>1, <1>2, <1>3, <2>1 DEF TypeOK, ownerVars, cacheVars, Same
  <1>5. CallSound(h)'
    BY <1>1, <1>3 DEF CallSound, ModeFits, HasClient, Fits, Speaking, Waits, Storing, ownerVars
  <1>6. \A g \in Handlers : g # h => CallSound(g)'
    BY <1>1, <1>2, OthersSound DEF ownerVars
  <1>7. OwnerInv'
    <2>1. \A c \in Clients : Held(c) => Held(c)'
      BY <1>1 DEF Held
    <2>2. \A g \in Handlers, c \in Clients : HasToItself(g, c) => HasToItself(g, c)'
      BY <1>1, <1>2 DEF Same, HasToItself, Speaking, Waits
    <2>3. ASSUME NEW g \in Handlers, pc'[g] = "request", cfg'[g].mode # "once"
          PROVE  Held(my[g])'
      BY <2>3, <1>1, <1>2, <1>3 DEF IInv, OwnerInv, Held, Same
    <2> QED
      BY <1>1, <2>1, <2>2, <2>3 DEF IInv, OwnerInv
  <1>8. CacheInv'
    BY <1>1, <1>2, <1>3 DEF IInv, CacheInv, cacheVars, Same
  <1> QED
    BY <1>1, <1>4, <1>5, <1>6, <1>7, <1>8 DEF IInv

\* The object a request creates is nobody's, and has no process that runs.
LEMMA Created ==
    ASSUME IInv, NEW h \in Handlers, NEW idle \in Nat, Create(h, idle)
    PROVE  \E c \in Clients :
              /\ Fresh(c)
              /\ clients' = [clients EXCEPT ![c] = NewClient(cfg[h].cmd, idle)]
              /\ my' = [my EXCEPT ![h] = c] /\ astray' = astray \ {c}
              /\ clients' \in [Clients -> ClientStates]
              /\ \A k \in Clients :
                    ClientSound(clients[k])' /\ (k # c => clients'[k] = clients[k])
              /\ clients'[c].cmd = cfg[h].cmd /\ ~Live(clients'[c])
  <1> DEFINE c == CHOOSE c \in Clients : Fresh(c)
             t == NewClient(cfg[h].cmd, idle)
  <1>1. c \in Clients /\ Fresh(c)
    BY DEF Create
  <1>2. /\ clients' = [clients EXCEPT ![c] = t]
        /\ my' = [my EXCEPT ![h] = c] /\ astray' = astray \ {c}
    BY DEF Create
  <1> HIDE DEF c
  <1>3. cfg[h].cmd \in Commands
    BY ConfigFields DEF IInv, TypeOK
  <1>4. t \in ClientStates /\ ClientSound(t) /\ t.cmd = cfg[h].cmd /\ ~Live(t)
    BY <1>3, NewClientSound
  <1> HIDE DEF t
  <1>5. /\ clients' \in [Clients -> ClientStates]
        /\ \A k \in Clients : ClientSound(clients[k])' /\ (k # c => clients'[k] = clients[k])
        /\ clients'[c] = t
    BY <1>1, <1>2, <1>4, ClientMoves
  <1> QED
    BY <1>1, <1>2, <1>4, <1>5 DEF t

LEMMA StepOwnClient ==
    ASSUME IInv, NEW h \in Handlers, OwnClient(h)
    PROVE  IInv'
  <1>1. /\ TypeOK /\ CallSound(h) /\ pc[h] = "own" /\ cfg[h].mode = "once"
        /\ Create(h, 0) /\ Goto(h, "request")
        /\ UNCHANGED <<ownerVars, asked, cfg, old, waitId, got, mark, client, clientLock, cacheVars>>
    BY DEF IInv, CallSound, ModeFits, OwnClient
  <1>2. PICK c \in Clients :
           /\ Fresh(c)
           /\ clients' = [clients EXCEPT ![c] = NewClient(cfg[h].cmd, 0)]
           /\ my' = [my EXCEPT ![h] = c] /\ astray' = astray \ {c}
           /\ clients' \in [Clients -> ClientStates]
           /\ \A k \in Clients : ClientSound(clients[k])' /\ (k # c => clients'[k] = clients[k])
           /\ clients'[c].cmd = cfg[h].cmd /\ ~Live(clients'[c])
    BY <1>1, Created
  <1>3. \A g \in Handlers : g # h => Same(g)
    BY <1>1, <1>2 DEF Goto, Same, TypeOK
  <1>4. pc'[h] = "request" /\ my'[h] = c
    BY <1>1, <1>2 DEF Goto, TypeOK
  <1>5. TypeOK'
    <2>1. pc' \in [Handlers -> Places]
      BY <1>1 DEF Goto, TypeOK, Places
    <2> QED
      BY <1>1, <1>2, <1>3, <1>4, <2>1 DEF TypeOK, ownerVars, cacheVars, Same
  <1>6. CallSound(h)'
    BY <1>1, <1>2, <1>4 DEF CallSound, ModeFits, HasClient, Speaking, Waits, Storing, ownerVars
  <1>7. \A g \in Handlers : my[g] # c /\ old[g] # c /\ client # c
    BY <1>2 DEF Fresh, InUse
  <1>8. \A g \in Handlers : g # h => CallSound(g)'
    <2>1. \A g \in Handlers : HasClient(g) => clients'[my[g]] = clients[my[g]]
      BY <1>2, <1>7 DEF IInv, CallSound
    <2> QED
      BY <2>1, <1>1, <1>3, OthersSound DEF ownerVars
  <1>9. OwnerInv'
    <2>1. \A k \in Clients : k # c /\ Held(k) => Held(k)'
      BY <1>1, <1>2 DEF Held
    <2>2. \A g \in Handlers, k \in Clients : HasToItself(g, k) => HasToItself(g, k)'
      BY <1>1, <1>3 DEF Same, HasToItself, Speaking, Waits
    <2>3. ASSUME NEW g \in Handlers, pc'[g] = "request", cfg'[g].mode # "once"
          PROVE  Held(my[g])'
      <3>1. g # h /\ pc[g] = "request" /\ cfg[g].mode # "once" /\ my'[g] = my[g]
        BY <2>3, <1>1, <1>3 DEF Same
      <3>2. Held(my[g]) /\ my[g] # c
        BY <3>1, <1>7 DEF IInv, OwnerInv
      <3> QED
        BY <3>1, <3>2, <1>1, <1>2 DEF Held
    <2>4. \A k \in Clients : Live(clients'[k]) => k # c /\ Live(clients[k])
      BY <1>2
    <2> QED
      BY <2>1, <2>2, <2>3, <2>4 DEF IInv, OwnerInv
  <1>10. CacheInv'
    BY <1>1, <1>3, <1>4 DEF IInv, CacheInv, cacheVars, Same
  <1> QED
    BY <1>2, <1>5, <1>6, <1>8, <1>9, <1>10 DEF IInv

LEMMA StepReplaceClient ==
    ASSUME IInv, NEW h \in Handlers, ReplaceClient(h)
    PROVE  IInv'
  <1>1. /\ TypeOK /\ CallSound(h) /\ pc[h] = "client" /\ cfg[h].mode = "shared"
        /\ clientLock = NoHandler /\ Create(h, cfg[h].idle) /\ Goto(h, "close")
        /\ client' = my'[h] /\ old' = [old EXCEPT ![h] = client] /\ clientLock' = h
        /\ UNCHANGED <<ownerVars, asked, cfg, waitId, got, mark, cacheVars>>
    BY DEF IInv, CallSound, ModeFits, ReplaceClient
  <1>2. cfg[h].idle \in Nat
    BY <1>1, ConfigFields DEF TypeOK
  <1>3. PICK c \in Clients :
           /\ Fresh(c)
           /\ clients' = [clients EXCEPT ![c] = NewClient(cfg[h].cmd, cfg[h].idle)]
           /\ my' = [my EXCEPT ![h] = c] /\ astray' = astray \ {c}
           /\ clients' \in [Clients -> ClientStates]
           /\ \A k \in Clients : ClientSound(clients[k])' /\ (k # c => clients'[k] = clients[k])
           /\ clients'[c].cmd = cfg[h].cmd /\ ~Live(clients'[c])
    BY <1>1, <1>2, Created
  <1>4. \A g \in Handlers : g # h => Same(g)
    BY <1>1, <1>3 DEF Goto, Same, TypeOK
  <1>5. pc'[h] = "close" /\ my'[h] = c /\ old'[h] = client /\ client' = c
    BY <1>1, <1>3 DEF Goto, TypeOK
  <1>6. TypeOK'
    <2>1. pc' \in [Handlers -> Places]
      BY <1>1 DEF Goto, TypeOK, Places
    <2> QED
      BY <1>1, <1>3, <1>4, <1>5, <2>1 DEF TypeOK, ownerVars, cacheVars, Same
  <1>7. CallSound(h)'
    BY <1>1, <1>3, <1>5 DEF CallSound, ModeFits, HasClient, Speaking, Waits, Storing, ownerVars
  <1>8. \A g \in Handlers : my[g] # c /\ old[g] # c /\ client # c
    BY <1>3 DEF Fresh, InUse
  <1>9. \A g \in Handlers : g # h => CallSound(g)'
    <2>1. \A g \in Handlers : HasClient(g) => clients'[my[g]] = clients[my[g]]
      BY <1>3, <1>8 DEF IInv, CallSound
    <2> QED
      BY <2>1, <1>1, <1>4, OthersSound DEF ownerVars
  <1>10. OwnerInv'
    <2>1. \A k \in Clients : k # c /\ Held(k) => Held(k)'
      <3> SUFFICES ASSUME NEW k \in Clients, k # c, Held(k)
                   PROVE  Held(k)'
        OBVIOUS
      <3>1. CASE k = client
        BY <3>1, <1>5 DEF Held
      <3>2. CASE k \in astray
        BY <3>2, <1>3 DEF Held
      <3>3. ASSUME NEW g \in Handlers, old[g] = k
            PROVE  Held(k)'
        <4>1. CASE g # h
          BY <4>1, <3>3, <1>4 DEF Held, Same
        <4>2. CASE g = h
          BY <4>2, <3>3, <1>1, NobodyAssumption DEF CallSound
        <4> QED
          BY <4>1, <4>2
      <3> QED
        BY <3>1, <3>2, <3>3 DEF Held
    <2>2. \A g \in Handlers, k \in Clients : HasToItself(g, k) => HasToItself(g, k)'
      BY <1>1, <1>4 DEF Same, HasToItself, Speaking, Waits
    <2>3. ASSUME NEW g \in Handlers, pc'[g] = "request", cfg'[g].mode # "once"
          PROVE  Held(my[g])'
      <3>1. g # h /\ pc[g] = "request" /\ cfg[g].mode # "once" /\ my'[g] = my[g]
        BY <2>3, <1>1, <1>4, <1>5 DEF Same
      <3>2. Held(my[g]) /\ my[g] # c /\ my[g] \in Clients
        BY <3>1, <1>8 DEF IInv, OwnerInv, CallSound, HasClient, Speaking
      <3> QED
        BY <3>1, <3>2, <2>1 DEF Held
    <2>4. \A k \in Clients : Live(clients'[k]) => k # c /\ Live(clients[k])
      BY <1>3
    <2> QED
      BY <2>1, <2>2, <2>3, <2>4 DEF IInv, OwnerInv
  <1>11. CacheInv'
    BY <1>1, <1>4, <1>5 DEF IInv, CacheInv, cacheVars, Same
  <1> QED
    BY <1>3, <1>6, <1>7, <1>9, <1>10, <1>11 DEF IInv

LEMMA StepDetach ==
    ASSUME IInv, NEW h \in Handlers, Detach(h)
    PROVE  IInv'
  <1>1. /\ TypeOK /\ CallSound(h) /\ pc[h] = "detach" /\ cfg[h].mode # "shared"
        /\ clientLock = NoHandler /\ old' = [old EXCEPT ![h] = client] /\ client' = NoClient
        /\ Goto(h, "close")
        /\ UNCHANGED <<ownerVars, asked, cfg, my, waitId, got, mark, clientLock, clients,
                       cacheVars, astray>>
    BY DEF IInv, CallSound, ModeFits, Detach
  <1>2. \A g \in Handlers : g # h => Same(g)
    BY <1>1 DEF Goto, Same, TypeOK
  <1>3. pc'[h] = "close" /\ old'[h] = client /\ old[h] = NoClient
    BY <1>1 DEF Goto, TypeOK, CallSound
  <1>4. TypeOK'
    <2>1. pc' \in [Handlers -> Places]
      BY <1>1 DEF Goto, TypeOK, Places
    <2> QED
      BY <1>1, <1>2, <1>3, <2>1 DEF TypeOK, ownerVars, cacheVars, Same
  <1>5. CallSound(h)'
    BY <1>1, <1>3 DEF CallSound, ModeFits, HasClient, Speaking, Waits, Storing, ownerVars
  <1>6. \A g \in Handlers : g # h => CallSound(g)'
    BY <1>1, <1>2, OthersSound DEF ownerVars
  <1>7. OwnerInv'
    <2>1. ASSUME NEW k \in Clients, Held(k)
          PROVE  Held(k)'
      <3>1. CASE k = client
        BY <3>1, <1>3 DEF Held
      <3>2. CASE k \in astray
        BY <3>2, <1>1 DEF Held
      <3>3. ASSUME NEW g \in Handlers, old[g] = k
            PROVE  Held(k)'
        <4>1. g # h
          BY <3>3, <1>3, NobodyAssumption
        <4> QED
          BY <4>1, <3>3, <1>2 DEF Held, Same
      <3> QED
        BY <2>1, <3>1, <3>2, <3>3 DEF Held
    <2>2. \A g \in Handlers, c \in Clients : HasToItself(g, c) => HasToItself(g, c)'
      BY <1>1, <1>2 DEF Same, HasToItself, Speaking, Waits
    <2>3. ASSUME NEW g \in Handlers, pc'[g] = "request", cfg'[g].mode # "once"
          PROVE  Held(my[g])'
      <3>1. g # h /\ pc[g] = "request" /\ cfg[g].mode # "once" /\ my'[g] = my[g]
        BY <2>3, <1>1, <1>2, <1>3 DEF Same
      <3>2. Held(my[g]) /\ my[g] \in Clients
        BY <3>1 DEF IInv, OwnerInv, CallSound, HasClient, Speaking
      <3> QED
        BY <3>1, <3>2, <2>1 DEF Held
    <2> QED
      BY <1>1, <2>1, <2>2, <2>3 DEF IInv, OwnerInv
  <1>8. CacheInv'
    BY <1>1, <1>2, <1>3 DEF IInv, CacheInv, cacheVars, Same
  <1> QED
    BY <1>1, <1>4, <1>5, <1>6, <1>7, <1>8 DEF IInv

LEMMA StepCloseOld ==
    ASSUME IInv, NEW h \in Handlers, CloseOld(h)
    PROVE  IInv'
  <1> DEFINE o == old[h]
  <1>1. /\ TypeOK /\ CallSound(h) /\ pc[h] = "close"
        /\ old' = [old EXCEPT ![h] = NoClient]
        /\ clientLock' = IF clientLock = h THEN NoHandler ELSE clientLock
        /\ UNCHANGED <<ownerVars, asked, client, cacheVars>>
    BY DEF IInv, CloseOld
  <1>2. \/ o = NoClient /\ UNCHANGED <<clients, astray>>
        \/ /\ o # NoClient /\ clients[o].lock = NoHandler
           /\ clients' = [clients EXCEPT ![o] = Stopped(@)]
           /\ astray' = IF \E g \in Handlers : pc[g] = "request" /\ my[g] = o
                        THEN astray \cup {o} ELSE astray
    BY DEF CloseOld, ClosedOld
  <1>3. \/ cfg[h].mode = "off" /\ Return(h)
        \/ cfg[h].mode = "once" /\ Goto(h, "own") /\ UNCHANGED locals
        \/ cfg[h].mode = "shared" /\ Goto(h, "request") /\ UNCHANGED locals
    <2>1. cfg[h].mode \in {"off", "shared", "once"}
      BY <1>1, ConfigFields DEF TypeOK
    <2> QED
      BY <2>1 DEF CloseOld
  <1>4. o \in Clients \cup {NoClient}
    BY <1>1 DEF TypeOK
  <1>5. \A g \in Handlers : g # h => Same(g)
    BY <1>1, <1>3 DEF Return, Goto, Same, TypeOK, locals
  <1>6. /\ old'[h] = NoClient
        /\ \/ pc'[h] = "idle" /\ mark'[h] = 0
           \/ /\ UNCHANGED locals
              /\ \/ pc'[h] = "own" /\ cfg[h].mode = "once"
                 \/ pc'[h] = "request" /\ cfg[h].mode = "shared"
    BY <1>1, <1>3 DEF Return, Goto, TypeOK
  \* The old client is stopped, and nobody waits for its answer.
  <1>7. /\ clients' \in [Clients -> ClientStates]
        /\ \A k \in Clients :
              /\ ClientSound(clients[k])' /\ clients'[k].cmd = clients[k].cmd
              /\ k # o => clients'[k] = clients[k]
              /\ k = o => ~Live(clients'[k]) /\ clients[k].lock = NoHandler
    <2>1. CASE o = NoClient
      BY <2>1, <1>1, <1>2, NobodyAssumption DEF TypeOK, IInv
    <2>2. CASE o # NoClient
      <3> DEFINE t == Stopped(clients[o])
      <3>1. o \in Clients /\ clients[o] \in ClientStates /\ ClientSound(clients[o])
        BY <2>2, <1>1, <1>4 DEF TypeOK, IInv
      <3>2. t \in ClientStates /\ ClientSound(t) /\ t.cmd = clients[o].cmd /\ ~Live(t)
        BY <3>1, StoppedSound
      <3>3. clients' = [clients EXCEPT ![o] = t] /\ clients[o].lock = NoHandler
        BY <2>2, <1>2
      <3> HIDE DEF t, o
      <3>4. /\ clients' \in [Clients -> ClientStates]
            /\ \A k \in Clients :
                  ClientSound(clients[k])' /\ (k # o => clients'[k] = clients[k])
            /\ clients'[o] = t
        BY <3>1, <3>2, <3>3, ClientMoves
      <3> QED
        BY <3>1, <3>2, <3>3, <3>4
    <2> QED
      BY <2>1, <2>2
  <1>8. TypeOK'
    <2>1. /\ pc' \in [Handlers -> Places]
          /\ cfg' \in [Handlers -> Configs] /\ my' \in [Handlers -> Clients \cup {NoClient}]
          /\ waitId' \in [Handlers -> Nat] /\ got' \in [Handlers -> Snapshots \cup {NoSnapshot}]
          /\ mark' \in [Handlers -> Nat]
      <3>1. CASE Return(h)
        BY <3>1, <1>1, ConfigsAssumption DEF Return, Goto, TypeOK, Places
      <3>2. ASSUME NEW next \in {"own", "request"}, Goto(h, next), UNCHANGED locals
            PROVE  /\ pc' \in [Handlers -> Places]
                   /\ cfg' \in [Handlers -> Configs] /\ my' \in [Handlers -> Clients \cup {NoClient}]
                   /\ waitId' \in [Handlers -> Nat]
                   /\ got' \in [Handlers -> Snapshots \cup {NoSnapshot}]
                   /\ mark' \in [Handlers -> Nat]
        BY <3>2, <1>1 DEF Goto, TypeOK, locals, Places
      <3> QED
        BY <3>1, <3>2, <1>3
    <2>2. astray' \subseteq Clients /\ clientLock' \in Handlers \cup {NoHandler}
          /\ old' \in [Handlers -> Clients \cup {NoClient}]
      BY <1>1, <1>2, <1>4 DEF TypeOK
    <2>3. \A g \in Handlers : pc'[g] = "copy" => cache' # NoSnapshot
      BY <1>1, <1>5, <1>6 DEF TypeOK, Same, cacheVars
    <2> QED
      BY <1>1, <1>7, <2>1, <2>2, <2>3 DEF TypeOK, ownerVars, cacheVars
  <1>9. CallSound(h)'
    <2>1. CASE pc'[h] = "idle" /\ mark'[h] = 0
      BY <2>1, <1>1, <1>6
         DEF CallSound, ModeFits, HasClient, Speaking, Waits, Storing, ownerVars, TypeOK
    <2>2. CASE UNCHANGED locals /\ pc'[h] = "own" /\ cfg[h].mode = "once"
      BY <2>2, <1>1, <1>6
         DEF CallSound, ModeFits, HasClient, Speaking, Waits, Storing, ownerVars, locals
    <2>3. CASE UNCHANGED locals /\ pc'[h] = "request" /\ cfg[h].mode = "shared"
      <3>1. my[h] \in Clients /\ clients[my[h]].cmd = cfg[h].cmd
        BY <2>3, <1>1 DEF CallSound, HasClient
      <3>2. my'[h] \in Clients /\ clients'[my'[h]].cmd = cfg'[h].cmd
        BY <2>3, <3>1, <1>7 DEF locals
      <3> QED
        BY <2>3, <3>2, <1>1, <1>6
           DEF CallSound, ModeFits, HasClient, Speaking, Waits, Storing, ownerVars, locals
    <2> QED
      BY <1>6, <2>1, <2>2, <2>3
  <1>10. ASSUME NEW g \in Handlers, g # h
         PROVE  CallSound(g)'
    <2>1. TypeOK /\ CallSound(g) /\ Same(g) /\ used' = used /\ used \in Nat
      BY <1>1, <1>5, <1>10 DEF IInv, TypeOK, ownerVars
    <2>2. pc[g] = "close" /\ cfg[g].mode = "shared" => client' = client /\ clientLock' = clientLock
      BY <1>1, <1>10, <2>1 DEF CallSound
    <2>3. HasClient(g) => my[g] \in Clients /\ clients'[my[g]].cmd = clients[my[g]].cmd
      BY <1>7, <2>1 DEF CallSound
    <2>4. pc[g] \in Waits =>
            HasClient(g) /\ AnswerDue(clients[my[g]], g, waitId[g], mark[g])
      BY <2>1 DEF CallSound, HasClient, Speaking
    <2>5. pc[g] \in Waits => clients'[my[g]] = clients[my[g]]
      BY <1>7, <2>3, <2>4, NobodyAssumption DEF AnswerDue
    <2>6. pc[g] = "handshake" => GreetingDue(clients[my[g]], waitId[g]) /\ pc[g] \in Waits
      BY <2>1 DEF CallSound, Waits
    <2> QED
      BY <2>1, <2>2, <2>3, <2>4, <2>5, <2>6, OtherCall
  <1>11. OwnerInv'
    <2>1. \A k \in Clients : k # o /\ Held(k) => Held(k)'
      <3> SUFFICES ASSUME NEW k \in Clients, k # o, Held(k)
                   PROVE  Held(k)'
        OBVIOUS
      <3>1. CASE k = client
        BY <3>1, <1>1 DEF Held
      <3>2. CASE k \in astray
        BY <3>2, <1>2 DEF Held
      <3>3. ASSUME NEW g \in Handlers, old[g] = k
            PROVE  Held(k)'
        <4>1. g # h
          BY <3>3
        <4> QED
          BY <4>1, <3>3, <1>5 DEF Held, Same
      <3> QED
        BY <3>1, <3>2, <3>3 DEF Held
    <2>2. \A g \in Handlers, c \in Clients : HasToItself(g, c) => HasToItself(g, c)'
      BY <1>1, <1>5 DEF Same, HasToItself, Speaking, Waits
    <2>3. ASSUME NEW g \in Handlers, pc'[g] = "request", cfg'[g].mode # "once"
          PROVE  Held(my[g])'
      <3>1. CASE g = h
        <4>1. UNCHANGED locals /\ cfg[h].mode = "shared"
          BY <3>1, <2>3, <1>6
        <4>2. my[h] = client
          BY <4>1, <1>1 DEF CallSound
        <4> QED
          BY <3>1, <4>1, <4>2, <1>1 DEF Held, locals
      <3>2. CASE g # h
        <4>1. pc[g] = "request" /\ cfg[g].mode # "once" /\ my'[g] = my[g]
          BY <3>2, <2>3, <1>5 DEF Same
        <4>2. Held(my[g]) /\ my[g] \in Clients
          BY <4>1 DEF IInv, OwnerInv, CallSound, HasClient, Speaking
        <4>3. CASE my[g] = o
          <5>1. o # NoClient /\ my[g] \in astray'
            BY <4>1, <4>2, <4>3, <1>2, NobodyAssumption
          <5> QED
            BY <5>1, <4>1 DEF Held
        <4>4. CASE my[g] # o
          BY <4>1, <4>2, <4>4, <2>1 DEF Held
        <4> QED
          BY <4>3, <4>4
      <3> QED
        BY <3>1, <3>2
    <2>4. \A k \in Clients : Live(clients'[k]) => k # o /\ Live(clients[k])
      BY <1>7
    <2> HIDE DEF o
    <2> QED
      BY <2>1, <2>2, <2>3, <2>4 DEF IInv, OwnerInv
  <1>12. CacheInv'
    BY <1>1, <1>5, <1>6 DEF IInv, CacheInv, cacheVars, Same
  <1> QED
    BY <1>7, <1>8, <1>9, <1>10, <1>11, <1>12 DEF IInv

-----------------------------------------------------------------------------
(* The invariant.                                                          *)

\* The owner, the account and the clock concern no request.
LEMMA OutsideStep ==
    ASSUME IInv, UNCHANGED <<requestVars, clients, cache, cacheCmd, answered>>, TypeOK',
           used <= used', used' \in Nat
    PROVE  IInv'
  <1>1. ASSUME NEW g \in Handlers
        PROVE  CallSound(g)'
    <2>1. TypeOK /\ CallSound(g) /\ Same(g) /\ UNCHANGED <<client, clientLock, clients>>
      BY DEF IInv, Same, requestVars
    <2> QED
      BY <2>1, OtherCall DEF CallSound, Waits
  <1>2. OwnerInv' /\ CacheInv'
    BY DEF IInv, OwnerInv, Held, HasToItself, CacheInv, requestVars
  <1>3. \A c \in Clients : ClientSound(clients[c])'
    BY DEF IInv
  <1> QED
    BY <1>1, <1>2, <1>3 DEF IInv

LEMMA EnvironmentSteps ==
    ASSUME IInv, Environment
    PROVE  IInv'
  <1>1. CASE EditConfig
    <2>1. /\ UNCHANGED <<requestVars, clients, cache, cacheCmd, answered>>
          /\ used' = used /\ used \in Nat
      BY <1>1 DEF EditConfig, cacheVars, IInv, TypeOK
    <2>2. TypeOK'
      BY <1>1 DEF EditConfig, IInv, TypeOK, requestVars, cacheVars
    <2> QED
      BY <2>1, <2>2, OutsideStep
  <1>2. CASE UseAccount
    <2>1. /\ UNCHANGED <<requestVars, clients, cache, cacheCmd, answered>>
          /\ used' = used + 1 /\ used \in Nat
      BY <1>2 DEF UseAccount, cacheVars, IInv, TypeOK
    <2>2. TypeOK'
      BY <1>2 DEF UseAccount, IInv, TypeOK, requestVars, cacheVars
    <2> QED
      BY <2>1, <2>2, OutsideStep
  <1>3. CASE CacheExpires
    <2>1. /\ UNCHANGED <<requestVars, clients, cache, cacheCmd, answered>>
          /\ used' = used /\ used \in Nat
      BY <1>3 DEF CacheExpires, ownerVars, IInv, TypeOK
    <2>2. TypeOK'
      BY <1>3 DEF CacheExpires, IInv, TypeOK, requestVars, ownerVars
    <2> QED
      BY <2>1, <2>2, OutsideStep
  <1> QED
    BY <1>1, <1>2, <1>3, StepServerAnswers, StepServerNotifies, StepServerExits DEF Environment

LEMMA RequestSteps ==
    ASSUME IInv, NEW h \in Handlers, Ask(h) \/ Step(h) \/ TimeOut(h)
    PROVE  IInv'
  <1>1. CASE Ask(h)
    BY <1>1, StepAsk
  <1>2. CASE LookUp(h) \/ Copy(h) \/ StoreSnapshot(h) \/ StoreCommand(h) \/ Fail(h)
    BY <1>2, StepLookUp, StepCopy, StepStoreSnapshot, StepStoreCommand, StepFail
  <1>3. CASE TakeClient(h) \/ ReplaceClient(h) \/ Detach(h) \/ CloseOld(h) \/ OwnClient(h)
    BY <1>3, StepTakeClient, StepReplaceClient, StepDetach, StepCloseOld, StepOwnClient
  <1>4. CASE Enter(h) \/ CannotStart(h) \/ SkipLine(h) \/ ShakeHands(h) \/ Receive(h)
    BY <1>4, StepEnter, StepCannotStart, StepSkipLine, StepShakeHands, StepReceive
  <1>5. CASE ServerGone(h) \/ TimeOut(h)
    BY <1>5, StepRaise DEF ServerGone, TimeOut, DeadlinePassed, Waiting, Waits
  <1> QED
    BY <1>1, <1>2, <1>3, <1>4, <1>5 DEF Step

LEMMA InitSound == Init => IInv
  <1> SUFFICES ASSUME Init
               PROVE  IInv
    OBVIOUS
  <1>1. \A c \in Clients :
           clients[c] \in ClientStates /\ ClientSound(clients[c]) /\ ~Live(clients[c])
    BY NewClientSound DEF Init
  <1>2. NoSnapshot \in Snapshots \cup {NoSnapshot}
    OBVIOUS
  <1>3. TypeOK
    <2> HIDE DEF NoSnapshot
    <2>1. clients \in [Clients -> ClientStates]
      BY <1>1 DEF Init
    <2> QED
      BY <1>2, <2>1, ConfigsAssumption DEF Init, TypeOK, Places
  <1>4. \A h \in Handlers : CallSound(h)
    BY DEF Init, CallSound, ModeFits, HasClient, Speaking, Waits, Storing
  <1>5. OwnerInv /\ CacheInv
    BY <1>1 DEF Init, OwnerInv, CacheInv
  <1> QED
    BY <1>1, <1>3, <1>4, <1>5 DEF IInv

LEMMA NextSound == IInv /\ [Next]_vars => IInv'
  <1> SUFFICES ASSUME IInv, [Next]_vars
               PROVE  IInv'
    OBVIOUS
  <1>1. CASE Environment
    BY <1>1, EnvironmentSteps
  <1>2. CASE \E h \in Handlers : Ask(h) \/ Step(h) \/ TimeOut(h)
    BY <1>2, RequestSteps
  <1>3. CASE UNCHANGED vars
    <2>1. TypeOK'
      BY <1>3 DEF IInv, TypeOK, vars, ownerVars, cacheVars
    <2> QED
      BY <1>3, <2>1, OutsideStep DEF vars, requestVars, ownerVars, cacheVars, IInv, TypeOK
  <1>4. Next \/ UNCHANGED vars
    OBVIOUS
  <1> QED
    BY <1>1, <1>2, <1>3, <1>4 DEF Next

LEMMA Invariance == Spec => []IInv
  BY InitSound, NextSound, PTL DEF Spec

-----------------------------------------------------------------------------
(* The properties.                                                         *)

(***************************************************************************)
(* Every variable keeps its type, and a request that copies the cached     *)
(* snapshot finds one (`_CACHE is not None`, then dict(_CACHE)).           *)
(***************************************************************************)
THEOREM TypeCorrect == Spec => []TypeOK
  <1>1. IInv => TypeOK
    BY DEF IInv
  <1> QED
    BY <1>1, Invariance, PTL

(***************************************************************************)
(* What a request takes for its answer was read by the server of its own   *)
(* command after the request began (_wait_for_message, close).             *)
(***************************************************************************)
THEOREM AnswersOwn == Spec => []AnswersAreOwn
  <1>1. IInv => AnswersAreOwn
    BY DEF IInv, CallSound, AnswersAreOwn
  <1> QED
    BY <1>1, Invariance, PTL

(***************************************************************************)
(* No process is asked for limits before it has answered the handshake     *)
(* (_ensure_initialized).                                                  *)
(***************************************************************************)
THEOREM Handshakes == Spec => []HandshakeFirst
  <1>1. IInv => HandshakeFirst
    BY DEF IInv, ClientSound, Greeted, HandshakeFirst
  <1> QED
    BY <1>1, Invariance, PTL

(***************************************************************************)
(* A process that runs is the shared client's, or a request's, or it was   *)
(* started by a request in a client that had been closed (_shared_client). *)
(***************************************************************************)
THEOREM Owned == Spec => []ProcessesOwned
  <1>1. IInv => ProcessesOwned
    BY DEF IInv, OwnerInv, Held, HasToItself, ProcessesOwned, InUse
  <1> QED
    BY <1>1, Invariance, PTL

\* A step moves one request.
LEMMA OneMoves ==
    ASSUME TypeOK, NEW h \in Handlers, Ask(h) \/ Step(h) \/ TimeOut(h)
    PROVE  UNCHANGED pc \/ \E next : Goto(h, next)
  <1>1. CASE Ask(h)
    BY <1>1 DEF Ask
  <1>2. CASE LookUp(h) \/ Copy(h) \/ StoreSnapshot(h) \/ StoreCommand(h) \/ Fail(h)
    BY <1>2 DEF LookUp, Copy, StoreSnapshot, StoreCommand, Fail, Return
  <1>3. CASE TakeClient(h) \/ ReplaceClient(h) \/ Detach(h) \/ OwnClient(h)
    BY <1>3 DEF TakeClient, ReplaceClient, Detach, OwnClient
  <1>4. CASE CloseOld(h)
    <2>1. cfg[h].mode \in {"off", "shared", "once"}
      BY ConfigFields DEF TypeOK
    <2> QED
      BY <1>4, <2>1 DEF CloseOld, Return
  <1>5. CASE Enter(h)
    BY <1>5 DEF Enter, Send
  <1>6. CASE CannotStart(h) \/ SkipLine(h) \/ ShakeHands(h) \/ Receive(h)
    BY <1>6 DEF CannotStart, SkipLine, ShakeHands, Receive
  <1>7. CASE ServerGone(h) \/ TimeOut(h)
    BY <1>7 DEF ServerGone, TimeOut, Raise
  <1> QED
    BY <1>1, <1>2, <1>3, <1>4, <1>5, <1>6, <1>7 DEF Step

(***************************************************************************)
(* While one command has answered and no other, a failing request for it   *)
(* returns the last snapshot (_stale_or_unavailable).                      *)
(***************************************************************************)
THEOREM StaleLimitsShown == Spec => LimitsStay
  <1> DEFINE A == \A h \in Handlers : pc[h] = "fail" /\ pc'[h] = "idle" => ~(answered = {cfg[h].cmd})
  <1>1. IInv /\ [Next]_vars => [A]_vars
    <2> SUFFICES ASSUME IInv, Next, NEW h \in Handlers, pc[h] = "fail", pc'[h] = "idle",
                        answered = {cfg[h].cmd}
                 PROVE  FALSE
      OBVIOUS
    <2>1. MayShowStale(h)
      BY DEF IInv, CacheInv, MayShowStale, CacheHolds
    <2>2. pc \in [Handlers -> Places]
      BY DEF IInv, TypeOK
    <2>3. CASE Environment
      BY <2>3 DEF Environment, EditConfig, UseAccount, CacheExpires, ServerAnswers, ServerNotifies,
                  ServerExits, requestVars
    <2>4. ASSUME NEW g \in Handlers, g # h, Ask(g) \/ Step(g) \/ TimeOut(g)
          PROVE  FALSE
      BY <2>2, <2>4, OneMoves DEF IInv, Goto
    <2>5. CASE Ask(h) \/ Step(h) \/ TimeOut(h)
      BY <2>1, <2>2, <2>5 DEF Ask, Step, TimeOut, DeadlinePassed, Waiting, LookUp, Copy,
           StoreSnapshot, StoreCommand, Fail, TakeClient, ReplaceClient, Detach, CloseOld,
           OwnClient, Enter, CannotStart, SkipLine, ShakeHands, Receive, ServerGone, Goto
    <2> QED
      BY <2>3, <2>4, <2>5 DEF Next
  <1> QED
    BY <1>1, Invariance, PTL DEF Spec, LimitsStay

-----------------------------------------------------------------------------
(***************************************************************************)
(* When the one process is the only one.  A process that is neither the     *)
(* shared client's nor a request's is in a client that went astray, which   *)
(* takes an edit of the configuration and a second request at once.         *)
(***************************************************************************)
LEMMA OnlyAstray == IInv /\ astray = {} => OneProcess
  <1> SUFFICES ASSUME IInv, astray = {}, \A h \in Handlers : pc[h] = "idle",
                      NEW c \in Clients, Live(clients[c])
               PROVE  c = client
    BY DEF OneProcess
  <1>1. \A h \in Handlers : old[h] = NoClient
    BY DEF IInv, CallSound
  <1>2. \A h \in Handlers : ~HasToItself(h, c)
    BY DEF HasToItself, Speaking, Waits
  <1> QED
    BY <1>1, <1>2, NobodyAssumption DEF IInv, OwnerInv, Held

\* What a client was created with
LEMMA SettingsOfClient ==
    ASSUME NEW s \in ClientStates
    PROVE  /\ Stopped(s).cmd = s.cmd /\ Stopped(s).idle = s.idle
           /\ \A m : Sent(s, m).cmd = s.cmd /\ Sent(s, m).idle = s.idle
           /\ \A x : /\ [Stopped(s) EXCEPT !.lock = x].cmd = s.cmd
                    /\ [Stopped(s) EXCEPT !.lock = x].idle = s.idle
  BY DEF Stopped, Sent, ClientStates

LEMMA SettingsAfterLine ==
    ASSUME NEW s \in ClientStates, NEW q, NEW h
    PROVE  /\ [s EXCEPT !.lines = q].cmd = s.cmd /\ [s EXCEPT !.lines = q].idle = s.idle
           /\ Sent([s EXCEPT !.lines = q, !.initialized = TRUE], "read").cmd = s.cmd
           /\ Sent([s EXCEPT !.lines = q, !.initialized = TRUE], "read").idle = s.idle
           /\ Unlocked(h, [s EXCEPT !.lines = q]).cmd = s.cmd
           /\ Unlocked(h, [s EXCEPT !.lines = q]).idle = s.idle
  BY DEF Sent, Unlocked, Stopped, ClientStates

SettingsStay ==
    \A c \in Clients : clients'[c].cmd = clients[c].cmd /\ clients'[c].idle = clients[c].idle

\* A configuration that was never edited fits the shared client.
Unedited ==
    edits = 0 =>
        /\ conf = FirstConfig
        /\ \A h \in Handlers : cfg[h] = FirstConfig /\ old[h] = NoClient
        /\ client # NoClient =>
              /\ FirstConfig.mode = "shared"
              /\ clients[client].cmd = FirstConfig.cmd
              /\ clients[client].idle = FirstConfig.idle
        /\ astray = {}

LEMMA InitUnedited == Init => Unedited
  BY DEF Init, Unedited

LEMMA EnvironmentUnedited == IInv /\ Unedited /\ Environment => Unedited'
  <1> SUFFICES ASSUME IInv, Unedited, Environment PROVE Unedited'
    OBVIOUS
  <1>1. CASE EditConfig
    BY <1>1 DEF EditConfig, IInv, TypeOK, Unedited
  <1>2. CASE UseAccount \/ CacheExpires
    BY <1>2 DEF UseAccount, CacheExpires, requestVars, ownerVars, Unedited
  <1>3. ASSUME NEW c \in Clients, ServerAnswers(c) \/ ServerNotifies(c) \/ ServerExits(c)
        PROVE  Unedited'
    <2>1. /\ edits' = edits /\ conf' = conf /\ cfg' = cfg /\ old' = old /\ client' = client
          /\ astray' = astray
      BY <1>3 DEF ServerAnswers, ServerNotifies, ServerExits, requestVars, ownerVars
    <2>2. clients \in [Clients -> ClientStates] /\ client \in Clients \cup {NoClient}
      BY DEF IInv, TypeOK
    <2>3. SettingsStay
      <3>1. CASE ServerAnswers(c)
        BY <2>2, <3>1 DEF ServerAnswers, SettingsStay, ClientStates
      <3>2. CASE ServerNotifies(c)
        BY <2>2, <3>2 DEF ServerNotifies, SettingsStay, ClientStates
      <3>3. CASE ServerExits(c)
        BY <2>2, <3>3 DEF ServerExits, SettingsStay, ClientStates
      <3> QED
        BY <1>3, <3>1, <3>2, <3>3
    <2> QED
      BY <2>1, <2>2, <2>3 DEF Unedited, SettingsStay
  <1> QED
    BY <1>1, <1>2, <1>3 DEF Environment

\* The steps of a request that leave _CLIENT as it is
LEMMA RequestUnedited ==
    ASSUME IInv, Unedited, NEW h \in Handlers,
           \/ Ask(h) \/ LookUp(h) \/ Copy(h) \/ StoreSnapshot(h) \/ StoreCommand(h) \/ Fail(h)
           \/ TakeClient(h) \/ Enter(h) \/ CannotStart(h) \/ SkipLine(h) \/ ShakeHands(h)
           \/ Receive(h) \/ ServerGone(h) \/ TimeOut(h)
    PROVE  Unedited'
  <1>1. /\ edits' = edits /\ conf' = conf /\ old' = old /\ client' = client /\ astray' = astray
    BY DEF Ask, LookUp, Copy, StoreSnapshot, StoreCommand, Fail, TakeClient, Enter, CannotStart,
           SkipLine, ShakeHands, Receive, ServerGone, TimeOut, Raise, ownerVars
  <1>2. cfg' = cfg \/ cfg' = [cfg EXCEPT ![h] = conf] \/ cfg' = [cfg EXCEPT ![h] = FirstConfig]
    BY DEF Ask, LookUp, Copy, StoreSnapshot, StoreCommand, Fail, TakeClient, Enter, CannotStart,
           SkipLine, ShakeHands, Receive, ServerGone, TimeOut, Raise, Return, locals
  <1>3. clients \in [Clients -> ClientStates] /\ client \in Clients \cup {NoClient}
        /\ cfg \in [Handlers -> Configs]
    BY DEF IInv, TypeOK
  <1>4. SettingsStay
    <2> USE <1>3 DEF SettingsStay
    <2>1. CASE \/ Ask(h) \/ LookUp(h) \/ Copy(h) \/ StoreSnapshot(h) \/ StoreCommand(h) \/ Fail(h)
               \/ TakeClient(h)
      BY <2>1 DEF Ask, LookUp, Copy, StoreSnapshot, StoreCommand, Fail, TakeClient
    <2>2. CASE ~(\/ Ask(h) \/ LookUp(h) \/ Copy(h) \/ StoreSnapshot(h) \/ StoreCommand(h)
                 \/ Fail(h) \/ TakeClient(h))
      <3>1. my[h] \in Clients
        BY <2>2 DEF IInv, CallSound, HasClient, Speaking, Waits, Enter, CannotStart, SkipLine,
                ShakeHands, Receive, ServerGone, TimeOut, DeadlinePassed, Waiting
      <3> DEFINE s == clients[my[h]]
      <3>2. s \in ClientStates
        BY <3>1
      <3>3. PICK t : /\ clients' = [clients EXCEPT ![my[h]] = t]
                     /\ t.cmd = s.cmd /\ t.idle = s.idle
        <4>1. CASE Enter(h)
          <5>1. [s EXCEPT !.lock = h] \in ClientStates
            BY <3>2 DEF ClientStates
          <5> DEFINE held == [s EXCEPT !.lock = h]
          <5>2. held.cmd = s.cmd /\ held.idle = s.idle
            BY <3>2 DEF ClientStates
          <5>3. LET new == [Stopped(held) EXCEPT !.proc = "live"]
                IN  \A m : /\ Sent(held, m).cmd = s.cmd /\ Sent(held, m).idle = s.idle
                          /\ Sent(new, m).cmd = s.cmd /\ Sent(new, m).idle = s.idle
            BY <5>1, <5>2 DEF Stopped, Sent, ClientStates
          <5> QED
            BY <4>1, <5>3 DEF Enter, Send
        <4>2. CASE CannotStart(h)
          BY <3>2, <4>2, SettingsOfClient DEF CannotStart
        <4>3. CASE SkipLine(h)
          <5> DEFINE t == [s EXCEPT !.lines = Tail(s.lines)]
          <5>1. clients' = [clients EXCEPT ![my[h]] = t]
            BY <4>3 DEF SkipLine
          <5>2. t.cmd = s.cmd /\ t.idle = s.idle
            BY <3>2, SettingsAfterLine
          <5> HIDE DEF t
          <5> QED
            BY <5>1, <5>2
        <4>4. CASE ShakeHands(h)
          <5> DEFINE t == Sent([s EXCEPT !.lines = Tail(s.lines), !.initialized = TRUE], "read")
          <5>1. clients' = [clients EXCEPT ![my[h]] = t]
            BY <4>4 DEF ShakeHands
          <5>2. t.cmd = s.cmd /\ t.idle = s.idle
            BY <3>2, SettingsAfterLine
          <5> HIDE DEF t
          <5> QED
            BY <5>1, <5>2
        <4>5. CASE Receive(h)
          <5> DEFINE t == Unlocked(h, [s EXCEPT !.lines = Tail(s.lines)])
          <5>1. clients' = [clients EXCEPT ![my[h]] = t]
            BY <4>5 DEF Receive
          <5>2. t.cmd = s.cmd /\ t.idle = s.idle
            BY <3>2, SettingsAfterLine
          <5> HIDE DEF t
          <5> QED
            BY <5>1, <5>2
        <4>6. CASE ServerGone(h) \/ TimeOut(h)
          <5> DEFINE t == [Stopped(s) EXCEPT !.lock = NoHandler]
          <5>1. clients' = [clients EXCEPT ![my[h]] = t]
            BY <4>6 DEF ServerGone, TimeOut, Raise
          <5>2. t.cmd = s.cmd /\ t.idle = s.idle
            BY <3>2, SettingsOfClient
          <5> HIDE DEF t
          <5> QED
            BY <5>1, <5>2
        <4> QED
          BY <2>2, <4>1, <4>2, <4>3, <4>4, <4>5, <4>6
      <3> QED
        BY <3>1, <3>3
    <2> QED
      BY <2>1, <2>2
  <1> QED
    BY <1>1, <1>2, <1>3, <1>4 DEF Unedited, SettingsStay

\* The steps that create a client or close one
LEMMA ClientUnedited ==
    ASSUME IInv, Unedited, NEW h \in Handlers,
           OwnClient(h) \/ ReplaceClient(h) \/ Detach(h) \/ CloseOld(h)
    PROVE  Unedited'
  <1> SUFFICES ASSUME edits' = 0 PROVE Unedited'
    BY DEF Unedited
  <1>1. edits = 0 /\ conf' = conf
    BY DEF OwnClient, ReplaceClient, Detach, CloseOld, ownerVars
  <1>2. /\ conf = FirstConfig /\ astray = {}
        /\ \A g \in Handlers : cfg[g] = FirstConfig /\ old[g] = NoClient
        /\ client # NoClient =>
              /\ FirstConfig.mode = "shared"
              /\ clients[client].cmd = FirstConfig.cmd
              /\ clients[client].idle = FirstConfig.idle
    BY <1>1 DEF Unedited
  <1>3. /\ clients \in [Clients -> ClientStates] /\ client \in Clients \cup {NoClient}
        /\ cfg \in [Handlers -> Configs] /\ old \in [Handlers -> Clients \cup {NoClient}]
    BY DEF IInv, TypeOK
  <1>4. ModeFits(h)
    BY DEF IInv, CallSound
  <1>5. CASE OwnClient(h)
    <2>1. cfg' = cfg /\ old' = old /\ client' = client /\ astray' = {}
      BY <1>2, <1>5 DEF OwnClient, Create
    <2>2. client = NoClient
      BY <1>2, <1>4, <1>5 DEF OwnClient, ModeFits
    <2> QED
      BY <1>1, <1>2, <2>1, <2>2 DEF Unedited
  <1>6. CASE ReplaceClient(h)
    <2>1. client = NoClient /\ FirstConfig.mode = "shared"
      BY <1>2, <1>4, <1>6 DEF ReplaceClient, Fits, ModeFits
    <2>2. PICK c \in Clients : /\ clients' = [clients EXCEPT ![c] = NewClient(cfg[h].cmd, cfg[h].idle)]
                               /\ client' = c
      <3> DEFINE c == CHOOSE c \in Clients : Fresh(c)
      <3>1. c \in Clients
        BY <1>6 DEF ReplaceClient, Create
      <3>2. my'[h] = c
        BY <1>6 DEF ReplaceClient, Create, IInv, TypeOK
      <3> QED
        BY <1>6, <3>1, <3>2 DEF ReplaceClient, Create
    <2>3. clients'[client'].cmd = FirstConfig.cmd /\ clients'[client'].idle = FirstConfig.idle
      BY <1>2, <1>3, <2>2 DEF NewClient
    <2>4. cfg' = cfg /\ old' = [old EXCEPT ![h] = NoClient] /\ astray' = {}
      BY <1>2, <1>6, <2>1 DEF ReplaceClient, Create
    <2> QED
      BY <1>1, <1>2, <1>3, <2>1, <2>3, <2>4 DEF Unedited
  <1>7. CASE Detach(h)
    <2>1. client = NoClient
      BY <1>2, <1>4, <1>7 DEF Detach, ModeFits
    <2> QED
      BY <1>1, <1>2, <1>3, <1>7, <2>1 DEF Unedited, Detach
  <1>8. CASE CloseOld(h)
    <2>1. /\ clients' = clients /\ astray' = {} /\ client' = client
          /\ old' = [old EXCEPT ![h] = NoClient]
      BY <1>2, <1>8 DEF CloseOld
    <2>2. cfg' = cfg \/ cfg' = [cfg EXCEPT ![h] = FirstConfig]
      <3>1. cfg[h].mode \in {"off", "shared", "once"}
        BY <1>3, ConfigFields
      <3> QED
        BY <1>8, <3>1 DEF CloseOld, Return, locals
    <2> QED
      BY <1>1, <1>2, <1>3, <2>1, <2>2 DEF Unedited
  <1> QED
    BY <1>5, <1>6, <1>7, <1>8

LEMMA NextUnedited == IInv /\ Unedited /\ [Next]_vars => Unedited'
  <1>1. Unedited /\ UNCHANGED vars => Unedited'
    BY DEF vars, ownerVars, Unedited
  <1> QED
    BY <1>1, EnvironmentUnedited, RequestUnedited, ClientUnedited DEF Next, Step

(***************************************************************************)
(* As long as the configuration is not edited the process of the shared     *)
(* client is the only one that outlives its request, for any number of      *)
(* requests at once, time-outs and servers that exit.                       *)
(***************************************************************************)
THEOREM OneProcessUnedited == Spec => [](edits = 0 => OneProcess)
  <1>1. Unedited => (edits = 0 => astray = {})
    BY DEF Unedited
  <1>2. Spec => []Unedited
    BY InitUnedited, NextUnedited, Invariance, PTL DEF Spec
  <1> QED
    BY <1>1, <1>2, OnlyAstray, Invariance, PTL

(***************************************************************************)
(* Requests one after another leave no other process either, whatever is    *)
(* edited between them or meanwhile (close_codex_account_client).           *)
(***************************************************************************)
THEOREM OneProcessInTurn ==
    ASSUME \A g, h \in Handlers : g = h
    PROVE  Spec => []OneProcess
  <1>1. Init => astray = {}
    BY DEF Init
  <1>2. astray = {} /\ [Next]_vars => (astray = {})'
    <2> SUFFICES ASSUME astray = {}, [Next]_vars PROVE astray' = {}
      OBVIOUS
    <2>1. CASE Environment
      BY <2>1 DEF Environment, EditConfig, UseAccount, CacheExpires, ServerAnswers,
                  ServerNotifies, ServerExits, requestVars
    <2>2. ASSUME NEW h \in Handlers, Ask(h) \/ Step(h) \/ TimeOut(h), ~CloseOld(h)
          PROVE  astray' = {}
      BY <2>2 DEF Step, Ask, LookUp, Copy, StoreSnapshot, StoreCommand, Fail, TakeClient,
                  ReplaceClient, Detach, OwnClient, Create, Enter, CannotStart, SkipLine,
                  ShakeHands, Receive, ServerGone, TimeOut, Raise
    <2>3. ASSUME NEW h \in Handlers, CloseOld(h)
          PROVE  astray' = {}
      BY <2>3 DEF CloseOld
    <2> QED
      BY <2>1, <2>2, <2>3 DEF Next, vars
  <1> QED
    BY <1>1, <1>2, OnlyAstray, Invariance, PTL DEF Spec
=============================================================================
