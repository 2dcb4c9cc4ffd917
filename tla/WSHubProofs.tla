----------------------------- MODULE WSHubProofs -----------------------------
(***************************************************************************)
(* What WSHub promises, for any number of connections, runs, requests and  *)
(* events and any capacities.                                              *)
(***************************************************************************)
EXTENDS WSHub, FiniteSetTheorems, TLAPS

USE CapAssumption, BoundAssumption

-----------------------------------------------------------------------------
(* Queues.                                                                 *)
LEMMA Appended ==
  ASSUME NEW S, NEW q \in Seq(S), NEW x \in S
  PROVE  /\ Append(q, x) \in Seq(S) /\ Len(Append(q, x)) = Len(q) + 1
         /\ \A i \in 1 .. Len(q) : Append(q, x)[i] = q[i]
         /\ Append(q, x)[Len(q) + 1] = x
OBVIOUS

LEMMA Taken ==
  ASSUME NEW S, NEW q \in Seq(S), q # <<>>
  PROVE  /\ Head(q) \in S /\ Head(q) = q[1] /\ Len(q) > 0
         /\ Tail(q) \in Seq(S) /\ Len(Tail(q)) = Len(q) - 1
         /\ \A i \in 1 .. Len(q) - 1 : Tail(q)[i] = q[i + 1]
OBVIOUS

-----------------------------------------------------------------------------
(* Typing.                                                                 *)
TypeHub ==
  /\ clients \subseteq Clients
  /\ runSubs \in [Runs -> SUBSET Clients]
  /\ subs \in [Clients -> SUBSET Runs]
  /\ gauge \in Int
TypeQueue == requests \in Seq(Request) /\ Len(requests) <= RequestCap
TypeBuffers ==
  /\ buffer \in [Clients -> Seq(Events)]
  /\ \A c \in Clients : Len(buffer[c]) <= SendCap
TypePumps ==
  /\ shut \in [Clients -> BOOLEAN]
  /\ handler \in [Clients -> {"none", "registering", "done"}]
  /\ reader \in [Clients -> {"none", "reading", "sending", "leaving", "closing", "done"}]
  /\ held \in [Clients -> SUBSET Request]
  /\ writer \in [Clients -> {"none", "writing", "done"}]
  /\ conn \in [Clients -> {"none", "open", "lost", "closed"}]
TypeRedis ==
  /\ published \in Seq(Runs) /\ Len(published) <= MaxEvents
  /\ inbox \in Seq(Events)
  /\ alive \in BOOLEAN
TypeGhost ==
  /\ asked \in [Clients -> 0 .. MaxRequests]
  /\ wanted \in [Clients -> SUBSET Runs]
  /\ named \in [Clients -> SUBSET Runs]
  /\ received \in [Clients -> Seq(Events)]

LEMMA TypeParts ==
  TypeOK <=> TypeHub /\ TypeQueue /\ TypeBuffers /\ TypePumps /\ TypeRedis /\ TypeGhost
BY DEF TypeOK, TypeHub, TypeQueue, TypeBuffers, TypePumps, TypeRedis, TypeGhost

LEMMA TypeInit == Init => TypeOK
BY DEF Init, TypeOK

(* Which action touches which part.                                        *)
LEMMA HubKept ==
  ASSUME [Next]_vars, ~Hub
  PROVE  UNCHANGED hub
BY DEF Next, Route, Connect, StartPumps, Lose, Reader, Writer, SendRequest, ReadError,
       CloseRead, Ask, Write, WriteClose, Ping, Publish, vars

LEMMA QueueKept ==
  ASSUME [Next]_vars, ~Serve, \A c \in Clients : ~SendRequest(c)
  PROVE  UNCHANGED requests
BY DEF Next, Hub, Register, Unregister, Route, Connect, StartPumps, Lose, Reader, Writer,
       ReadError, CloseRead, Ask, Write, WriteClose, Ping, Publish, vars, chans

LEMMA BuffersKept ==
  ASSUME [Next]_vars, ~Route, \A c \in Clients : ~Write(c)
  PROVE  UNCHANGED buffer
BY DEF Next, Hub, Serve, Register, Unregister, Connect, StartPumps, Lose, Reader, Writer,
       SendRequest, ReadError, CloseRead, Ask, WriteClose, Ping, Publish, vars, chans

LEMMA RedisKept ==
  ASSUME [Next]_vars, ~Route, \A r \in Runs : ~Publish(r)
  PROVE  UNCHANGED <<redis, alive>>
BY DEF Next, Hub, Serve, Register, Unregister, Connect, StartPumps, Lose, Reader, Writer,
       SendRequest, ReadError, CloseRead, Ask, Write, WriteClose, Ping, vars

LEMMA GhostKept ==
  ASSUME [Next]_vars, \A c \in Clients : ~Write(c),
         \A c \in Clients, rs \in SUBSET Runs, unsub \in BOOLEAN : ~Ask(c, rs, unsub)
  PROVE  UNCHANGED ghost
BY DEF Next, Hub, Serve, Register, Unregister, Route, Connect, StartPumps, Lose, Reader,
       Writer, SendRequest, ReadError, CloseRead, WriteClose, Ping, Publish, vars

(* What a step of the hub's select does.                                   *)
LEMMA ServeLemma ==
  ASSUME TypeOK, Serve
  PROVE  \E q \in Request :
           /\ q = requests[1] /\ Len(requests) > 0
           /\ requests' = Tail(requests) /\ requests' \in Seq(Request)
           /\ Len(requests') = Len(requests) - 1
           /\ \A i \in 1 .. Len(requests) - 1 : requests'[i] = requests[i + 1]
           /\ q.client \in Clients /\ q.runs \subseteq Runs /\ q.unsub \in BOOLEAN
           /\ runSubs' = [r \in Runs |-> IF r \notin q.runs THEN runSubs[r]
                             ELSE IF q.unsub THEN runSubs[r] \ {q.client}
                             ELSE runSubs[r] \cup {q.client}]
           /\ subs' = [subs EXCEPT ![q.client] =
                         IF q.unsub THEN @ \ q.runs ELSE @ \cup q.runs]
<1>1. requests \in Seq(Request) /\ requests # <<>>
  BY DEF Serve, TypeOK
<1>2. Head(requests) \in Request
  BY <1>1, Taken
<1> DEFINE q == Head(requests)
<1>3. q.client \in Clients /\ q.runs \subseteq Runs /\ q.unsub \in BOOLEAN
  BY <1>2 DEF Request
<1>4. /\ requests' = Tail(requests)
      /\ runSubs' = [r \in Runs |-> IF r \notin q.runs THEN runSubs[r]
                        ELSE IF q.unsub THEN runSubs[r] \ {q.client}
                        ELSE runSubs[r] \cup {q.client}]
      /\ subs' = [subs EXCEPT ![q.client] =
                    IF q.unsub THEN @ \ q.runs ELSE @ \cup q.runs]
  BY DEF Serve, TakeFrom, Without
<1>5. /\ q = requests[1] /\ Len(requests) > 0 /\ Tail(requests) \in Seq(Request)
      /\ Len(Tail(requests)) = Len(requests) - 1
      /\ \A i \in 1 .. Len(requests) - 1 : Tail(requests)[i] = requests[i + 1]
  BY <1>1, Taken
<1> QED
  BY <1>2, <1>3, <1>4, <1>5

LEMMA TypeStep == TypeOK /\ [Next]_vars => TypeOK'
<1> SUFFICES ASSUME TypeOK, [Next]_vars PROVE TypeOK'
  OBVIOUS
<1> USE TypeParts
<1>1. TypeHub'
  <2>1. CASE Serve
    <3>1. PICK q \in Request :
             /\ q.client \in Clients /\ q.runs \subseteq Runs
             /\ runSubs' = [r \in Runs |-> IF r \notin q.runs THEN runSubs[r]
                               ELSE IF q.unsub THEN runSubs[r] \ {q.client}
                               ELSE runSubs[r] \cup {q.client}]
             /\ subs' = [subs EXCEPT ![q.client] =
                           IF q.unsub THEN @ \ q.runs ELSE @ \cup q.runs]
      BY <2>1, ServeLemma
    <3>2. UNCHANGED <<clients, gauge>>
      BY <2>1 DEF Serve
    <3>3. runSubs' \in [Runs -> SUBSET Clients]
      BY <3>1 DEF TypeHub
    <3>4. subs' \in [Clients -> SUBSET Runs]
      BY <3>1 DEF TypeHub
    <3> QED
      BY <3>2, <3>3, <3>4 DEF TypeHub
  <2>2. ASSUME NEW c \in Clients, Register(c) PROVE TypeHub'
    BY <2>2 DEF Register, TypeHub
  <2>3. ASSUME NEW c \in Clients, Unregister(c) PROVE TypeHub'
    <3>1. runSubs' \in [Runs -> SUBSET Clients]
      BY <2>3 DEF Unregister, Without, TypeHub
    <3> QED
      BY <2>3, <3>1 DEF Unregister, TypeHub
  <2>4. CASE UNCHANGED hub
    <3>1. UNCHANGED <<clients, runSubs, subs, gauge>>
      BY <2>4 DEF hub
    <3> QED
      BY <3>1 DEF TypeHub
  <2> QED
    BY <2>1, <2>2, <2>3, <2>4, HubKept DEF Hub
<1>2. TypeQueue'
  <2>1. CASE Serve
    <3>1. requests' \in Seq(Request) /\ Len(requests') = Len(requests) - 1
      BY <2>1, ServeLemma
    <3>2. Len(requests) \in Nat /\ Len(requests) <= RequestCap
      BY DEF TypeQueue
    <3> QED
      BY <3>1, <3>2 DEF TypeQueue
  <2>2. ASSUME NEW c \in Clients, SendRequest(c) PROVE TypeQueue'
    <3>1. PICK q \in held[c] : requests' = Append(requests, q)
      BY <2>2 DEF SendRequest
    <3>2. q \in Request /\ Len(requests) < RequestCap
      BY <2>2 DEF SendRequest, TypePumps
    <3> QED
      BY <3>1, <3>2, Appended DEF TypeQueue
  <2> QED
    BY <2>1, <2>2, QueueKept DEF TypeQueue
<1>3. TypeBuffers'
  <2>1. CASE Route
    <3> DEFINE k == Head(inbox)
    <3>1. k \in Events
      BY <2>1, Taken DEF Route, TypeRedis
    <3>2. \/ buffer' = [c \in Clients |->
               IF c \in Subscribers(published[k]) /\ Room(c) THEN Append(buffer[c], k)
               ELSE buffer[c]]
          \/ UNCHANGED buffer
      BY <2>1 DEF Route, Put
    <3>3. \A c \in Clients : Append(buffer[c], k) \in Seq(Events)
                             /\ Len(Append(buffer[c], k)) = Len(buffer[c]) + 1
      BY <3>1, Appended DEF TypeBuffers
    <3>4. \A c \in Clients : Len(buffer[c]) \in Nat
      BY DEF TypeBuffers
    <3> HIDE DEF k
    <3>5. ASSUME NEW c \in Clients
          PROVE  /\ buffer'[c] \in Seq(Events) /\ Len(buffer'[c]) <= SendCap
      <4>1. CASE buffer'[c] = buffer[c]
        BY <3>5, <4>1 DEF TypeBuffers
      <4>2. CASE buffer'[c] = Append(buffer[c], k) /\ Len(buffer[c]) < SendCap
        <5>1. /\ buffer'[c] \in Seq(Events) /\ Len(buffer'[c]) = Len(buffer[c]) + 1
          BY <3>3, <3>5, <4>2
        <5>2. Len(buffer[c]) \in Nat /\ Len(buffer[c]) < SendCap
          BY <3>4, <3>5, <4>2
        <5> QED
          BY <5>1, <5>2
      <4> QED
        BY <3>2, <3>5, <4>1, <4>2 DEF Room
    <3>6. buffer' = [c \in Clients |-> buffer'[c]]
      BY <3>2 DEF TypeBuffers
    <3> QED
      BY <3>5, <3>6 DEF TypeBuffers
  <2>2. ASSUME NEW c \in Clients, Write(c) PROVE TypeBuffers'
    <3>1. Tail(buffer[c]) \in Seq(Events) /\ Len(Tail(buffer[c])) <= SendCap
      BY <2>2, Taken DEF Write, TypeBuffers
    <3>2. buffer' = [buffer EXCEPT ![c] = Tail(@)]
      BY <2>2 DEF Write
    <3> QED
      BY <3>1, <3>2 DEF TypeBuffers
  <2> QED
    BY <2>1, <2>2, BuffersKept DEF TypeBuffers
<1>4. TypePumps'
  <2>1. ASSUME NEW c \in Clients, Connect(c) \/ Register(c) \/ StartPumps(c) \/ Lose(c)
        PROVE  TypePumps'
    BY <2>1 DEF Connect, Register, StartPumps, Lose, chans, pumps, TypePumps
  <2>2. ASSUME NEW c \in Clients,
               Unregister(c) \/ ReadError(c) \/ CloseRead(c) \/ SendRequest(c)
        PROVE  TypePumps'
    BY <2>2 DEF Unregister, ReadError, CloseRead, AfterReadError, SendRequest, chans,
                TypePumps
  <2>3. ASSUME NEW c \in Clients, NEW rs \in SUBSET Runs, NEW unsub \in BOOLEAN,
               Ask(c, rs, unsub)
        PROVE  TypePumps'
    BY <2>3 DEF Ask, Request, chans, TypePumps
  <2>4. ASSUME NEW c \in Clients, Writer(c) PROVE TypePumps'
    BY <2>4 DEF Writer, Write, WriteClose, Ping, EndWriter, chans, TypePumps
  <2>5. CASE Serve \/ Route \/ UNCHANGED vars \/ \E r \in Runs : Publish(r)
    BY <2>5 DEF Serve, Route, Publish, vars, chans, pumps, TypePumps
  <2> QED
    BY <2>1, <2>2, <2>3, <2>4, <2>5 DEF Next, Hub, Reader
<1>5. TypeRedis'
  <2>1. CASE Route
    BY <2>1, Taken DEF Route, TypeRedis
  <2>2. ASSUME NEW r \in Runs, Publish(r) PROVE TypeRedis'
    <3>1. Len(published) + 1 \in Events
      BY <2>2 DEF Publish, Events, TypeRedis
    <3> QED
      BY <2>2, <3>1, Appended DEF Publish, TypeRedis
  <2> QED
    BY <2>1, <2>2, RedisKept DEF redis, TypeRedis
<1>6. TypeGhost'
  <2>1. ASSUME NEW c \in Clients, Write(c) PROVE TypeGhost'
    <3>1. Append(received[c], Head(buffer[c])) \in Seq(Events)
      BY <2>1, Taken, Appended DEF Write, TypeGhost, TypeBuffers
    <3>2. \/ received' = [received EXCEPT ![c] = Append(@, Head(buffer[c]))]
          \/ UNCHANGED received
      BY <2>1 DEF Write
    <3>3. UNCHANGED <<asked, wanted, named>>
      BY <2>1 DEF Write
    <3> QED
      BY <3>1, <3>2, <3>3 DEF TypeGhost
  <2>2. ASSUME NEW c \in Clients, NEW rs \in SUBSET Runs, NEW unsub \in BOOLEAN,
               Ask(c, rs, unsub)
        PROVE  TypeGhost'
    BY <2>2 DEF Ask, TypeGhost
  <2> QED
    BY <2>1, <2>2, GhostKept DEF ghost, TypeGhost
<1> QED
  <2>1. TypeOK' <=> TypeHub' /\ TypeQueue' /\ TypeBuffers' /\ TypePumps' /\ TypeRedis'
                    /\ TypeGhost'
    BY DEF TypeOK, TypeHub, TypeQueue, TypeBuffers, TypePumps, TypeRedis, TypeGhost
  <2> QED
    BY <1>1, <1>2, <1>3, <1>4, <1>5, <1>6, <2>1

(* Every state of the hub is well typed; no channel exceeds its capacity.  *)
THEOREM HubTyped == Spec => []TypeOK
BY TypeInit, TypeStep, PTL DEF Spec

-----------------------------------------------------------------------------
(* A connection's life, as the hub knows it: it is registered from the end *)
(* of Handle to the unregister of its reader, and before it has a reader   *)
(* nothing anywhere refers to it.                                          *)
LifeOK(c) ==
  /\ c \in clients <=> handler[c] = "done" /\ reader[c] \notin {"closing", "done"}
  /\ handler[c] # "done" => reader[c] = "none"
  /\ reader[c] = "none" => subs[c] = {} /\ \A r \in Runs : c \notin runSubs[r]

(* Requests on their way name their client, which has a reader.            *)
Traced ==
  /\ \A c \in Clients : \A q \in held[c] : q.client = c /\ reader[q.client] # "none"
  /\ \A i \in 1 .. Len(requests) : reader[requests[i].client] # "none"

LifeInv ==
  /\ IsFiniteSet(clients) /\ gauge = Cardinality(clients)
  /\ \A c \in Clients : LifeOK(c)
  /\ Traced
  /\ MapsAgree

LEMMA LifeInit == Init => LifeInv
BY FS_EmptySet DEF Init, LifeInv, LifeOK, Traced, MapsAgree

(* Readers, once started, are never as good as not there.                  *)
LEMMA ReaderStays ==
  ASSUME TypeOK, [Next]_vars, NEW c \in Clients, reader[c] # "none"
  PROVE  reader'[c] # "none"
<1> USE DEF TypeOK
<1>1. ASSUME NEW d \in Clients, Connect(d) \/ StartPumps(d) \/ Lose(d) \/ Register(d)
                                \/ Unregister(d)
      PROVE  reader'[c] # "none"
  BY <1>1 DEF Connect, StartPumps, Lose, Register, Unregister, pumps
<1>2. ASSUME NEW d \in Clients, Reader(d) \/ Writer(d)
      PROVE  reader'[c] # "none"
  BY <1>2 DEF Reader, Writer, SendRequest, ReadError, AfterReadError, CloseRead, Ask,
              Write, WriteClose, Ping
<1>3. CASE Serve \/ Route \/ UNCHANGED vars \/ \E r \in Runs : Publish(r)
  BY <1>3 DEF Serve, Route, Publish, vars, pumps
<1> QED
  BY <1>1, <1>2, <1>3 DEF Next, Hub

LEMMA TracedStep ==
  ASSUME TypeOK, LifeInv, [Next]_vars
  PROVE  Traced'
<1> USE TypeParts
<1>1. ASSUME NEW q \in Request, reader[q.client] # "none" PROVE reader'[q.client] # "none"
  BY <1>1, ReaderStays DEF Request
<1>2. \A i \in 1 .. Len(requests) : requests[i] \in Request /\ reader[requests[i].client] # "none"
  BY DEF LifeInv, Traced, TypeQueue
<1>3. \A c \in Clients : \A q \in held[c] : q \in Request /\ q.client = c /\ reader[q.client] # "none"
  BY DEF LifeInv, Traced, TypePumps
<1>4. \A i \in 1 .. Len(requests') : reader'[requests'[i].client] # "none"
  <2>1. CASE UNCHANGED requests
    BY <2>1, <1>1, <1>2
  <2>2. CASE Serve
    <3>1. /\ Len(requests') = Len(requests) - 1
          /\ \A i \in 1 .. Len(requests) - 1 : requests'[i] = requests[i + 1]
      BY <2>2, ServeLemma
    <3>2. Len(requests) \in Nat
      BY DEF TypeQueue
    <3> QED
      BY <1>1, <1>2, <3>1, <3>2
  <2>3. ASSUME NEW c \in Clients, SendRequest(c)
        PROVE  \A i \in 1 .. Len(requests') : reader'[requests'[i].client] # "none"
    <3>1. PICK q \in held[c] : requests' = Append(requests, q)
      BY <2>3 DEF SendRequest
    <3>2. q \in Request /\ reader[q.client] # "none"
      BY <1>3
    <3>3. /\ Len(requests') = Len(requests) + 1 /\ Len(requests) \in Nat
          /\ \A i \in 1 .. Len(requests) : requests'[i] = requests[i]
          /\ requests'[Len(requests) + 1] = q
      BY <3>1, <3>2, Appended DEF TypeQueue
    <3> QED
      BY <1>1, <1>2, <3>2, <3>3
  <2> QED
    BY <2>1, <2>2, <2>3, QueueKept
<1>5. \A c \in Clients : \A q \in held'[c] : q.client = c /\ reader'[q.client] # "none"
  <2>1. ASSUME NEW c \in Clients, NEW rs \in SUBSET Runs, NEW unsub \in BOOLEAN,
               Ask(c, rs, unsub), NEW d \in Clients, NEW q \in held'[d]
        PROVE  q.client = d /\ reader'[q.client] # "none"
    <3>1. CASE d # c
      BY <1>1, <1>3, <2>1, <3>1 DEF Ask, TypePumps
    <3>2. CASE d = c
      <4>1. q = [client |-> c, runs |-> rs, unsub |-> unsub] /\ reader'[c] = "sending"
        BY <2>1, <3>2 DEF Ask, TypePumps
      <4> QED
        BY <3>2, <4>1
    <3> QED
      BY <3>1, <3>2
  <2>2. ASSUME NEW c \in Clients, SendRequest(c), NEW d \in Clients, NEW q \in held'[d]
        PROVE  q.client = d /\ reader'[q.client] # "none"
    <3>1. q \in held[d]
      BY <2>2 DEF SendRequest, TypePumps
    <3> QED
      BY <1>1, <1>3, <3>1
  <2>3. CASE UNCHANGED held
    BY <1>1, <1>3, <2>3
  <2>4. \/ UNCHANGED held
        \/ \E c \in Clients : SendRequest(c)
        \/ \E c \in Clients, rs \in SUBSET Runs, unsub \in BOOLEAN : Ask(c, rs, unsub)
    BY DEF Next, Hub, Serve, Register, Unregister, Route, Connect, StartPumps, Lose,
           Reader, Writer, ReadError, CloseRead, Write, WriteClose, Ping, Publish, vars,
           pumps
  <2> QED
    BY <2>1, <2>2, <2>3, <2>4
<1> QED
  BY <1>4, <1>5 DEF Traced

LEMMA LifeStep ==
  ASSUME TypeOK, LifeInv, [Next]_vars
  PROVE  LifeInv'
<1> USE TypeParts
<1> DEFINE Mapped == /\ IsFiniteSet(clients) /\ gauge = Cardinality(clients)
                     /\ \A c \in Clients : LifeOK(c)
                     /\ MapsAgree
<1>1. ASSUME Serve PROVE Mapped'
  <2>1. PICK q \in Request :
           /\ q = requests[1] /\ Len(requests) > 0
           /\ runSubs' = [r \in Runs |-> IF r \notin q.runs THEN runSubs[r]
                             ELSE IF q.unsub THEN runSubs[r] \ {q.client}
                             ELSE runSubs[r] \cup {q.client}]
           /\ subs' = [subs EXCEPT ![q.client] =
                         IF q.unsub THEN @ \ q.runs ELSE @ \cup q.runs]
    BY <1>1, ServeLemma
  <2>2. UNCHANGED <<clients, gauge, handler, reader>>
    BY <1>1 DEF Serve, pumps
  <2>3. q.client \in Clients /\ q.runs \subseteq Runs /\ reader[q.client] # "none"
    BY <2>1 DEF Request, LifeInv, Traced, TypeQueue
  <2>4. ASSUME NEW c \in Clients, NEW r \in Runs
        PROVE  /\ c # q.client => (c \in runSubs'[r] <=> c \in runSubs[r])
                                  /\ subs'[c] = subs[c]
               /\ c = q.client =>
                    /\ c \in runSubs'[r] <=> IF r \in q.runs THEN ~q.unsub ELSE c \in runSubs[r]
                    /\ r \in subs'[c] <=> IF r \in q.runs THEN ~q.unsub ELSE r \in subs[c]
    BY <2>1, <2>3 DEF TypeHub
  <2>5. \A c \in Clients : LifeOK(c)'
    BY <2>1, <2>2, <2>3, <2>4 DEF LifeInv, LifeOK, TypeHub
  <2>6. MapsAgree'
    BY <2>2, <2>4 DEF LifeInv, MapsAgree, TypeHub
  <2> QED
    BY <2>2, <2>5, <2>6 DEF LifeInv
<1>2. ASSUME NEW c \in Clients, Register(c) PROVE Mapped'
  <2>1. /\ clients' = clients \cup {c} /\ gauge' = gauge + 1
        /\ handler[c] = "registering" /\ handler' = [handler EXCEPT ![c] = "done"]
        /\ UNCHANGED <<runSubs, subs, reader>>
    BY <1>2 DEF Register
  <2>2. c \notin clients /\ reader[c] = "none"
    BY <2>1 DEF LifeInv, LifeOK
  <2>3. subs[c] = {} /\ \A r \in Runs : c \notin runSubs[r]
    BY <2>2 DEF LifeInv, LifeOK
  <2>4. IsFiniteSet(clients') /\ gauge' = Cardinality(clients')
    BY <2>1, <2>2, FS_AddElement DEF LifeInv
  <2>5. \A d \in Clients : LifeOK(d)'
    BY <2>1, <2>2, <2>3 DEF LifeInv, LifeOK, TypePumps
  <2>6. MapsAgree'
    BY <2>1, <2>3 DEF LifeInv, MapsAgree
  <2> QED
    BY <2>4, <2>5, <2>6
<1>3. ASSUME NEW c \in Clients, Unregister(c) PROVE Mapped'
  <2>1. /\ clients' = clients \ {c} /\ gauge' = gauge - 1
        /\ reader[c] = "leaving" /\ reader' = [reader EXCEPT ![c] = "closing"]
        /\ UNCHANGED <<subs, handler>>
    BY <1>3 DEF Unregister
  <2>2. c \in clients
    BY <2>1 DEF LifeInv, LifeOK
  <2>3. ASSUME NEW d \in Clients, NEW r \in Runs, d # c
        PROVE  d \in runSubs'[r] <=> d \in runSubs[r]
    BY <1>3, <2>3 DEF Unregister, Without
  <2>4. IsFiniteSet(clients') /\ gauge' = Cardinality(clients')
    BY <2>1, <2>2, FS_RemoveElement, FS_CardinalityType DEF LifeInv
  <2>5. \A d \in Clients : LifeOK(d)'
    BY <2>1, <2>2, <2>3 DEF LifeInv, LifeOK, TypePumps
  <2>6. MapsAgree'
    BY <2>1, <2>3 DEF LifeInv, MapsAgree, TypeHub
  <2> QED
    BY <2>4, <2>5, <2>6
<1>4. ASSUME NEW c \in Clients, Connect(c) \/ StartPumps(c) \/ Lose(c) \/ Reader(c)
                                \/ Writer(c)
      PROVE  Mapped'
  <2>1. UNCHANGED <<clients, runSubs, subs, gauge>>
    BY <1>4 DEF Connect, StartPumps, Lose, Reader, Writer, SendRequest, ReadError,
                CloseRead, Ask, Write, WriteClose, Ping, hub
  <2>2. \A d \in Clients : LifeOK(d)'
    <3>1. CASE Connect(c)
      BY <2>1, <3>1 DEF Connect, LifeInv, LifeOK, TypePumps
    <3>2. CASE StartPumps(c)
      BY <2>1, <3>2 DEF StartPumps, MayStart, LifeInv, LifeOK, TypePumps
    <3>3. CASE Reader(c)
      BY <2>1, <3>3 DEF Reader, SendRequest, ReadError, AfterReadError, CloseRead, Ask,
                        LifeInv, LifeOK, TypePumps
    <3>4. CASE Lose(c) \/ Writer(c)
      BY <2>1, <3>4 DEF Lose, Writer, Write, WriteClose, Ping, pumps, LifeInv, LifeOK
    <3> QED
      BY <1>4, <3>1, <3>2, <3>3, <3>4
  <2> QED
    BY <2>1, <2>2 DEF LifeInv, MapsAgree
<1>5. ASSUME Route \/ UNCHANGED vars \/ \E r \in Runs : Publish(r)
      PROVE  Mapped'
  BY <1>5 DEF Route, Publish, vars, hub, pumps, LifeInv, LifeOK, MapsAgree
<1>6. Mapped'
  BY <1>1, <1>2, <1>3, <1>4, <1>5 DEF Next, Hub, LifeInv
<1> QED
  BY <1>6, TracedStep DEF LifeInv

LEMMA HubInv == Spec => [](TypeOK /\ LifeInv)
BY TypeInit, TypeStep, LifeInit, LifeStep, PTL DEF Spec

(* The two directions of the subscription map agree.                       *)
THEOREM MapsAlwaysAgree == Spec => []MapsAgree
BY HubInv, PTL DEF LifeInv

(* The gauge counts the registered clients, all of them with a reader or   *)
(* about to have one.                                                      *)
THEOREM NoGhosts == Spec => []NoGhostClients
<1>1. TypeOK /\ LifeInv => NoGhostClients
  BY DEF TypeOK, LifeInv, LifeOK, NoGhostClients
<1> QED
  BY <1>1, HubInv, PTL

-----------------------------------------------------------------------------
(* Requests take effect in order: for each client and run the last request *)
(* on its way decides, and if there is none the hub has what is wanted.    *)
Mention(c, r) == {i \in 1 .. Len(requests) :
                    requests[i].client = c /\ r \in requests[i].runs}
HeardOK(c, r) ==
  /\ \A q \in held[c] : r \in q.runs => (r \in wanted[c] <=> ~q.unsub)
  /\ (\A q \in held[c] : r \notin q.runs) =>
       /\ \A i \in Mention(c, r) :
            (\A j \in Mention(c, r) : j <= i) => (r \in wanted[c] <=> ~requests[i].unsub)
       /\ Mention(c, r) = {} => (c \in runSubs[r] <=> r \in wanted[c])

AskOK(c) ==
  /\ held[c] # {} => reader[c] = "sending"
  /\ \A p, q \in held[c] : p = q
  /\ reader[c] = "none" => wanted[c] = {}

HeardInv ==
  /\ \A c \in Clients : AskOK(c)
  /\ \A c \in clients, r \in Runs : HeardOK(c, r)

LEMMA HeardInit == Init => HeardInv
BY DEF Init, HeardInv, AskOK

(* What a step leaves of what HeardOK is about.                            *)
LEMMA HeardKept ==
  ASSUME NEW c \in Clients, NEW r \in Runs, HeardOK(c, r), UNCHANGED requests,
         held'[c] = held[c], wanted'[c] = wanted[c],
         c \in runSubs'[r] <=> c \in runSubs[r]
  PROVE  HeardOK(c, r)'
BY DEF HeardOK, Mention

LEMMA HeardByServe ==
  ASSUME TypeOK, Serve, NEW c \in Clients, NEW r \in Runs, HeardOK(c, r)
  PROVE  HeardOK(c, r)'
<1> USE TypeParts
<1>1. PICK q \in Request :
         /\ q = requests[1] /\ Len(requests) > 0
         /\ Len(requests') = Len(requests) - 1
         /\ \A i \in 1 .. Len(requests) - 1 : requests'[i] = requests[i + 1]
         /\ q.client \in Clients /\ q.runs \subseteq Runs /\ q.unsub \in BOOLEAN
         /\ runSubs' = [x \in Runs |-> IF x \notin q.runs THEN runSubs[x]
                           ELSE IF q.unsub THEN runSubs[x] \ {q.client}
                           ELSE runSubs[x] \cup {q.client}]
  BY ServeLemma
<1>2. UNCHANGED <<held, wanted>>
  BY DEF Serve, pumps, ghost
<1>3. Len(requests) \in Nat
  BY DEF TypeQueue
<1>4. \A i \in Nat : i \in Mention(c, r)' <=> i + 1 \in Mention(c, r) /\ i > 0
  BY <1>1, <1>3 DEF Mention
<1>5. 1 \in Mention(c, r) => (c \in runSubs'[r] <=> ~q.unsub)
  BY <1>1 DEF Mention, TypeHub
<1>6. 1 \notin Mention(c, r) => (c \in runSubs'[r] <=> c \in runSubs[r])
  BY <1>1, <1>3 DEF Mention, TypeHub
<1> SUFFICES ASSUME \A p \in held[c] : r \notin p.runs
             PROVE  /\ \A i \in Mention(c, r)' : (\A j \in Mention(c, r)' : j <= i) =>
                         (r \in wanted[c] <=> ~requests'[i].unsub)
                    /\ Mention(c, r)' = {} => (c \in runSubs'[r] <=> r \in wanted[c])
  BY <1>2 DEF HeardOK
<1>7. Mention(c, r) \subseteq Nat \ {0} /\ Mention(c, r)' \subseteq Nat \ {0}
  BY <1>1, <1>3 DEF Mention
<1>8. ASSUME NEW i \in Mention(c, r)', \A j \in Mention(c, r)' : j <= i
      PROVE  r \in wanted[c] <=> ~requests'[i].unsub
  <2>1. i + 1 \in Mention(c, r) /\ requests'[i] = requests[i + 1]
    BY <1>1, <1>3, <1>4, <1>7 DEF Mention
  <2>2. ASSUME NEW j \in Mention(c, r) PROVE j <= i + 1
    <3>1. CASE j = 1
      BY <3>1, <1>7
    <3>2. CASE j # 1
      <4>1. j - 1 \in Nat /\ j - 1 > 0 /\ (j - 1) + 1 \in Mention(c, r)
        BY <1>7, <3>2
      <4>2. j - 1 \in Mention(c, r)'
        BY <1>4, <4>1
      <4> QED
        BY <1>7, <1>8, <4>1, <4>2
    <3> QED
      BY <3>1, <3>2
  <2> QED
    BY <2>1, <2>2 DEF HeardOK
<1>9. ASSUME Mention(c, r)' = {} PROVE c \in runSubs'[r] <=> r \in wanted[c]
  <2>1. ASSUME NEW j \in Mention(c, r) PROVE j = 1
    <3>1. CASE j # 1
      <4>1. j - 1 \in Nat /\ j - 1 > 0 /\ (j - 1) + 1 \in Mention(c, r)
        BY <1>7, <3>1
      <4> QED
        BY <1>4, <1>9, <4>1
    <3> QED
      BY <3>1
  <2>2. CASE 1 \in Mention(c, r)
    BY <1>1, <1>5, <2>1, <2>2 DEF HeardOK
  <2>3. CASE 1 \notin Mention(c, r)
    BY <1>6, <2>1, <2>3 DEF HeardOK
  <2> QED
    BY <2>2, <2>3
<1> QED
  BY <1>8, <1>9

LEMMA HeardBySend ==
  ASSUME TypeOK, LifeInv, HeardInv, NEW c \in Clients, SendRequest(c),
         NEW d \in Clients, NEW r \in Runs, HeardOK(d, r)
  PROVE  HeardOK(d, r)'
<1> USE TypeParts
<1>1. PICK q \in held[c] : requests' = Append(requests, q)
  BY DEF SendRequest
<1>2. q \in Request /\ q.client = c /\ \A p \in held[c] : p = q
  BY DEF TypePumps, LifeInv, Traced, HeardInv, AskOK
<1>3. /\ Len(requests') = Len(requests) + 1 /\ Len(requests) \in Nat
      /\ \A i \in 1 .. Len(requests) : requests'[i] = requests[i]
      /\ requests'[Len(requests) + 1] = q
  BY <1>1, <1>2, Appended DEF TypeQueue
<1>4. UNCHANGED <<wanted, runSubs>> /\ held' = [held EXCEPT ![c] = {}]
  BY DEF SendRequest, hub, ghost
<1>5. CASE d = c /\ r \in q.runs
  <2>1. Len(requests) + 1 \in Mention(d, r)'
    BY <1>2, <1>3, <1>5 DEF Mention
  <2>2. \A i \in Mention(d, r)' : i \in 1 .. Len(requests) + 1
    BY <1>3 DEF Mention
  <2>3. \A i \in Mention(d, r)' : Len(requests) + 1 <= i => requests'[i] = q
    BY <1>3, <2>2
  <2>4. r \in wanted[d] <=> ~q.unsub
    BY <1>5 DEF HeardOK
  <2> QED
    BY <1>4, <2>1, <2>3, <2>4 DEF HeardOK
<1>6. CASE ~(d = c /\ r \in q.runs)
  <2>1. Mention(d, r)' = Mention(d, r)
    BY <1>2, <1>3, <1>6 DEF Mention
  <2>2. \A i \in Mention(d, r) : requests'[i] = requests[i]
    BY <1>3 DEF Mention
  <2>3. d = c => \A p \in held[d] : r \notin p.runs
    BY <1>2, <1>6
  <2>4. d # c => held'[d] = held[d]
    BY <1>4 DEF TypePumps
  <2>5. d = c => held'[d] = {}
    BY <1>4 DEF TypePumps
  <2> QED
    BY <1>4, <2>1, <2>2, <2>3, <2>4, <2>5 DEF HeardOK
<1> QED
  BY <1>5, <1>6

LEMMA HeardByAsk ==
  ASSUME TypeOK, HeardInv, NEW c \in Clients, NEW rs \in SUBSET Runs,
         NEW unsub \in BOOLEAN, Ask(c, rs, unsub),
         NEW d \in Clients, NEW r \in Runs, HeardOK(d, r)
  PROVE  HeardOK(d, r)'
<1> USE TypeParts
<1>1. /\ reader[c] = "reading" /\ UNCHANGED <<requests, runSubs>>
      /\ wanted' = [wanted EXCEPT ![c] = IF unsub THEN @ \ rs ELSE @ \cup rs]
      /\ held' = [held EXCEPT ![c] = {[client |-> c, runs |-> rs, unsub |-> unsub]}]
  BY DEF Ask, hub, chans
<1>2. CASE d # c
  BY <1>1, <1>2, HeardKept DEF TypePumps, TypeGhost
<1>3. CASE d = c
  <2>1. held[c] = {} /\ held'[c] = {[client |-> c, runs |-> rs, unsub |-> unsub]}
    BY <1>1 DEF HeardInv, AskOK, TypePumps
  <2>2. r \in wanted'[c] <=> IF r \in rs THEN ~unsub ELSE r \in wanted[c]
    BY <1>1 DEF TypeGhost
  <2>3. Mention(c, r)' = Mention(c, r)
    BY <1>1 DEF Mention
  <2>4. CASE r \in rs
    BY <1>3, <2>1, <2>2, <2>4 DEF HeardOK
  <2>5. CASE r \notin rs
    BY <1>1, <1>3, <2>1, <2>2, <2>3, <2>5 DEF HeardOK
  <2> QED
    BY <2>4, <2>5
<1> QED
  BY <1>2, <1>3

LEMMA AskStep ==
  ASSUME TypeOK, HeardInv, [Next]_vars, NEW d \in Clients
  PROVE  AskOK(d)'
<1> USE TypeParts DEF HeardInv
<1>1. ASSUME NEW c \in Clients,
             Connect(c) \/ StartPumps(c) \/ Lose(c) \/ Register(c) \/ Unregister(c)
      PROVE  AskOK(d)'
  BY <1>1 DEF Connect, StartPumps, Lose, Register, Unregister, pumps, ghost, AskOK,
              TypePumps
<1>2. ASSUME NEW c \in Clients, NEW rs \in SUBSET Runs, NEW unsub \in BOOLEAN,
             Ask(c, rs, unsub)
      PROVE  AskOK(d)'
  BY <1>2 DEF Ask, AskOK, TypePumps, TypeGhost
<1>3. ASSUME NEW c \in Clients,
             SendRequest(c) \/ ReadError(c) \/ CloseRead(c) \/ Writer(c)
      PROVE  AskOK(d)'
  BY <1>3 DEF SendRequest, ReadError, AfterReadError, CloseRead, Writer, Write,
              WriteClose, Ping, ghost, AskOK, TypePumps
<1>4. CASE Serve \/ Route \/ UNCHANGED vars \/ \E r \in Runs : Publish(r)
  BY <1>4 DEF Serve, Route, Publish, vars, pumps, ghost, AskOK
<1> QED
  BY <1>1, <1>2, <1>3, <1>4 DEF Next, Hub, Reader

LEMMA HeardStep ==
  ASSUME TypeOK, LifeInv, HeardInv, [Next]_vars
  PROVE  HeardInv'
<1> USE TypeParts
<1>1. ASSUME NEW d \in clients', NEW r \in Runs PROVE HeardOK(d, r)'
  <2>1. d \in Clients
    BY TypeStep DEF TypeOK
  <2>2. CASE Serve
    BY <2>1, <2>2, HeardByServe DEF HeardInv, Serve
  <2>3. ASSUME NEW c \in Clients, SendRequest(c) PROVE HeardOK(d, r)'
    BY <2>1, <2>3, HeardBySend DEF HeardInv, SendRequest, hub
  <2>4. ASSUME NEW c \in Clients, NEW rs \in SUBSET Runs, NEW unsub \in BOOLEAN,
               Ask(c, rs, unsub)
        PROVE  HeardOK(d, r)'
    BY <2>1, <2>4, HeardByAsk DEF HeardInv, Ask, hub
  <2>5. ASSUME NEW c \in Clients, Register(c) PROVE HeardOK(d, r)'
    <3>1. /\ clients' = clients \cup {c} /\ handler[c] = "registering"
          /\ UNCHANGED <<requests, held, wanted, runSubs>>
      BY <2>5 DEF Register, chans, ghost
    <3>2. CASE d \in clients
      BY <2>1, <3>1, <3>2, HeardKept DEF HeardInv
    <3>3. CASE d = c
      <4>1. reader[c] = "none" /\ \A x \in Runs : c \notin runSubs[x]
        BY <3>1 DEF LifeInv, LifeOK
      <4>2. held[c] = {} /\ wanted[c] = {}
        BY <4>1 DEF HeardInv, AskOK
      <4>3. Mention(c, r) = {}
        BY <4>1 DEF Mention, LifeInv, Traced
      <4> QED
        BY <3>1, <3>3, <4>1, <4>2, <4>3 DEF HeardOK, Mention
    <3> QED
      BY <3>1, <3>2, <3>3
  <2>6. ASSUME NEW c \in Clients, Unregister(c) PROVE HeardOK(d, r)'
    <3>1. /\ d \in clients /\ d # c /\ UNCHANGED <<requests, held, wanted>>
          /\ d \in runSubs'[r] <=> d \in runSubs[r]
      BY <2>6 DEF Unregister, Without, ghost
    <3> QED
      BY <2>1, <3>1, HeardKept DEF HeardInv
  <2>7. ASSUME NEW c \in Clients,
               Connect(c) \/ StartPumps(c) \/ Lose(c) \/ ReadError(c) \/ CloseRead(c)
               \/ Writer(c)
        PROVE  HeardOK(d, r)'
    <3>1. UNCHANGED <<clients, runSubs, requests, held, wanted>>
      BY <2>7 DEF Connect, StartPumps, Lose, ReadError, CloseRead, Writer, Write,
                  WriteClose, Ping, hub, chans, pumps, ghost
    <3> QED
      BY <2>1, <3>1, HeardKept DEF HeardInv
  <2>8. CASE Route \/ UNCHANGED vars \/ \E x \in Runs : Publish(x)
    <3>1. UNCHANGED <<clients, runSubs, requests, held, wanted>>
      BY <2>8 DEF Route, Publish, vars, hub, chans, pumps, ghost
    <3> QED
      BY <2>1, <3>1, HeardKept DEF HeardInv
  <2> QED
    BY <2>2, <2>3, <2>4, <2>5, <2>6, <2>7, <2>8 DEF Next, Hub, Reader
<1> QED
  BY <1>1, AskStep DEF HeardInv

(* A client without requests on their way is subscribed to what it wants.  *)
THEOREM RequestsTakeEffect == Spec => []RequestsHonoured
<1>1. ASSUME TypeOK, HeardInv PROVE RequestsHonoured
  <2>1. ASSUME NEW c \in clients, ~OnTheWay(c), NEW r \in Runs
        PROVE  c \in runSubs[r] <=> r \in wanted[c]
    <3>1. held[c] = {} /\ Mention(c, r) = {}
      BY <2>1 DEF OnTheWay, Mention
    <3> QED
      BY <1>1, <3>1 DEF HeardInv, HeardOK
  <2>2. \A c \in clients : wanted[c] \subseteq Runs
    BY <1>1 DEF TypeOK
  <2> QED
    BY <2>1, <2>2 DEF RequestsHonoured
<1>2. Spec => [](TypeOK /\ LifeInv /\ HeardInv)
  BY TypeInit, TypeStep, LifeInit, LifeStep, HeardInit, HeardStep, PTL DEF Spec
<1> QED
  BY <1>1, <1>2, PTL

-----------------------------------------------------------------------------
(* The way of an event: inbox, buffer, connection.  Along it the numbers   *)
(* rise, and what waits for a client is of runs it has asked for.          *)
Rising(q)   == \A i, j \in 1 .. Len(q) : i < j => q[i] < q[j]
Below(p, q) == \A i \in 1 .. Len(p), j \in 1 .. Len(q) : p[i] < q[j]
UpTo(q, n)  == \A i \in 1 .. Len(q) : q[i] <= n

AskedFor(c) == \A i \in 1 .. Len(buffer[c]) : published[buffer[c][i]] \in named[c]
WayOK(c) ==
  /\ Rising(buffer[c]) /\ UpTo(buffer[c], Len(published))
  /\ UpTo(received[c], Len(published))
  /\ Below(received[c], buffer[c]) /\ Below(received[c], inbox)
  /\ Below(buffer[c], inbox)
  /\ AskedFor(c)

(* Whatever the hub has or will have for a client, the client has named.   *)
NamedOK ==
  /\ \A c \in Clients : \A q \in held[c] : ~q.unsub => q.runs \subseteq named[c]
  /\ \A i \in 1 .. Len(requests) : LET q == requests[i] IN
       ~q.unsub => q.runs \subseteq named[q.client]
  /\ \A c \in Clients, r \in Runs : c \in runSubs[r] => r \in named[c]

InboxOK == Rising(inbox) /\ UpTo(inbox, Len(published))
FeedInv == NamedOK /\ InboxOK /\ \A c \in Clients : WayOK(c)

LEMMA FeedInit == Init => FeedInv
BY DEF Init, FeedInv, NamedOK, InboxOK, WayOK, Rising, Below, UpTo, AskedFor

LEMMA NamedGrow ==
  ASSUME TypeOK, [Next]_vars, NEW c \in Clients
  PROVE  named[c] \subseteq named'[c]
<1> USE TypeParts
<1>1. ASSUME NEW d \in Clients, NEW rs \in SUBSET Runs, NEW unsub \in BOOLEAN,
             Ask(d, rs, unsub)
      PROVE  named[c] \subseteq named'[c]
  BY <1>1 DEF Ask, TypeGhost
<1>2. ASSUME NEW d \in Clients, Write(d) PROVE named' = named
  BY <1>2 DEF Write
<1> QED
  BY <1>1, <1>2, GhostKept DEF ghost

LEMMA NamedStep ==
  ASSUME TypeOK, LifeInv, NamedOK, [Next]_vars
  PROVE  NamedOK'
<1> USE TypeParts
<1>1. \A c \in Clients : named[c] \subseteq named'[c]
  BY NamedGrow
<1>2. \A i \in 1 .. Len(requests) : requests[i] \in Request
  BY DEF TypeQueue
<1>3. \A c \in Clients : \A q \in held'[c] : ~q.unsub => q.runs \subseteq named'[c]
  <2>1. ASSUME NEW d \in Clients, NEW rs \in SUBSET Runs, NEW unsub \in BOOLEAN,
               Ask(d, rs, unsub), NEW c \in Clients, NEW q \in held'[c], ~q.unsub
        PROVE  q.runs \subseteq named'[c]
    <3>1. CASE c = d
      BY <2>1, <3>1 DEF Ask, TypePumps, TypeGhost
    <3>2. CASE c # d
      BY <1>1, <2>1, <3>2 DEF Ask, TypePumps, NamedOK
    <3> QED
      BY <3>1, <3>2
  <2>2. ASSUME NEW d \in Clients, SendRequest(d), NEW c \in Clients
        PROVE  held'[c] \subseteq held[c]
    BY <2>2 DEF SendRequest, TypePumps
  <2>3. \/ UNCHANGED held
        \/ \E d \in Clients : SendRequest(d)
        \/ \E d \in Clients, rs \in SUBSET Runs, unsub \in BOOLEAN : Ask(d, rs, unsub)
    BY DEF Next, Hub, Serve, Register, Unregister, Route, Connect, StartPumps, Lose,
           Reader, Writer, ReadError, CloseRead, Write, WriteClose, Ping, Publish, vars,
           pumps
  <2> QED
    BY <1>1, <2>1, <2>2, <2>3 DEF NamedOK
<1>4. ASSUME NEW i \in 1 .. Len(requests'), ~requests'[i].unsub
      PROVE  requests'[i].runs \subseteq named'[requests'[i].client]
  <2>1. ASSUME NEW q \in Request, q.runs \subseteq named[q.client]
        PROVE  q.runs \subseteq named'[q.client]
    BY <1>1, <2>1 DEF Request
  <2>2. ASSUME NEW j \in 1 .. Len(requests), ~requests[j].unsub
        PROVE  requests[j].runs \subseteq named'[requests[j].client]
    BY <1>2, <2>1, <2>2 DEF NamedOK
  <2>3. CASE UNCHANGED requests
    BY <1>4, <2>2, <2>3
  <2>4. CASE Serve
    <3>1. /\ Len(requests') = Len(requests) - 1
          /\ \A j \in 1 .. Len(requests) - 1 : requests'[j] = requests[j + 1]
      BY <2>4, ServeLemma
    <3>2. Len(requests) \in Nat
      BY DEF TypeQueue
    <3>3. i + 1 \in 1 .. Len(requests) /\ requests'[i] = requests[i + 1]
      BY <3>1, <3>2
    <3> QED
      BY <1>4, <2>2, <3>3
  <2>5. ASSUME NEW c \in Clients, SendRequest(c)
        PROVE  requests'[i].runs \subseteq named'[requests'[i].client]
    <3>1. PICK q \in held[c] : requests' = Append(requests, q)
      BY <2>5 DEF SendRequest
    <3>2. q \in Request /\ q.client = c
      BY DEF TypePumps, LifeInv, Traced
    <3>3. /\ Len(requests') = Len(requests) + 1 /\ Len(requests) \in Nat
          /\ \A j \in 1 .. Len(requests) : requests'[j] = requests[j]
          /\ requests'[Len(requests) + 1] = q
      BY <3>1, <3>2, Appended DEF TypeQueue
    <3>4. CASE i \in 1 .. Len(requests)
      BY <1>4, <2>2, <3>3, <3>4
    <3>5. CASE i = Len(requests) + 1
      BY <1>4, <2>1, <3>2, <3>3, <3>5 DEF NamedOK
    <3> QED
      BY <3>3, <3>4, <3>5
  <2> QED
    BY <2>3, <2>4, <2>5, QueueKept
<1>5. ASSUME NEW c \in Clients, NEW r \in Runs, c \in runSubs'[r]
      PROVE  r \in named'[c]
  <2>1. CASE c \in runSubs[r]
    BY <1>1, <2>1 DEF NamedOK
  <2>2. CASE Serve
    <3>1. PICK q \in Request :
             /\ q = requests[1] /\ Len(requests) > 0
             /\ runSubs' = [x \in Runs |-> IF x \notin q.runs THEN runSubs[x]
                               ELSE IF q.unsub THEN runSubs[x] \ {q.client}
                               ELSE runSubs[x] \cup {q.client}]
      BY <2>2, ServeLemma
    <3>2. 1 \in 1 .. Len(requests)
      BY <3>1 DEF TypeQueue
    <3>3. CASE r \in q.runs /\ ~q.unsub /\ c = q.client
      BY <1>1, <3>1, <3>2, <3>3 DEF NamedOK
    <3>4. CASE ~(r \in q.runs /\ ~q.unsub /\ c = q.client)
      BY <1>5, <2>1, <3>1, <3>4 DEF TypeHub
    <3> QED
      BY <3>3, <3>4
  <2>3. ASSUME NEW d \in Clients, Register(d) \/ Unregister(d) PROVE c \in runSubs[r]
    BY <1>5, <2>3 DEF Register, Unregister, Without
  <2>4. CASE UNCHANGED hub
    BY <1>5, <2>1, <2>4 DEF hub
  <2> QED
    BY <2>1, <2>2, <2>3, <2>4, HubKept DEF Hub
<1> QED
  BY <1>3, <1>4, <1>5 DEF NamedOK

(* Queues of rising numbers.                                               *)
LEMMA TailLemma ==
  ASSUME NEW p \in Seq(Nat), p # <<>>, NEW q \in Seq(Nat), NEW n \in Nat
  PROVE  /\ Rising(p) => /\ Rising(Tail(p))
                         /\ \A i \in 1 .. Len(Tail(p)) : p[1] < Tail(p)[i]
         /\ UpTo(p, n) => UpTo(Tail(p), n)
         /\ Below(p, q) => Below(Tail(p), q)
         /\ Below(q, p) => Below(q, Tail(p))
<1> DEFINE t == Tail(p)
<1>1. /\ t \in Seq(Nat) /\ Len(t) = Len(p) - 1 /\ Len(p) \in Nat \ {0}
      /\ \A i \in 1 .. Len(p) - 1 : t[i] = p[i + 1]
  BY Taken
<1> HIDE DEF t
<1>2. \A i \in 1 .. Len(t) : i + 1 \in 1 .. Len(p) /\ t[i] = p[i + 1] /\ 1 < i + 1
  BY <1>1
<1>3. 1 \in 1 .. Len(p)
  BY <1>1
<1>4. ASSUME Rising(p) PROVE Rising(t) /\ \A i \in 1 .. Len(t) : p[1] < t[i]
  <2>1. \A i \in 1 .. Len(t) : p[1] < p[i + 1]
    BY <1>2, <1>3, <1>4 DEF Rising
  <2>2. ASSUME NEW i \in 1 .. Len(t), NEW j \in 1 .. Len(t), i < j
        PROVE  p[i + 1] < p[j + 1]
    <3>1. i + 1 \in 1 .. Len(p) /\ j + 1 \in 1 .. Len(p) /\ i + 1 < j + 1
      BY <1>2, <2>2
    <3> QED
      BY <1>4, <3>1 DEF Rising
  <2> QED
    BY <1>2, <2>1, <2>2 DEF Rising
<1>5. UpTo(p, n) => UpTo(t, n)
  BY <1>2 DEF UpTo
<1>6. Below(p, q) => Below(t, q)
  BY <1>2 DEF Below
<1>7. Below(q, p) => Below(q, t)
  BY <1>2 DEF Below
<1> QED
  BY <1>4, <1>5, <1>6, <1>7 DEF t

LEMMA RisingAppend ==
  ASSUME NEW p \in Seq(Nat), NEW k \in Nat, Rising(p),
         \A i \in 1 .. Len(p) : p[i] < k
  PROVE  Rising(Append(p, k))
<1> DEFINE a == Append(p, k)
<1>1. /\ Len(a) = Len(p) + 1 /\ Len(p) \in Nat
      /\ \A i \in 1 .. Len(p) : a[i] = p[i]
      /\ a[Len(p) + 1] = k
  BY Appended
<1> HIDE DEF a
<1>2. ASSUME NEW i \in 1 .. Len(a), NEW j \in 1 .. Len(a), i < j
      PROVE  a[i] < a[j]
  <2>1. i \in 1 .. Len(p) /\ a[i] = p[i]
    BY <1>1, <1>2
  <2>2. CASE j = Len(p) + 1
    BY <1>1, <2>1, <2>2
  <2>3. CASE j # Len(p) + 1
    <3>1. j \in 1 .. Len(p) /\ a[j] = p[j]
      BY <1>1, <2>3
    <3> QED
      BY <1>2, <2>1, <3>1 DEF Rising
  <2> QED
    BY <2>2, <2>3
<1> QED
  BY <1>2 DEF Rising, a

LEMMA UpToAppend ==
  ASSUME NEW p \in Seq(Nat), NEW k \in Nat, NEW n \in Nat, UpTo(p, n), k <= n
  PROVE  UpTo(Append(p, k), n)
BY Appended DEF UpTo

LEMMA AboveAppend ==
  ASSUME NEW p \in Seq(Nat), NEW k \in Nat, NEW q \in Seq(Nat), Below(q, p),
         \A i \in 1 .. Len(q) : q[i] < k
  PROVE  Below(q, Append(p, k))
<1> DEFINE a == Append(p, k)
<1>1. /\ Len(a) = Len(p) + 1 /\ Len(p) \in Nat
      /\ \A i \in 1 .. Len(p) : a[i] = p[i]
      /\ a[Len(p) + 1] = k
  BY Appended
<1> HIDE DEF a
<1>2. \A j \in 1 .. Len(a) : \/ j \in 1 .. Len(p) /\ a[j] = p[j]
                             \/ a[j] = k
  BY <1>1
<1> QED
  BY <1>2 DEF Below, a

LEMMA BelowAppend ==
  ASSUME NEW p \in Seq(Nat), NEW k \in Nat, NEW q \in Seq(Nat), Below(p, q),
         \A j \in 1 .. Len(q) : k < q[j]
  PROVE  Below(Append(p, k), q)
BY Appended DEF Below

LEMMA Numbers ==
  ASSUME TypeOK
  PROVE  /\ inbox \in Seq(Nat) /\ Len(published) \in Nat
         /\ \A c \in Clients : buffer[c] \in Seq(Nat) /\ received[c] \in Seq(Nat)
<1>1. Seq(Events) \subseteq Seq(Nat)
  BY DEF Events
<1> QED
  BY <1>1 DEF TypeOK

(* What the way of an event says before a step, in terms of the lemmas.    *)
WayOf(b, v, x, n) ==
  /\ Rising(b) /\ UpTo(b, n) /\ UpTo(v, n) /\ Below(v, b) /\ Below(v, x) /\ Below(b, x)

LEMMA WayParts ==
  ASSUME NEW c \in Clients
  PROVE  WayOK(c) <=> WayOf(buffer[c], received[c], inbox, Len(published)) /\ AskedFor(c)
BY DEF WayOK, WayOf

LEMMA WayPartsNext ==
  ASSUME NEW c \in Clients
  PROVE  WayOK(c)' <=> /\ WayOf(buffer'[c], received'[c], inbox', Len(published'))
                       /\ AskedFor(c)'
BY DEF WayOK, WayOf, Rising, UpTo, Below

LEMMA InboxNext ==
  InboxOK' <=> Rising(inbox') /\ UpTo(inbox', Len(published'))
BY DEF InboxOK, Rising, UpTo

LEMMA UpToLess ==
  ASSUME NEW q \in Seq(Nat), NEW n \in Nat, UpTo(q, n)
  PROVE  UpTo(q, n + 1) /\ \A i \in 1 .. Len(q) : q[i] < n + 1
BY DEF UpTo

LEMMA WayByPublish ==
  ASSUME TypeOK, FeedInv, NEW r \in Runs, Publish(r)
  PROVE  InboxOK' /\ \A c \in Clients : WayOK(c)'
<1> DEFINE n == Len(published)
<1>1. /\ published' = Append(published, r) /\ UNCHANGED <<buffer, received, named>>
      /\ inbox' = Append(inbox, n + 1) \/ inbox' = inbox
  BY DEF Publish, chans, ghost
<1>2. n \in Nat /\ Len(published') = n + 1 /\ \A i \in 1 .. n : published'[i] = published[i]
  BY <1>1, Appended DEF TypeOK
<1> HIDE DEF n
<1>3. inbox \in Seq(Nat)
  BY Numbers
<1>4. Rising(inbox) /\ UpTo(inbox, n)
  BY DEF FeedInv, InboxOK, n
<1>5. InboxOK'
  <2>1. UpTo(inbox, n + 1) /\ \A i \in 1 .. Len(inbox) : inbox[i] < n + 1
    BY <1>2, <1>3, <1>4, UpToLess
  <2>2. n + 1 \in Nat /\ n + 1 <= n + 1
    BY <1>2
  <2>3. UpTo(Append(inbox, n + 1), n + 1) /\ Rising(Append(inbox, n + 1))
    BY <1>3, <1>4, <2>1, <2>2, RisingAppend, UpToAppend
  <2> QED
    BY <1>1, <1>2, <1>4, <2>1, <2>3, InboxNext
<1>6. ASSUME NEW c \in Clients PROVE WayOK(c)'
  <2> DEFINE b == buffer[c]  v == received[c]
  <2>1. b \in Seq(Nat) /\ v \in Seq(Nat)
    BY Numbers
  <2>2. WayOf(b, v, inbox, n) /\ AskedFor(c)
    BY WayParts DEF FeedInv, n
  <2>3. buffer'[c] = b /\ received'[c] = v
    BY <1>1
  <2>4. AskedFor(c)'
    <3>1. \A i \in 1 .. Len(b) : b[i] \in 1 .. n
      BY <2>1, <2>2 DEF WayOf, UpTo, TypeOK, Events
    <3> QED
      BY <1>1, <1>2, <2>2, <3>1 DEF AskedFor
  <2> HIDE DEF b, v
  <2>5. /\ UpTo(b, n + 1) /\ \A i \in 1 .. Len(b) : b[i] < n + 1
        /\ UpTo(v, n + 1) /\ \A i \in 1 .. Len(v) : v[i] < n + 1
    BY <1>2, <2>1, <2>2, UpToLess DEF WayOf
  <2>6. Below(v, inbox') /\ Below(b, inbox')
    <3>1. CASE inbox' = inbox
      BY <2>2, <3>1 DEF WayOf
    <3>2. CASE inbox' = Append(inbox, n + 1)
      <4>1. n + 1 \in Nat /\ Below(v, inbox) /\ Below(b, inbox)
        BY <1>2, <2>2 DEF WayOf
      <4> QED
        BY <1>3, <2>1, <2>5, <3>2, <4>1, AboveAppend
    <3> QED
      BY <1>1, <3>1, <3>2
  <2>7. WayOf(b, v, inbox', n + 1)
    BY <2>2, <2>5, <2>6 DEF WayOf
  <2> QED
    BY <1>2, <2>3, <2>4, <2>7, WayPartsNext
<1> QED
  BY <1>5, <1>6

LEMMA WayByRoute ==
  ASSUME TypeOK, FeedInv, Route
  PROVE  InboxOK' /\ \A c \in Clients : WayOK(c)'
<1> DEFINE k == inbox[1]  n == Len(published)
<1>1. inbox \in Seq(Nat) /\ inbox # <<>> /\ n \in Nat
  BY Numbers DEF Route
<1>2. Head(inbox) = k /\ k \in Nat /\ 1 \in 1 .. Len(inbox)
  BY <1>1, Taken
<1>3. /\ UNCHANGED <<published, received, named>> /\ inbox' = Tail(inbox)
      /\ \/ buffer' = [c \in Clients |->
               IF c \in Subscribers(published[k]) /\ Room(c) THEN Append(buffer[c], k)
               ELSE buffer[c]]
         \/ UNCHANGED buffer
  BY <1>2 DEF Route, Put, ghost
<1>4. Rising(inbox) /\ UpTo(inbox, n)
  BY DEF FeedInv, InboxOK
<1>5. k \in 1 .. n /\ published[k] \in Runs
  <2>1. k \in Events /\ k <= n
    BY <1>1, <1>2, <1>4, Taken DEF UpTo, TypeOK
  <2> QED
    BY <1>1, <2>1 DEF Events, TypeOK
<1>6. Tail(inbox) \in Seq(Nat)
  BY <1>1, Taken
<1>7. /\ Rising(inbox') /\ UpTo(inbox', n)
      /\ \A i \in 1 .. Len(inbox') : k < inbox'[i]
  BY <1>1, <1>3, <1>4, TailLemma
<1>8. ASSUME NEW c \in Clients PROVE WayOK(c)'
  <2> DEFINE b == buffer[c]  v == received[c]
  <2>1. b \in Seq(Nat) /\ v \in Seq(Nat)
    BY Numbers
  <2>2. WayOf(b, v, inbox, n) /\ AskedFor(c)
    BY WayParts DEF FeedInv
  <2>3. received'[c] = v /\ published' = published /\ named' = named
    BY <1>3
  <2>4. Below(v, inbox') /\ Below(b, inbox')
    BY <1>1, <1>3, <2>1, <2>2, TailLemma DEF WayOf
  <2>5. CASE buffer'[c] = b
    <3>1. AskedFor(c)'
      BY <2>2, <2>3, <2>5 DEF AskedFor
    <3>2. WayOf(b, v, inbox', n)
      BY <2>2, <2>4 DEF WayOf
    <3> QED
      BY <2>3, <2>5, <3>1, <3>2, WayPartsNext
  <2>6. CASE buffer'[c] = Append(b, k) /\ c \in runSubs[published[k]]
    <3>1. published[k] \in named[c]
      BY <1>5, <2>6 DEF FeedInv, NamedOK
    <3>2. AskedFor(c)'
      <4>1. /\ Len(buffer'[c]) = Len(b) + 1 /\ buffer'[c][Len(b) + 1] = k
            /\ Len(b) \in Nat /\ \A i \in 1 .. Len(b) : buffer'[c][i] = b[i]
        BY <1>2, <2>1, <2>6, Appended
      <4>2. ASSUME NEW i \in 1 .. Len(buffer'[c])
            PROVE  published[buffer'[c][i]] \in named[c]
        <5>1. CASE i = Len(b) + 1
          BY <3>1, <4>1, <5>1
        <5>2. CASE i # Len(b) + 1
          <6>1. i \in 1 .. Len(b) /\ buffer'[c][i] = b[i]
            BY <4>1, <5>2
          <6> QED
            BY <2>2, <6>1 DEF AskedFor
        <5> QED
          BY <5>1, <5>2
      <4> QED
        BY <2>3, <4>2 DEF AskedFor
    <3>3. /\ \A i \in 1 .. Len(b) : b[i] < k
          /\ \A i \in 1 .. Len(v) : v[i] < k
      BY <1>2, <2>2 DEF WayOf, Below
    <3> HIDE DEF b, v, k
    <3>4. Rising(Append(b, k)) /\ UpTo(Append(b, k), n) /\ Below(v, Append(b, k))
      <4>1. Rising(b) /\ UpTo(b, n) /\ Below(v, b) /\ k <= n
        BY <1>1, <1>5, <2>2 DEF WayOf
      <4> QED
        BY <1>1, <1>2, <2>1, <3>3, <4>1, RisingAppend, UpToAppend, AboveAppend
    <3>5. Below(Append(b, k), inbox')
      BY <1>2, <1>3, <1>6, <1>7, <2>1, <2>4, BelowAppend
    <3>6. WayOf(Append(b, k), v, inbox', n)
      BY <2>2, <2>4, <3>4, <3>5 DEF WayOf
    <3> QED
      BY <2>3, <2>6, <3>2, <3>6, WayPartsNext
  <2> QED
    BY <1>3, <1>8, <2>5, <2>6 DEF Subscribers
<1> QED
  BY <1>3, <1>7, <1>8, InboxNext

(* A write takes the head of the buffer, perhaps to the client.            *)
LEMMA WriteLemma ==
  ASSUME TypeOK, NEW c \in Clients, Write(c)
  PROVE  /\ UNCHANGED <<published, inbox, named>> /\ buffer[c] # <<>>
         /\ \A d \in Clients : d # c =>
              buffer'[d] = buffer[d] /\ received'[d] = received[d]
         /\ buffer'[c] = Tail(buffer[c])
         /\ \/ UNCHANGED received
            \/ /\ received' = [received EXCEPT ![c] = Append(@, buffer[c][1])]
               /\ received'[c] = Append(received[c], buffer[c][1])
<1>1. buffer[c] # <<>> /\ Head(buffer[c]) = buffer[c][1]
  BY Taken DEF Write, TypeOK
<1>2. /\ UNCHANGED <<published, inbox, named>>
      /\ buffer' = [buffer EXCEPT ![c] = Tail(@)]
      /\ \/ received' = [received EXCEPT ![c] = Append(@, buffer[c][1])]
         \/ UNCHANGED received
  BY <1>1 DEF Write, redis
<1> QED
  BY <1>1, <1>2 DEF TypeOK

LEMMA WayByWrite ==
  ASSUME TypeOK, FeedInv, NEW c \in Clients, Write(c)
  PROVE  InboxOK' /\ \A d \in Clients : WayOK(d)'
<1>1. UNCHANGED <<published, inbox, named>>
  BY WriteLemma
<1>2. InboxOK'
  BY <1>1, InboxNext DEF FeedInv, InboxOK
<1>3. ASSUME NEW d \in Clients, d # c PROVE WayOK(d)'
  <2>1. buffer'[d] = buffer[d] /\ received'[d] = received[d]
    BY <1>3, WriteLemma
  <2>2. WayOf(buffer[d], received[d], inbox, Len(published)) /\ AskedFor(d)
    BY WayParts DEF FeedInv
  <2>3. AskedFor(d)'
    BY <1>1, <2>1, <2>2 DEF AskedFor
  <2> QED
    BY <1>1, <2>1, <2>2, <2>3, WayPartsNext
<1>4. WayOK(c)'
  <2> DEFINE b == buffer[c]  v == received[c]  n == Len(published)
  <2>1. /\ b \in Seq(Nat) /\ v \in Seq(Nat) /\ b # <<>> /\ n \in Nat
        /\ inbox \in Seq(Nat) /\ buffer'[c] = Tail(b)
        /\ received'[c] = v \/ received'[c] = Append(v, b[1])
    BY Numbers, WriteLemma
  <2>2. WayOf(b, v, inbox, n) /\ AskedFor(c)
    BY WayParts DEF FeedInv
  <2>3. /\ b[1] \in Nat /\ 1 \in 1 .. Len(b) /\ Tail(b) \in Seq(Nat)
        /\ Len(b) \in Nat /\ Len(Tail(b)) = Len(b) - 1
        /\ \A i \in 1 .. Len(b) - 1 : Tail(b)[i] = b[i + 1]
    BY <2>1, Taken
  <2>4. AskedFor(c)'
    <3>1. ASSUME NEW i \in 1 .. Len(Tail(b))
          PROVE  published[Tail(b)[i]] \in named[c]
      <4>1. i + 1 \in 1 .. Len(b) /\ Tail(b)[i] = b[i + 1]
        BY <2>3
      <4> QED
        BY <2>2, <4>1 DEF AskedFor
    <3> QED
      BY <1>1, <2>1, <3>1 DEF AskedFor
  <2> HIDE DEF b, v, n
  <2>5. /\ Rising(Tail(b)) /\ UpTo(Tail(b), n) /\ Below(v, Tail(b)) /\ Below(Tail(b), inbox)
        /\ \A i \in 1 .. Len(Tail(b)) : b[1] < Tail(b)[i]
    BY <2>1, <2>2, TailLemma DEF WayOf
  <2>6. /\ b[1] <= n /\ \A j \in 1 .. Len(inbox) : b[1] < inbox[j]
    BY <2>2, <2>3 DEF WayOf, UpTo, Below
  <2>7. /\ UpTo(Append(v, b[1]), n) /\ Below(Append(v, b[1]), Tail(b))
        /\ Below(Append(v, b[1]), inbox)
    <3>1. UpTo(v, n) /\ Below(v, inbox)
      BY <2>2 DEF WayOf
    <3> QED
      BY <2>1, <2>3, <2>5, <2>6, <3>1, UpToAppend, BelowAppend
  <2>8. WayOf(Tail(b), received'[c], inbox, n)
    BY <2>1, <2>2, <2>5, <2>7 DEF WayOf
  <2> QED
    BY <1>1, <2>1, <2>4, <2>8, WayPartsNext DEF n
<1> QED
  BY <1>2, <1>3, <1>4

LEMMA FeedStep ==
  ASSUME TypeOK, LifeInv, FeedInv, [Next]_vars
  PROVE  FeedInv'
<1>1. NamedOK'
  BY NamedStep DEF FeedInv
<1>2. CASE UNCHANGED <<published, inbox, buffer, received>>
  BY <1>2, <1>1, NamedGrow DEF FeedInv, InboxOK, WayOK, Rising, UpTo, Below, AskedFor
<1>3. \/ UNCHANGED <<published, inbox, buffer, received>>
      \/ Route \/ (\E r \in Runs : Publish(r)) \/ \E c \in Clients : Write(c)
  BY DEF Next, Hub, Serve, Register, Unregister, Connect, StartPumps, Lose, Reader,
         Writer, SendRequest, ReadError, CloseRead, Ask, WriteClose, Ping, vars, chans,
         redis, ghost
<1> QED
  BY <1>1, <1>2, <1>3, WayByRoute, WayByPublish, WayByWrite DEF FeedInv

-----------------------------------------------------------------------------
(* The hub implements the feed: every step is one of ClientFeed's or none. *)
LEMMA FeedMaps ==
  ASSUME TypeOK, FeedInv, [Next]_vars
  PROVE  [Feed!Next]_(Feed!vars)
<1> USE TypeParts
<1>1. ASSUME NEW r \in Runs, Publish(r) PROVE Feed!Next
  BY <1>1 DEF Publish, ghost, Feed!Next, Feed!Publish
<1>2. ASSUME NEW c \in Clients, NEW rs \in SUBSET Runs, NEW unsub \in BOOLEAN,
             Ask(c, rs, unsub)
      PROVE  [Feed!Next]_(Feed!vars)
  <2>1. UNCHANGED <<published, received>>
    BY <1>2 DEF Ask, redis
  <2>2. named' = [named EXCEPT ![c] = IF unsub THEN @ ELSE @ \cup rs]
    BY <1>2 DEF Ask
  <2>3. CASE unsub
    BY <2>1, <2>2, <2>3 DEF Feed!vars, TypeGhost
  <2>4. CASE ~unsub
    BY <2>1, <2>2, <2>4 DEF Feed!Next, Feed!Subscribe
  <2> QED
    BY <2>3, <2>4
<1>3. ASSUME NEW c \in Clients, Write(c) PROVE [Feed!Next]_(Feed!vars)
  <2>1. UNCHANGED <<published, named>> /\ 1 \in 1 .. Len(buffer[c])
    BY <1>3, WriteLemma DEF TypeBuffers
  <2>2. CASE UNCHANGED received
    BY <2>1, <2>2 DEF Feed!vars
  <2>3. CASE received' = [received EXCEPT ![c] = Append(@, buffer[c][1])]
    <3>1. buffer[c][1] \in 1 .. Len(published) /\ published[buffer[c][1]] \in named[c]
      BY <2>1 DEF FeedInv, WayOK, UpTo, AskedFor, TypeBuffers, Events
    <3>2. buffer[c][1] \in Feed!Ahead(c)
      BY <2>1, <3>1 DEF FeedInv, WayOK, Below, Feed!Ahead
    <3> QED
      BY <2>1, <2>3, <3>1, <3>2 DEF Feed!Next, Feed!Deliver
  <2> QED
    BY <1>3, <2>2, <2>3, WriteLemma
<1>4. \/ UNCHANGED <<published, named, received>>
      \/ \E r \in Runs : Publish(r)
      \/ \E c \in Clients : Write(c)
      \/ \E c \in Clients, rs \in SUBSET Runs, unsub \in BOOLEAN : Ask(c, rs, unsub)
  BY DEF Next, Hub, Serve, Register, Unregister, Route, Connect, StartPumps, Lose,
         Reader, Writer, SendRequest, ReadError, CloseRead, WriteClose, Ping, vars,
         redis, ghost
<1>5. UNCHANGED <<published, named, received>> => UNCHANGED Feed!vars
  BY DEF Feed!vars
<1> QED
  BY <1>1, <1>2, <1>3, <1>4, <1>5

(* What a client receives is what ClientFeed promises, for any number of   *)
(* clients, runs and events and any capacities.                            *)
THEOREM HubImplementsFeed == Spec => FeedSpec
<1>1. Init => Feed!Init
  BY DEF Init, Feed!Init
<1>2. Spec => [](TypeOK /\ LifeInv /\ FeedInv)
  BY TypeInit, TypeStep, LifeInit, LifeStep, FeedInit, FeedStep, PTL DEF Spec
<1> QED
  BY <1>1, <1>2, FeedMaps, PTL DEF Spec, FeedSpec, Feed!Spec
=============================================================================
