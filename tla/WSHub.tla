------------------------------- MODULE WSHub -------------------------------
(***************************************************************************)
(* The WebSocket hub of one FlowForge server: it carries the events that   *)
(* workers publish in Redis to the browsers that asked for them.           *)
(*                                                                         *)
(*   handler.WSHandler   Handle                    internal/handler/ws.go  *)
(*   ws.PublishEvent                             internal/ws/publisher.go  *)
(*   ws.Hub              Run, listenRedis                internal/ws/hub.go  *)
(*   ws.Client           ReadPump, WritePump             internal/ws/hub.go  *)
(*                                                                         *)
(* One goroutine runs the hub, one listens to Redis, and each connection   *)
(* has a reader and a writer; they meet in channels.  The hub holds h.mu   *)
(* for a whole case of its select, the listener for a whole fan-out.       *)
(***************************************************************************)
EXTENDS Integers, Sequences, FiniteSets

CONSTANTS
  Clients,      \* connections
  Runs,         \* run ids a client may name
  RequestCap,   \* capacity of Hub.subscribe (64 in the code)
  SendCap,      \* capacity of Client.send (256 in the code)
  MaxRequests,  \* bound: requests one client makes
  MaxEvents     \* bound: events published

ASSUME CapAssumption   == RequestCap \in Nat \ {0} /\ SendCap \in Nat \ {0}
ASSUME BoundAssumption == MaxRequests \in Nat /\ MaxEvents \in Nat

VARIABLES
  (* the hub, guarded by h.mu *)
  clients,      \* Hub.clients
  runSubs,      \* Hub.runSubs; a run without an entry has no subscribers
  subs,         \* Client.subs, of every connection
  gauge,        \* metrics.WSConnectionsActive
  (* channels *)
  requests,     \* Hub.subscribe
  buffer,       \* Client.send: event numbers
  shut,         \* Client.send is closed
  (* goroutines: WSHandler.Handle, ReadPump and what it holds, WritePump   *)
  handler, reader, held, writer,
  conn,         \* the connection, as this server can tell
  (* Redis *)
  published,    \* the run of each event published so far
  inbox,        \* events this server's subscription has still to handle
  alive,        \* the process runs: no goroutine has panicked
  (* observations *)
  asked,        \* requests a client has made
  wanted,       \* runs a client wants, by its last request for each
  named,        \* runs a client has ever subscribed to
  received      \* events written to the connection

hub   == <<clients, runSubs, subs, gauge>>
chans == <<requests, buffer, shut>>
pumps == <<handler, reader, held, writer>>
redis == <<published, inbox>>
ghost == <<asked, wanted, named, received>>
vars  == <<hub, chans, pumps, conn, redis, alive, ghost>>

Events  == 1 .. MaxEvents
Request == [client : Clients, runs : SUBSET Runs, unsub : BOOLEAN]

TypeOK ==
  /\ clients \subseteq Clients
  /\ runSubs \in [Runs -> SUBSET Clients]
  /\ subs \in [Clients -> SUBSET Runs]
  /\ gauge \in Int
  /\ requests \in Seq(Request) /\ Len(requests) <= RequestCap
  /\ buffer \in [Clients -> Seq(Events)]
  /\ \A c \in Clients : Len(buffer[c]) <= SendCap
  /\ shut \in [Clients -> BOOLEAN]
  /\ handler \in [Clients -> {"none", "registering", "done"}]
  /\ reader \in [Clients -> {"none", "reading", "sending", "leaving", "closing", "done"}]
  /\ held \in [Clients -> SUBSET Request]
  /\ writer \in [Clients -> {"none", "writing", "done"}]
  /\ conn \in [Clients -> {"none", "open", "lost", "closed"}]
  /\ published \in Seq(Runs) /\ Len(published) <= MaxEvents
  /\ inbox \in Seq(Events)
  /\ alive \in BOOLEAN
  /\ asked \in [Clients -> 0 .. MaxRequests]
  /\ wanted \in [Clients -> SUBSET Runs]
  /\ named \in [Clients -> SUBSET Runs]
  /\ received \in [Clients -> Seq(Events)]

Init ==
  /\ clients = {} /\ gauge = 0
  /\ runSubs = [r \in Runs |-> {}]
  /\ subs = [c \in Clients |-> {}]
  /\ requests = <<>>
  /\ buffer = [c \in Clients |-> <<>>]
  /\ shut = [c \in Clients |-> FALSE]
  /\ handler = [c \in Clients |-> "none"]
  /\ reader = [c \in Clients |-> "none"]
  /\ held = [c \in Clients |-> {}]
  /\ writer = [c \in Clients |-> "none"]
  /\ conn = [c \in Clients |-> "none"]
  /\ published = <<>> /\ inbox = <<>>
  /\ alive = TRUE
  /\ asked = [c \in Clients |-> 0]
  /\ wanted = [c \in Clients |-> {}]
  /\ named = [c \in Clients |-> {}]
  /\ received = [c \in Clients |-> <<>>]

-----------------------------------------------------------------------------
(* Decisions, each after the mutants that change it as a slip might.       *)

StartsAtOnce(c) == handler[c] # "none"  \* pumps started before Register
MayStart(c)     == handler[c] = "done"

JustEnds == "done"                      \* no deferred unregister
AfterReadError == "leaving"

(* Remove c from a set of subscribers, not the whole entry of the run.     *)
DropEntry(S, c) == {}
Without(S, c)   == S \ {c}

(* Which request the hub takes, and what is left: a channel is a queue.    *)
LatestFirst(q) == <<q[Len(q)], SubSeq(q, 1, Len(q) - 1)>>
TakeFrom(q)    == <<Head(q), Tail(q)>>

(* A send finds room in a buffer or gives up; the slip waits for room.     *)
RoomForOneMore(c) == Len(buffer[c]) <= SendCap
Room(c)           == Len(buffer[c]) < SendCap

(* Who gets an event; the slip fans it out to every client.                *)
Everyone(r)    == clients
Subscribers(r) == runSubs[r]

WaitsForRoom(S) == \A c \in S : Room(c)
MayRoute(S)     == TRUE

(* A message put in a buffer; the slip puts it before those waiting.       *)
PutFirst(q, k) == <<k>> \o q
Put(q, k)      == Append(q, k)

-----------------------------------------------------------------------------
(* WSHandler.Handle upgrades the connection and hands the client to the    *)
(* hub; when the hub has taken it, both pumps are started.                 *)
Connect(c) ==
  /\ handler[c] = "none"
  /\ handler' = [handler EXCEPT ![c] = "registering"]
  /\ conn' = [conn EXCEPT ![c] = "open"]
  /\ UNCHANGED <<hub, chans, reader, held, writer, redis, alive, ghost>>

Register(c) ==
  /\ handler[c] = "registering"
  /\ handler' = [handler EXCEPT ![c] = "done"]
  /\ clients' = clients \cup {c}
  /\ gauge' = gauge + 1
  /\ UNCHANGED <<runSubs, subs, chans, reader, held, writer, conn, redis, alive, ghost>>

StartPumps(c) ==
  /\ MayStart(c) /\ reader[c] = "none"
  /\ reader' = [reader EXCEPT ![c] = "reading"]
  /\ writer' = [writer EXCEPT ![c] = "writing"]
  /\ UNCHANGED <<hub, chans, handler, held, conn, redis, alive, ghost>>

(* The peer goes away, stays silent past the deadline, or sends too much.  *)
Lose(c) ==
  /\ conn[c] = "open"
  /\ conn' = [conn EXCEPT ![c] = "lost"]
  /\ UNCHANGED <<hub, chans, pumps, redis, alive, ghost>>

-----------------------------------------------------------------------------
(* ReadPump: read a request, pass it to the hub, read the next.  An error  *)
(* ends the loop; the deferred calls unregister and close.                 *)
Ask(c, rs, unsub) ==
  /\ reader[c] = "reading" /\ conn[c] = "open"
  /\ asked[c] < MaxRequests
  /\ asked' = [asked EXCEPT ![c] = @ + 1]
  /\ wanted' = [wanted EXCEPT ![c] = IF unsub THEN @ \ rs ELSE @ \cup rs]
  /\ named' = [named EXCEPT ![c] = IF unsub THEN @ ELSE @ \cup rs]
  /\ held' = [held EXCEPT ![c] = {[client |-> c, runs |-> rs, unsub |-> unsub]}]
  /\ reader' = [reader EXCEPT ![c] = "sending"]
  /\ UNCHANGED <<hub, chans, handler, writer, conn, redis, alive, received>>

SendRequest(c) ==
  /\ reader[c] = "sending" /\ Len(requests) < RequestCap
  /\ \E m \in held[c] : requests' = Append(requests, m)
  /\ held' = [held EXCEPT ![c] = {}]
  /\ reader' = [reader EXCEPT ![c] = "reading"]
  /\ UNCHANGED <<hub, buffer, shut, handler, writer, conn, redis, alive, ghost>>

ReadError(c) ==
  /\ reader[c] = "reading" /\ conn[c] # "open"
  /\ reader' = [reader EXCEPT ![c] = AfterReadError]
  /\ UNCHANGED <<hub, chans, handler, held, writer, conn, redis, alive, ghost>>

CloseRead(c) ==
  /\ reader[c] = "closing"
  /\ reader' = [reader EXCEPT ![c] = "done"]
  /\ conn' = [conn EXCEPT ![c] = "closed"]
  /\ UNCHANGED <<hub, chans, handler, held, writer, redis, alive, ghost>>

-----------------------------------------------------------------------------
(* Hub.Run.  Its select takes any case that is ready: an unregister may    *)
(* overtake the requests the same client still has in the channel.         *)
Unregister(c) ==
  /\ reader[c] = "leaving"
  /\ reader' = [reader EXCEPT ![c] = "closing"]
  /\ gauge' = gauge - 1
  /\ clients' = clients \ {c}
  /\ shut' = [shut EXCEPT ![c] = @ \/ c \in clients]
  /\ runSubs' = [r \in Runs |-> IF c \in clients /\ r \in subs[c]
                               THEN Without(runSubs[r], c) ELSE runSubs[r]]
  /\ UNCHANGED <<subs, requests, buffer, handler, held, writer, conn, redis, alive, ghost>>

Serve ==
  /\ requests # <<>>
  /\ requests' = TakeFrom(requests)[2]
  /\ LET m == TakeFrom(requests)[1] IN
       /\ runSubs' = [r \in Runs |->
            IF r \notin m.runs THEN runSubs[r]
            ELSE IF m.unsub THEN Without(runSubs[r], m.client)
            ELSE runSubs[r] \cup {m.client}]
       /\ subs' = [subs EXCEPT ![m.client] =
            IF m.unsub THEN @ \ m.runs ELSE @ \cup m.runs]
  /\ UNCHANGED <<clients, gauge, buffer, shut, pumps, conn, redis, alive, ghost>>

-----------------------------------------------------------------------------
(* Redis pub/sub: an event reaches the listener, in order, or is lost.     *)
Publish(r) ==
  /\ Len(published) < MaxEvents
  /\ published' = Append(published, r)
  /\ \/ inbox' = Append(inbox, Len(published) + 1)
     \/ UNCHANGED inbox
  /\ UNCHANGED <<hub, chans, pumps, conn, alive, ghost>>

(* listenRedis: each subscriber gets the event unless its buffer is full;  *)
(* a send on a closed channel panics, and the process dies.                *)
Route ==
  /\ inbox # <<>>
  /\ LET k == Head(inbox)
         S == Subscribers(published[k]) IN
       /\ MayRoute(S)
       /\ \/ /\ \A c \in S : ~shut[c]
             /\ buffer' = [c \in Clients |->
                  IF c \in S /\ Room(c) THEN Put(buffer[c], k)
                  ELSE buffer[c]]
             /\ UNCHANGED alive
          \/ /\ \E c \in S : shut[c]
             /\ alive' = FALSE
             /\ UNCHANGED buffer
  /\ inbox' = Tail(inbox)
  /\ UNCHANGED <<hub, requests, shut, pumps, conn, published, ghost>>

-----------------------------------------------------------------------------
(* WritePump: pass the buffer on; an error, or the closed channel once it  *)
(* is empty, ends it, and the connection is closed.                        *)
EndWriter(c) ==
  /\ writer' = [writer EXCEPT ![c] = "done"]
  /\ conn' = [conn EXCEPT ![c] = "closed"]

Write(c) ==
  /\ writer[c] = "writing" /\ buffer[c] # <<>>
  /\ buffer' = [buffer EXCEPT ![c] = Tail(@)]
  /\ \/ /\ conn[c] = "open"
        /\ received' = [received EXCEPT ![c] = Append(@, Head(buffer[c]))]
        /\ UNCHANGED <<writer, conn>>
     \/ conn[c] = "lost" /\ UNCHANGED <<received, writer, conn>>
     \/ EndWriter(c) /\ UNCHANGED received
  /\ UNCHANGED <<hub, requests, shut, handler, reader, held, redis, alive, asked, wanted, named>>

WriteClose(c) ==
  /\ writer[c] = "writing" /\ buffer[c] = <<>> /\ shut[c]
  /\ EndWriter(c)
  /\ UNCHANGED <<hub, chans, handler, reader, held, redis, alive, ghost>>

Ping(c) ==
  /\ writer[c] = "writing" /\ conn[c] # "open"
  /\ EndWriter(c)
  /\ UNCHANGED <<hub, chans, handler, reader, held, redis, alive, ghost>>

-----------------------------------------------------------------------------
Reader(c) ==
  \/ SendRequest(c) \/ ReadError(c) \/ CloseRead(c)
  \/ \E rs \in SUBSET Runs \ {{}}, unsub \in BOOLEAN : Ask(c, rs, unsub)
Writer(c) == Write(c) \/ WriteClose(c) \/ Ping(c)
Hub       == Serve \/ \E c \in Clients : Register(c) \/ Unregister(c)

Next ==
  /\ alive
  /\ \/ Hub \/ Route
     \/ \E c \in Clients :
          Connect(c) \/ StartPumps(c) \/ Lose(c) \/ Reader(c) \/ Writer(c)
     \/ \E r \in Runs : Publish(r)

Spec == Init /\ [][Next]_vars

(* Goroutines are scheduled, and select takes a case that stays ready.     *)
(* Nothing makes a peer connect, ask or go away; writers (Writing) are     *)
(* assumed to make progress only where a property says so.                 *)
Listening == WF_vars(alive /\ Route)
Serving ==
  /\ WF_vars(alive /\ Serve)
  /\ \A c \in Clients :
       /\ WF_vars(alive /\ Register(c)) /\ WF_vars(alive /\ Unregister(c))
       /\ WF_vars(alive /\ StartPumps(c))
       /\ WF_vars(alive /\ (SendRequest(c) \/ ReadError(c) \/ CloseRead(c)))
Writing == \A c \in Clients : WF_vars(alive /\ Writer(c))

FairSpec == Spec /\ Listening /\ Serving      \* writers may stall

-----------------------------------------------------------------------------
(* Properties.                                                             *)

(* The two directions of the subscription map agree: a registered client   *)
(* is among the subscribers of exactly the runs its own set names, so that *)
(* unregistering it finds all of them (Hub.Run, both cases).               *)
MapsAgree ==
  \A c \in clients, r \in Runs : c \in runSubs[r] <=> r \in subs[c]

(* Requests take effect in the order they were made: when none is on its   *)
(* way, a registered client is subscribed to what it wants - whatever the  *)
(* other clients ask for and whoever leaves.                               *)
OnTheWay(c) == held[c] # {} \/ \E i \in 1 .. Len(requests) : requests[i].client = c
RequestsHonoured ==
  \A c \in clients : ~OnTheWay(c) => {r \in Runs : c \in runSubs[r]} = wanted[c]

(* What a client receives is what ClientFeed promises: events of runs it   *)
(* asked for, in the order of publication, each at most once - through     *)
(* requests in flight, full buffers, lost events and closing connections   *)
(* (Hub.listenRedis, ReadPump and WritePump together).                     *)
Feed     == INSTANCE ClientFeed
FeedSpec == Feed!Spec

(* The gauge counts the registered clients, and a connection whose reader  *)
(* has ended is not one of them: Register precedes the pumps (Handle).     *)
NoGhostClients ==
  /\ gauge = Cardinality(clients)
  /\ \A c \in clients : reader[c] \notin {"closing", "done"}

(* A connection that is gone leaves nothing behind: if writers go on (they *)
(* have a write deadline), both its goroutines end and the hub forgets it, *)
(* unless the process dies.                                                *)
ConnectionsEnd == Writing =>
  \A c \in Clients : conn[c] \in {"lost", "closed"} ~>
    ~alive \/ (reader[c] = "done" /\ writer[c] = "done" /\ c \notin clients)

(* A slow or stalled peer delays nobody: every event that reaches the      *)
(* server is handled, even if no writer ever takes a step.                 *)
EventsHandled == \A k \in Events :
  (\E i \in 1 .. Len(inbox) : inbox[i] = k) ~>
    ~alive \/ ~ \E i \in 1 .. Len(inbox) : inbox[i] = k

(* A client that left is removed "from all subscriptions" (hub.go).        *)
RemovedFromAll == \A c \in Clients, r \in Runs : shut[c] => c \notin runSubs[r]
=============================================================================
