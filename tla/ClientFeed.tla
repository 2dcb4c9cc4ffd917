----------------------------- MODULE ClientFeed -----------------------------
(***************************************************************************)
(* What the WebSocket API promises a client: events of runs the client has *)
(* asked for, each at most once and in the order of their publication.     *)
(* Any of them may be missing - there is no replay, no acknowledgement and *)
(* a bounded buffer - and events of a run it asked to leave may still come.*)
(*                                                                         *)
(* WSHub implements this promise (internal/ws/hub.go).                     *)
(***************************************************************************)
EXTENDS Integers, Sequences

CONSTANTS Clients, Runs

VARIABLES
  published,   \* the run of each event, in order
  named,       \* runs a client has ever asked for
  received     \* numbers of the events a client has received, in order

vars == <<published, named, received>>

Init ==
  /\ published = <<>>
  /\ named = [c \in Clients |-> {}]
  /\ received = [c \in Clients |-> <<>>]

Publish(r) ==
  /\ published' = Append(published, r)
  /\ UNCHANGED <<named, received>>

Subscribe(c, rs) ==
  /\ named' = [named EXCEPT ![c] = @ \cup rs]
  /\ UNCHANGED <<published, received>>

(* Events the client has not been sent and that are no older than those    *)
(* it was sent.                                                            *)
Ahead(c) == {k \in 1 .. Len(published) :
               \A i \in 1 .. Len(received[c]) : received[c][i] < k}

Deliver(c, k) ==
  /\ k \in Ahead(c) /\ published[k] \in named[c]
  /\ received' = [received EXCEPT ![c] = Append(@, k)]
  /\ UNCHANGED <<published, named>>

Next ==
  \/ \E r \in Runs : Publish(r)
  \/ \E c \in Clients : \E rs \in SUBSET Runs : Subscribe(c, rs)
  \/ \E c \in Clients : \E k \in 1 .. Len(published) : Deliver(c, k)

Spec == Init /\ [][Next]_vars
=============================================================================
