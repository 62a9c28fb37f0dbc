------------------------------- MODULE PubSub -------------------------------
(***************************************************************************)
(* What the event bus promises to the components that use it, with no      *)
(* mutex, no queue and no dispatcher thread.                               *)
(*                                                                         *)
(* A posted event is matched against the subscriptions at one instant      *)
(* between its posting and its return; each receiver subscribed at that    *)
(* instant handles it exactly once, nobody else handles it, and a post     *)
(* returns only when all of them have.  Nothing is promised about the      *)
(* order in which two events reach a receiver: any two posts may overlap.  *)
(***************************************************************************)
CONSTANTS
  Receivers,   \* the receivers that may subscribe
  EventIds,    \* the event ids one may subscribe to
  Posts,       \* the event instances that may be posted, each at most once
  EventOf      \* the event id each instance carries, valid or not

VARIABLES
  subscribers, \* event id -> the receivers subscribed to it
  status,      \* post -> how far it has come
  pending,     \* post -> the receivers that still have to handle it
  handled      \* post -> the receivers that have handled it

vars == <<subscribers, status, pending, handled>>

Statuses == {"new", "posted", "delivering", "returned"}

Init ==
  /\ subscribers = [e \in EventIds |-> {}]
  /\ status = [p \in Posts |-> "new"]
  /\ pending = [p \in Posts |-> {}]
  /\ handled = [p \in Posts |-> {}]

-----------------------------------------------------------------------------
(* Subscriptions: each call takes effect at one instant.                   *)

Subscribe(r, e) ==
  /\ subscribers' = [subscribers EXCEPT ![e] = @ \cup {r}]
  /\ UNCHANGED <<status, pending, handled>>

Unsubscribe(r, e) ==
  /\ subscribers' = [subscribers EXCEPT ![e] = @ \ {r}]
  /\ UNCHANGED <<status, pending, handled>>

Withdraw(r) ==
  /\ subscribers' = [e \in EventIds |-> subscribers[e] \ {r}]
  /\ UNCHANGED <<status, pending, handled>>

-----------------------------------------------------------------------------
(* Events.                                                                 *)

Post(p) ==
  /\ status[p] = "new"
  /\ status' = [status EXCEPT ![p] = "posted"]
  /\ UNCHANGED <<subscribers, pending, handled>>

\* The instant at which the receivers of p are chosen.
Match(p) ==
  /\ status[p] = "posted"
  /\ EventOf[p] \in EventIds
  /\ status' = [status EXCEPT ![p] = "delivering"]
  /\ pending' = [pending EXCEPT ![p] = subscribers[EventOf[p]]]
  /\ UNCHANGED <<subscribers, handled>>

\* An event nobody is subscribed to returns at once.
Miss(p) ==
  /\ status[p] = "posted"
  /\ EventOf[p] \in EventIds
  /\ subscribers[EventOf[p]] = {}
  /\ status' = [status EXCEPT ![p] = "returned"]
  /\ UNCHANGED <<subscribers, pending, handled>>

\* An event with an invalid id is never matched.
Reject(p) ==
  /\ status[p] \in {"new", "posted"}
  /\ EventOf[p] \notin EventIds
  /\ status' = [status EXCEPT ![p] = "returned"]
  /\ UNCHANGED <<subscribers, pending, handled>>

Handle(p, r) ==
  /\ status[p] = "delivering"
  /\ r \in pending[p]
  /\ r \notin handled[p]
  /\ pending' = [pending EXCEPT ![p] = @ \ {r}]
  /\ handled' = [handled EXCEPT ![p] = @ \cup {r}]
  /\ UNCHANGED <<subscribers, status>>

Return(p) ==
  /\ status[p] = "delivering"
  /\ pending[p] = {}
  /\ status' = [status EXCEPT ![p] = "returned"]
  /\ UNCHANGED <<subscribers, pending, handled>>

-----------------------------------------------------------------------------
Next ==
  \/ \E r \in Receivers :
       \/ Withdraw(r)
       \/ \E e \in EventIds : Subscribe(r, e) \/ Unsubscribe(r, e)
  \/ \E p \in Posts :
       \/ Post(p) \/ Match(p) \/ Miss(p) \/ Reject(p) \/ Return(p)
       \/ \E r \in Receivers : Handle(p, r)

Spec == Init /\ [][Next]_vars
=============================================================================
