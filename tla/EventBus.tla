------------------------------ MODULE EventBus ------------------------------
(***************************************************************************)
(* The event bus (event_bus.cpp) and the receivers' own event sets         *)
(* (event_receiver.cpp), at the granularity of its mutexes.                *)
(*                                                                         *)
(* Threads.  A post p is one call of SendSync or SendAsync with one event  *)
(* object; its program counter is that of the thread which executes        *)
(* SendSync for it: the caller's, or the detached EmitAsync thread the     *)
(* dispatcher starts.  Each receiver r has an owner, the thread of the     *)
(* component that registers it, which makes the registration calls on r    *)
(* one after the other; different owners and all posts interleave freely.  *)
(*                                                                         *)
(* Critical sections.  A section that takes one mutex, works and releases  *)
(* it is one action, guarded by the mutex being free for it.  The two      *)
(* calls that hold a mutex while asking for the other, SendSync and        *)
(* RemoveReceiver, are split there, and the variables shared and exclusive *)
(* record what is held in between.                                         *)
(***************************************************************************)
EXTENDS Sequences

CONSTANTS
  Receivers,        \* receiver ids; each stands for its EventReceiver too
  EventIds,         \* the valid members of eEventId_t
  EVENT_ID_INVALID, \* its last member
  Posts,            \* the event objects that may be sent, each at most once
  EventOf           \* the id of each event object

ASSUME EventBusAssumption ==
  /\ EVENT_ID_INVALID \notin EventIds
  /\ EventOf \in [Posts -> EventIds \cup {EVENT_ID_INVALID}]
  /\ Posts \cap Receivers = {}

VARIABLES
  event_receivers,        \* the registered receivers
  events,                 \* receiver -> its own set EventReceiver::events
  event_to_receivers_map, \* event id -> receivers; only some ids have an entry
  event_async_queue,      \* the events SendAsync has pushed
  shared,                 \* mutex -> posts that hold it shared
  exclusive,              \* mutex -> owners that hold it exclusively
  pc,                     \* post -> where its thread is
  todo,                   \* post -> receivers its loop has still to reach
  running,                \* post -> receivers whose callback is running
  handled,                \* post -> receivers whose callback has returned
  opc,                    \* owner -> the call it is inside of
  oarg                    \* owner -> the event id of that call, if it has one

registryVars == <<event_receivers, events, event_to_receivers_map>>
mutexVars == <<shared, exclusive>>
sendVars == <<pc, todo, running, handled>>
ownerVars == <<opc, oarg>>
vars == <<registryVars, event_async_queue, mutexVars, sendVars, ownerVars>>

Returned == {"RET_OK", "RET_NO_RECEIVERS_FOR_EVENT", "RET_EVENT_ID_INVALID"}

SendLabels ==
  {"new", "queued", "popped", "lock_first", "lock_second", "spawning",
   "joining"} \cup Returned

OwnerLabels == {"idle", "subscribe", "unsubscribe", "remove"}

Mutexes == {"mtx_event_receivers", "mtx_event_to_receivers_map"}

\* Definitions named ..._mutant are plausible bugs in the definition that
\* follows them; no specification uses them.

SendMutex_mutant(label) ==
  IF label = "lock_first" THEN "mtx_event_to_receivers_map"
                          ELSE "mtx_event_receivers"

\* The mutex a send is about to lock: the order fixed by event_bus.cpp:126.
SendMutex(label) ==
  IF label = "lock_first" THEN "mtx_event_receivers"
                          ELSE "mtx_event_to_receivers_map"

\* The check event_id < EVENT_ID_INVALID of Subscribe and Unsubscribe.
ValidEvent_mutant(e) == e \in EventIds \cup {EVENT_ID_INVALID}
ValidEvent(e) == e \in EventIds

FreeToShare(m) == exclusive[m] = {}
FreeToExclude(m) == exclusive[m] = {} /\ shared[m] = {}

\* The unordered_map m read at e, and written: operator[] creates an entry.
Entry(m, e) == IF e \in DOMAIN m THEN m[e] ELSE {}

WithEntry(m, e, S) == [x \in DOMAIN m \cup {e} |-> IF x = e THEN S ELSE m[x]]

WithoutEntry(m, e) == [x \in DOMAIN m \ {e} |-> m[x]]

\* Erase r from the set of e; an entry emptied by that goes, but one that did
\* not hold r stays, and is created when it was missing.
Erase(m, e, r) ==
  IF Entry(m, e) = {r} THEN WithoutEntry(m, e)
                       ELSE WithEntry(m, e, Entry(m, e) \ {r})

\* The loop of RemoveReceiver: Erase for every e of S, in any order.
EraseAll(m, S, r) ==
  [e \in {x \in DOMAIN m \cup S : x \in S => Entry(m, x) # {r}}
     |-> IF e \in S THEN Entry(m, e) \ {r} ELSE m[e]]

-----------------------------------------------------------------------------
Init ==
  /\ event_receivers = {}
  /\ events = [r \in Receivers |-> {}]
  /\ event_to_receivers_map = [e \in {} |-> {}]
  /\ event_async_queue = <<>>
  /\ shared = [m \in Mutexes |-> {}]
  /\ exclusive = [m \in Mutexes |-> {}]
  /\ pc = [p \in Posts |-> "new"]
  /\ todo = [p \in Posts |-> {}]
  /\ running = [p \in Posts |-> {}]
  /\ handled = [p \in Posts |-> {}]
  /\ opc = [r \in Receivers |-> "idle"]
  /\ oarg = [r \in Receivers |-> EVENT_ID_INVALID]

-----------------------------------------------------------------------------
(* Registration.  A call that fails (receiver already there, receiver      *)
(* missing, invalid event id) changes nothing, and no caller looks at its  *)
(* return code: it is a stuttering step.                                   *)

\* EventReceiver::AddEvent, RemoveEvent and GetEvents.  Their mutex mtx_events
\* is held for nothing else, and inside of it nothing waits.
AddEvent(r, e) == [events EXCEPT ![r] = @ \cup {e}]
RemoveEvent(r, e) == [events EXCEPT ![r] = @ \ {e}]
GetEvents(r) == events[r]

AddReceiver(r) ==
  /\ opc[r] = "idle"
  /\ FreeToExclude("mtx_event_receivers")
  /\ r \notin event_receivers
  /\ event_receivers' = event_receivers \cup {r}
  /\ UNCHANGED <<events, event_to_receivers_map, event_async_queue, mutexVars,
                 sendVars, ownerVars>>

Subscribe_mutant(r, e) ==  \* AddEvent forgotten
  /\ opc[r] = "idle"
  /\ ValidEvent(e)
  /\ FreeToExclude("mtx_event_receivers")
  /\ r \in event_receivers
  /\ opc' = [opc EXCEPT ![r] = "subscribe"]
  /\ oarg' = [oarg EXCEPT ![r] = e]
  /\ UNCHANGED <<registryVars, event_async_queue, mutexVars, sendVars>>

\* Subscribe, its first section: the receiver's own set.
Subscribe(r, e) ==
  /\ opc[r] = "idle"
  /\ ValidEvent(e)
  /\ FreeToExclude("mtx_event_receivers")
  /\ r \in event_receivers
  /\ events' = AddEvent(r, e)
  /\ opc' = [opc EXCEPT ![r] = "subscribe"]
  /\ oarg' = [oarg EXCEPT ![r] = e]
  /\ UNCHANGED <<event_receivers, event_to_receivers_map, event_async_queue,
                 mutexVars, sendVars>>

\* Subscribe, its second section: the bus's map.
SubscribeMap(r) ==
  /\ opc[r] = "subscribe"
  /\ FreeToExclude("mtx_event_to_receivers_map")
  /\ event_to_receivers_map' =
       WithEntry(event_to_receivers_map, oarg[r],
                 Entry(event_to_receivers_map, oarg[r]) \cup {r})
  /\ opc' = [opc EXCEPT ![r] = "idle"]
  /\ oarg' = [oarg EXCEPT ![r] = EVENT_ID_INVALID]
  /\ UNCHANGED <<event_receivers, events, event_async_queue, mutexVars,
                 sendVars>>

\* Unsubscribe, its first section.
Unsubscribe(r, e) ==
  /\ opc[r] = "idle"
  /\ ValidEvent(e)
  /\ FreeToExclude("mtx_event_receivers")
  /\ r \in event_receivers
  /\ events' = RemoveEvent(r, e)
  /\ opc' = [opc EXCEPT ![r] = "unsubscribe"]
  /\ oarg' = [oarg EXCEPT ![r] = e]
  /\ UNCHANGED <<event_receivers, event_to_receivers_map, event_async_queue,
                 mutexVars, sendVars>>

UnsubscribeMap_mutant(r) ==  \* tries again until something is erased
  /\ opc[r] = "unsubscribe"
  /\ FreeToExclude("mtx_event_to_receivers_map")
  /\ event_to_receivers_map' = Erase(event_to_receivers_map, oarg[r], r)
  /\ opc' = IF r \in Entry(event_to_receivers_map, oarg[r])
            THEN [opc EXCEPT ![r] = "idle"] ELSE opc
  /\ UNCHANGED <<event_receivers, events, event_async_queue, mutexVars,
                 sendVars, oarg>>

\* Unsubscribe, its second section.
UnsubscribeMap(r) ==
  /\ opc[r] = "unsubscribe"
  /\ FreeToExclude("mtx_event_to_receivers_map")
  /\ event_to_receivers_map' = Erase(event_to_receivers_map, oarg[r], r)
  /\ opc' = [opc EXCEPT ![r] = "idle"]
  /\ oarg' = [oarg EXCEPT ![r] = EVENT_ID_INVALID]
  /\ UNCHANGED <<event_receivers, events, event_async_queue, mutexVars,
                 sendVars>>

\* RemoveReceiver up to the second lock: mtx_event_receivers is now held.
RemoveReceiver(r) ==
  /\ opc[r] = "idle"
  /\ FreeToExclude("mtx_event_receivers")
  /\ r \in event_receivers
  /\ exclusive' = [exclusive EXCEPT !["mtx_event_receivers"] = @ \cup {r}]
  /\ opc' = [opc EXCEPT ![r] = "remove"]
  /\ UNCHANGED <<registryVars, event_async_queue, shared, sendVars, oarg>>

RemoveReceiverErase_mutant(r) ==  \* its subscriptions stay in the map
  /\ opc[r] = "remove"
  /\ FreeToExclude("mtx_event_to_receivers_map")
  /\ event_receivers' = event_receivers \ {r}
  /\ exclusive' = [exclusive EXCEPT !["mtx_event_receivers"] = @ \ {r}]
  /\ opc' = [opc EXCEPT ![r] = "idle"]
  /\ UNCHANGED <<events, event_to_receivers_map, event_async_queue, shared,
                 sendVars, oarg>>

\* RemoveReceiver from the second lock to the end.  The receiver's own set
\* keeps its events.  mtx_event_receivers, held throughout, hides the gap
\* between the two erasures from every reader of event_receivers.
RemoveReceiverErase(r) ==
  /\ opc[r] = "remove"
  /\ FreeToExclude("mtx_event_to_receivers_map")
  /\ event_to_receivers_map' =
       EraseAll(event_to_receivers_map, GetEvents(r), r)
  /\ event_receivers' = event_receivers \ {r}
  /\ exclusive' = [exclusive EXCEPT !["mtx_event_receivers"] = @ \ {r}]
  /\ opc' = [opc EXCEPT ![r] = "idle"]
  /\ UNCHANGED <<events, event_async_queue, shared, sendVars, oarg>>

-----------------------------------------------------------------------------
(* Sending.                                                                *)

\* What SendSync does before it takes a mutex: the check of the event id.
EnterSendSync(p) ==
  IF EventOf[p] = EVENT_ID_INVALID THEN "RET_EVENT_ID_INVALID"
                                   ELSE "lock_first"

SendSync(p) ==
  /\ pc[p] = "new"
  /\ pc' = [pc EXCEPT ![p] = EnterSendSync(p)]
  /\ UNCHANGED <<registryVars, event_async_queue, mutexVars, todo, running,
                 handled, ownerVars>>

SendAsync(p) ==
  /\ pc[p] = "new"
  /\ event_async_queue' = Append(event_async_queue, p)
  /\ pc' = [pc EXCEPT ![p] = "queued"]
  /\ UNCHANGED <<registryVars, mutexVars, todo, running, handled, ownerVars>>

CyclicPop_mutant ==  \* flag not set: nobody emits what was popped
  /\ \A p \in Posts : pc[p] # "popped"
  /\ event_async_queue # <<>>
  /\ event_async_queue' = Tail(event_async_queue)
  /\ UNCHANGED <<registryVars, mutexVars, sendVars, ownerVars>>

\* Cyclic, under event_async_queue_lock.  There is one dispatcher thread: it
\* pops again only when it has started a thread for what it popped before.
CyclicPop ==
  /\ \A p \in Posts : pc[p] # "popped"
  /\ event_async_queue # <<>>
  /\ pc' = [pc EXCEPT ![Head(event_async_queue)] = "popped"]
  /\ event_async_queue' = Tail(event_async_queue)
  /\ UNCHANGED <<registryVars, mutexVars, todo, running, handled, ownerVars>>

\* Cyclic starts the detached thread, whose EmitAsync calls SendSync.
CyclicEmit(p) ==
  /\ pc[p] = "popped"
  /\ pc' = [pc EXCEPT ![p] = EnterSendSync(p)]
  /\ UNCHANGED <<registryVars, event_async_queue, mutexVars, todo, running,
                 handled, ownerVars>>

SendLockFirst(p) ==
  LET m == SendMutex("lock_first") IN
  /\ pc[p] = "lock_first"
  /\ FreeToShare(m)
  /\ shared' = [shared EXCEPT ![m] = @ \cup {p}]
  /\ pc' = [pc EXCEPT ![p] = "lock_second"]
  /\ UNCHANGED <<registryVars, event_async_queue, exclusive, todo, running,
                 handled, ownerVars>>

\* The second lock and the look-up, when the event has an entry ...
SendLockSecond(p) ==
  LET m == SendMutex("lock_second") IN
  /\ pc[p] = "lock_second"
  /\ FreeToShare(m)
  /\ EventOf[p] \in DOMAIN event_to_receivers_map
  /\ shared' = [shared EXCEPT ![m] = @ \cup {p}]
  /\ todo' = [todo EXCEPT ![p] = event_to_receivers_map[EventOf[p]]]
  /\ pc' = [pc EXCEPT ![p] = "spawning"]
  /\ UNCHANGED <<registryVars, event_async_queue, exclusive, running, handled,
                 ownerVars>>

\* ... and when it has none: both mutexes are released on the way out.
SendNoReceivers(p) ==
  /\ pc[p] = "lock_second"
  /\ FreeToShare(SendMutex("lock_second"))
  /\ EventOf[p] \notin DOMAIN event_to_receivers_map
  /\ shared' = [m \in Mutexes |-> shared[m] \ {p}]
  /\ pc' = [pc EXCEPT ![p] = "RET_NO_RECEIVERS_FOR_EVENT"]
  /\ UNCHANGED <<registryVars, event_async_queue, exclusive, todo, running,
                 handled, ownerVars>>

\* One turn of the loop: a thread that runs the callback of r.
SpawnCallback(p, r) ==
  /\ pc[p] = "spawning"
  /\ r \in todo[p]
  /\ todo' = [todo EXCEPT ![p] = @ \ {r}]
  /\ running' = [running EXCEPT ![p] = @ \cup {r}]
  /\ UNCHANGED <<registryVars, event_async_queue, mutexVars, pc, handled,
                 ownerVars>>

SendUnlock(p) ==
  /\ pc[p] = "spawning"
  /\ todo[p] = {}
  /\ shared' = [m \in Mutexes |-> shared[m] \ {p}]
  /\ pc' = [pc EXCEPT ![p] = "joining"]
  /\ UNCHANGED <<registryVars, event_async_queue, exclusive, todo, running,
                 handled, ownerVars>>

\* A callback returns; its thread may finish while the loop still runs.
CallbackReturn(p, r) ==
  /\ r \in running[p]
  /\ running' = [running EXCEPT ![p] = @ \ {r}]
  /\ handled' = [handled EXCEPT ![p] = @ \cup {r}]
  /\ UNCHANGED <<registryVars, event_async_queue, mutexVars, pc, todo,
                 ownerVars>>

SendReturn_mutant(p) ==  \* threads detached, not joined
  /\ pc[p] = "joining"
  /\ pc' = [pc EXCEPT ![p] = "RET_OK"]
  /\ UNCHANGED <<registryVars, event_async_queue, mutexVars, todo, running,
                 handled, ownerVars>>

\* The join loop has seen every thread end.
SendReturn(p) ==
  /\ pc[p] = "joining"
  /\ running[p] = {}
  /\ pc' = [pc EXCEPT ![p] = "RET_OK"]
  /\ UNCHANGED <<registryVars, event_async_queue, mutexVars, todo, running,
                 handled, ownerVars>>

-----------------------------------------------------------------------------
OwnerStart(r) ==
  \/ AddReceiver(r)
  \/ \E e \in EventIds \cup {EVENT_ID_INVALID} :
       Subscribe(r, e) \/ Unsubscribe(r, e)
  \/ RemoveReceiver(r)

OwnerFinish(r) ==
  SubscribeMap(r) \/ UnsubscribeMap(r) \/ RemoveReceiverErase(r)

SendStart(p) == SendSync(p) \/ SendAsync(p)

SendStep(p) ==
  \/ CyclicEmit(p)
  \/ SendLockFirst(p) \/ SendLockSecond(p) \/ SendNoReceivers(p)
  \/ SendUnlock(p) \/ SendReturn(p)
  \/ \E r \in Receivers : SpawnCallback(p, r)

Callback(p) == \E r \in Receivers : CallbackReturn(p, r)

Next ==
  \/ \E r \in Receivers : OwnerStart(r) \/ OwnerFinish(r)
  \/ \E p \in Posts : SendStart(p) \/ SendStep(p) \/ Callback(p)
  \/ CyclicPop

Spec == Init /\ [][Next]_vars

\* Threads that are able to run do run, and callbacks return; nobody is
\* obliged to make a call.  Every thread here is a plain std::thread.
Fairness ==
  /\ WF_vars(CyclicPop)
  /\ \A p \in Posts : WF_vars(SendStep(p)) /\ WF_vars(Callback(p))
  /\ \A r \in Receivers : WF_vars(OwnerFinish(r))

FairSpec == Spec /\ Fairness

-----------------------------------------------------------------------------
(* Properties.                                                             *)

\* The shape of the state.  In particular no entry of the map is ever made
\* for an id that the enumeration does not have.
TypeOK ==
  /\ event_receivers \in SUBSET Receivers
  /\ events \in [Receivers -> SUBSET EventIds]
  /\ \E D \in SUBSET EventIds :
       event_to_receivers_map \in [D -> SUBSET Receivers]
  /\ event_async_queue \in Seq(Posts)
  /\ shared \in [Mutexes -> SUBSET Posts]
  /\ exclusive \in [Mutexes -> SUBSET Receivers]
  /\ pc \in [Posts -> SendLabels]
  /\ todo \in [Posts -> SUBSET Receivers]
  /\ running \in [Posts -> SUBSET Receivers]
  /\ handled \in [Posts -> SUBSET Receivers]
  /\ opc \in [Receivers -> OwnerLabels]
  /\ oarg \in [Receivers -> EventIds \cup {EVENT_ID_INVALID}]

\* The mutexes thread t is waiting for, to share or to have exclusively.  An
\* idle owner may be in a call that waits for its first mutex.
WantsToShare(t) ==
  {SendMutex(l) :
     l \in {k \in {"lock_first", "lock_second"} : t \in Posts /\ pc[t] = k}}

WantsToExclude(t) ==
  {m \in Mutexes :
     t \in Receivers /\ (m = "mtx_event_receivers" <=> opc[t] = "idle")}

\* t cannot run before u does something.  std::shared_mutex may let a waiting
\* writer go first, so a reader can be blocked by a writer that only waits.
BlockedBy(t, u) ==
  \/ \E m \in WantsToShare(t) : u \in exclusive[m] \/ m \in WantsToExclude(u)
  \/ \E m \in WantsToExclude(t) : u \in exclusive[m] \cup shared[m]

(***************************************************************************)
(* Deadlock freedom, the claim of the comment at event_bus.cpp:126: no set *)
(* of threads exists in which each one waits for a mutex that another one  *)
(* of the set holds or queues for.                                         *)
(***************************************************************************)
NoWaitCycle ==
  \A T \in SUBSET (Posts \cup Receivers) :
    T # {} => \E t \in T : \A u \in T \ {t} : ~BlockedBy(t, u)

(***************************************************************************)
(* The loop of SendSync dereferences event_receivers[id] for every id it   *)
(* found in the other map (event_bus.cpp:137).  While it runs, each of     *)
(* them is still registered, so the pointer is never the null pointer that *)
(* operator[] would create, whatever the owners do meanwhile.              *)
(***************************************************************************)
NoDanglingReceiver ==
  \A p \in Posts : pc[p] = "spawning" => todo[p] \subseteq event_receivers

(***************************************************************************)
(* The bus's map and the receivers' own sets are updated under different   *)
(* mutexes, one after the other.  At every instant, somebody the map names *)
(* is registered and has the event in its own set, unless its Unsubscribe  *)
(* is halfway: RemoveReceiver, which trusts the own set, misses no entry.  *)
(***************************************************************************)
MapWithinRegistry ==
  \A e \in DOMAIN event_to_receivers_map :
    \A r \in event_to_receivers_map[e] :
      /\ r \in event_receivers
      /\ e \in events[r] \/ (opc[r] = "unsubscribe" /\ oarg[r] = e)

(***************************************************************************)
(* The bus keeps the promise of PubSub: a subscription takes effect when   *)
(* the bus's map changes, and an event is matched when SendSync holds both *)
(* mutexes.                                                                *)
(***************************************************************************)
StatusOf(label) ==
  CASE label = "new" -> "new"
    [] label \in {"queued", "popped", "lock_first", "lock_second"} -> "posted"
    [] label \in {"spawning", "joining"} -> "delivering"
    [] label \in Returned -> "returned"

PS == INSTANCE PubSub WITH
        subscribers <- [e \in EventIds |-> Entry(event_to_receivers_map, e)],
        status <- [p \in Posts |-> StatusOf(pc[p])],
        pending <- [p \in Posts |-> todo[p] \cup running[p]]

ImplementsPubSub == PS!Spec

(***************************************************************************)
(* Every event that is sent, synchronously or through the queue, returns,  *)
(* hence by ImplementsPubSub is handled by all its receivers, if removals  *)
(* stop at some time: std::shared_mutex does not promise a reader that     *)
(* writers which keep coming will let it in.                               *)
(***************************************************************************)
SendsReturn ==
  <>[](\A r \in Receivers : opc[r] # "remove") =>
    \A p \in Posts : (pc[p] # "new") ~> (pc[p] \in Returned)

(***************************************************************************)
(* A registration call that has passed its first section completes: what   *)
(* the loop of SendSync holds it gives back, and the owner comes back from *)
(* its second section.  The posts being finitely many stands for the       *)
(* assumption that readers do not keep a waiting writer out for ever.      *)
(***************************************************************************)
CallsComplete == \A r \in Receivers : (opc[r] # "idle") ~> (opc[r] = "idle")
=============================================================================
