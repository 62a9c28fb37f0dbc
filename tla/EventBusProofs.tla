--------------------------- MODULE EventBusProofs ---------------------------
(***************************************************************************)
(* Proofs about EventBus, for any number of receivers, event ids and posts.*)
(***************************************************************************)
EXTENDS EventBus, Integers, TLAPS

-----------------------------------------------------------------------------
(* What the operators on the map return.                                   *)

\* A map from some event ids to sets of receivers.
IsMap(m) == \E D \in SUBSET EventIds : m \in [D -> SUBSET Receivers]

\* Adding, removing and erasing keep a map a map.
LEMMA MapOps ==
  ASSUME NEW m, IsMap(m), NEW e \in EventIds, NEW r \in Receivers
  PROVE  /\ IsMap(WithEntry(m, e, Entry(m, e) \cup {r}))
         /\ IsMap(Erase(m, e, r))
<1>1. PICK D \in SUBSET EventIds : m \in [D -> SUBSET Receivers]
  BY DEF IsMap
<1>2. \A x : Entry(m, x) \in SUBSET Receivers
  BY <1>1 DEF Entry
<1>3. \A S \in SUBSET Receivers : IsMap(WithEntry(m, e, S))
  <2>1. TAKE S \in SUBSET Receivers
  <2>2. WithEntry(m, e, S) \in [D \cup {e} -> SUBSET Receivers]
    BY <1>1 DEF WithEntry
  <2> QED BY <2>2 DEF IsMap
<1>4. IsMap(WithoutEntry(m, e))
  <2>1. WithoutEntry(m, e) \in [D \ {e} -> SUBSET Receivers]
    BY <1>1 DEF WithoutEntry
  <2> QED BY <2>1 DEF IsMap
<1> QED
  BY <1>2, <1>3, <1>4 DEF Erase

\* The loop of RemoveReceiver keeps a map a map.
LEMMA MapEraseAll ==
  ASSUME NEW m, IsMap(m), NEW r \in Receivers, NEW E \in SUBSET EventIds
  PROVE  IsMap(EraseAll(m, E, r))
<1> DEFINE K == {x \in DOMAIN m \cup E : x \in E => Entry(m, x) # {r}}
<1>1. PICK D \in SUBSET EventIds : m \in [D -> SUBSET Receivers]
  BY DEF IsMap
<1>2. K \in SUBSET EventIds
  BY <1>1
<1>3. \A x \in K : (IF x \in E THEN Entry(m, x) \ {r} ELSE m[x])
                     \in SUBSET Receivers
  BY <1>1 DEF Entry
<1>4. EraseAll(m, E, r) \in [K -> SUBSET Receivers]
  BY <1>3 DEF EraseAll
<1> QED
  BY <1>2, <1>4 DEF IsMap

\* Erasing r from the entry of e changes what is read at e, there removes r
\* and nothing else, and changes what is read nowhere else.
LEMMA EraseEntry ==
  ASSUME NEW m, NEW e, NEW r, NEW x
  PROVE  Entry(Erase(m, e, r), x) =
           IF x = e THEN Entry(m, e) \ {r} ELSE Entry(m, x)
BY DEF Entry, Erase, WithEntry, WithoutEntry

\* Writing the entry of e changes what is read at e and nowhere else.
LEMMA WithEntryEntry ==
  ASSUME NEW m, NEW e, NEW S, NEW x
  PROVE  Entry(WithEntry(m, e, S), x) = IF x = e THEN S ELSE Entry(m, x)
BY DEF Entry, WithEntry

\* The loop of RemoveReceiver removes r from the entries of E, and changes
\* nothing else that can be read.
LEMMA EraseAllEntry ==
  ASSUME NEW m, NEW E, NEW r, NEW x
  PROVE  Entry(EraseAll(m, E, r), x) =
           IF x \in E THEN Entry(m, x) \ {r} ELSE Entry(m, x)
BY DEF Entry, EraseAll

-----------------------------------------------------------------------------
(* The inductive invariant.                                                *)

\* What an owner's call in progress has established.
CallInv ==
  \A r \in Receivers :
    /\ opc[r] \in {"subscribe", "unsubscribe"} => oarg[r] \in EventIds
    /\ opc[r] = "subscribe" => r \in event_receivers /\ oarg[r] \in events[r]

\* The queue holds each event waiting in it once, and no other.
QueueInv ==
  /\ \A i \in 1 .. Len(event_async_queue) : pc[event_async_queue[i]] = "queued"
  /\ \A i, j \in 1 .. Len(event_async_queue) :
       event_async_queue[i] = event_async_queue[j] => i = j

\* Who holds which mutex, read off the program counters.
MutexInv ==
  /\ shared["mtx_event_receivers"] =
       {p \in Posts : pc[p] \in {"lock_second", "spawning"}}
  /\ shared["mtx_event_to_receivers_map"] = {p \in Posts : pc[p] = "spawning"}
  /\ exclusive["mtx_event_receivers"] = {r \in Receivers : opc[r] = "remove"}
  /\ exclusive["mtx_event_to_receivers_map"] = {}
  /\ \A r \in Receivers :
       opc[r] = "remove" =>
         /\ \A p \in Posts : pc[p] \notin {"lock_second", "spawning"}
         /\ \A s \in Receivers : opc[s] = "remove" => s = r

\* MapWithinRegistry, on what is read from the map.
RegistryInv ==
  \A e \in EventIds :
    \A r \in Entry(event_to_receivers_map, e) :
      /\ r \in event_receivers
      /\ e \in events[r] \/ (opc[r] = "unsubscribe" /\ oarg[r] = e)

\* How far the delivery of each event has come.
DeliveryInv ==
  \A p \in Posts :
    /\ pc[p] \notin {"spawning", "joining"} => todo[p] = {} /\ running[p] = {}
    /\ pc[p] \notin {"spawning", "joining"} \cup Returned => handled[p] = {}
    /\ pc[p] = "joining" => todo[p] = {}
    /\ pc[p] \in {"lock_first", "lock_second"} => EventOf[p] \in EventIds
    /\ todo[p] \cap running[p] = {}
    /\ handled[p] \cap (todo[p] \cup running[p]) = {}

IInv ==
  TypeOK /\ CallInv /\ QueueInv /\ MutexInv /\ RegistryInv /\ DeliveryInv
    /\ NoDanglingReceiver

-----------------------------------------------------------------------------
(* Types.                                                                  *)

\* The initial state has the right shape.
LEMMA TypeInit == Init => TypeOK
<1> SUFFICES ASSUME Init PROVE TypeOK
  OBVIOUS
<1>1. event_to_receivers_map \in [{} -> SUBSET Receivers]
  BY DEF Init
<1>2. \E D \in SUBSET EventIds :
        event_to_receivers_map \in [D -> SUBSET Receivers]
  BY <1>1
<1>3. /\ event_receivers \in SUBSET Receivers
      /\ events \in [Receivers -> SUBSET EventIds]
      /\ event_async_queue \in Seq(Posts)
      /\ shared \in [Mutexes -> SUBSET Posts]
      /\ exclusive \in [Mutexes -> SUBSET Receivers]
  BY DEF Init
<1>4. /\ pc \in [Posts -> SendLabels]
      /\ todo \in [Posts -> SUBSET Receivers]
      /\ running \in [Posts -> SUBSET Receivers]
      /\ handled \in [Posts -> SUBSET Receivers]
      /\ opc \in [Receivers -> OwnerLabels]
      /\ oarg \in [Receivers -> EventIds \cup {EVENT_ID_INVALID}]
  BY DEF Init, SendLabels, OwnerLabels
<1> QED
  BY <1>2, <1>3, <1>4 DEF TypeOK

\* Every step keeps the shape; CallInv supplies that the second sections of
\* Subscribe and Unsubscribe work on a valid event id.
LEMMA TypeStep ==
  TypeOK /\ CallInv /\ [Next]_vars => TypeOK'
<1> SUFFICES ASSUME TypeOK, CallInv, [Next]_vars PROVE TypeOK'
  OBVIOUS
<1> USE DEF registryVars, mutexVars, sendVars, ownerVars
<1>0. IsMap(event_to_receivers_map)
  BY DEF TypeOK, IsMap
<1>1. ASSUME NEW r \in Receivers, AddReceiver(r) PROVE TypeOK'
  BY <1>1
     DEF TypeOK, SendLabels, OwnerLabels, Returned, ValidEvent, AddReceiver
<1>2. ASSUME NEW r \in Receivers,
             NEW e \in EventIds \cup {EVENT_ID_INVALID}, Subscribe(r, e)
      PROVE  TypeOK'
  BY <1>2 DEF TypeOK, SendLabels, OwnerLabels, Returned, ValidEvent,
         Subscribe, AddEvent
<1>3. ASSUME NEW r \in Receivers,
             NEW e \in EventIds \cup {EVENT_ID_INVALID}, Unsubscribe(r, e)
      PROVE  TypeOK'
  BY <1>3
     DEF TypeOK, SendLabels, OwnerLabels, Returned, ValidEvent, Unsubscribe,
            RemoveEvent
<1>4. ASSUME NEW r \in Receivers, RemoveReceiver(r) PROVE TypeOK'
  BY <1>4
     DEF TypeOK, SendLabels, OwnerLabels, Returned, ValidEvent, RemoveReceiver
<1>5. ASSUME NEW r \in Receivers, SubscribeMap(r) PROVE TypeOK'
  <2>1. IsMap(event_to_receivers_map')
    BY <1>0, <1>5, MapOps DEF CallInv, SubscribeMap
  <2> QED
    BY <1>5, <2>1 DEF TypeOK, IsMap, SubscribeMap, OwnerLabels
<1>6. ASSUME NEW r \in Receivers, UnsubscribeMap(r) PROVE TypeOK'
  <2>1. IsMap(event_to_receivers_map')
    BY <1>0, <1>6, MapOps DEF CallInv, UnsubscribeMap
  <2> QED
    BY <1>6, <2>1 DEF TypeOK, IsMap, UnsubscribeMap, OwnerLabels
<1>7. ASSUME NEW r \in Receivers, RemoveReceiverErase(r) PROVE TypeOK'
  <2>1. IsMap(event_to_receivers_map')
    BY <1>0, <1>7, MapEraseAll DEF TypeOK, RemoveReceiverErase, GetEvents
  <2>2. event_receivers' \in SUBSET Receivers
    BY <1>7 DEF TypeOK, RemoveReceiverErase, GetEvents
  <2>3. exclusive' \in [Mutexes -> SUBSET Receivers]
    BY <1>7 DEF TypeOK, RemoveReceiverErase, GetEvents
  <2>4. opc' \in [Receivers -> OwnerLabels]
    BY <1>7 DEF TypeOK, RemoveReceiverErase, GetEvents, OwnerLabels
  <2> QED
    BY <1>7, <2>1, <2>2, <2>3, <2>4
       DEF TypeOK, IsMap, RemoveReceiverErase, GetEvents
<1>8. ASSUME NEW p \in Posts, SendSync(p) PROVE TypeOK'
  BY <1>8 DEF TypeOK, SendSync, EnterSendSync, SendLabels, Returned
<1>9. ASSUME NEW p \in Posts, SendAsync(p) PROVE TypeOK'
  BY <1>9 DEF TypeOK, SendLabels, OwnerLabels, Returned, ValidEvent, SendAsync
<1>10. CASE CyclicPop
  <2>1. Head(event_async_queue) \in Posts
    BY <1>10 DEF TypeOK, CyclicPop
  <2>2. Tail(event_async_queue) \in Seq(Posts)
    BY <1>10 DEF TypeOK, CyclicPop
  <2> QED
    BY <1>10, <2>1, <2>2 DEF TypeOK, CyclicPop, SendLabels
<1>11. ASSUME NEW p \in Posts, CyclicEmit(p) PROVE TypeOK'
  BY <1>11 DEF TypeOK, CyclicEmit, EnterSendSync, SendLabels, Returned
<1>12. ASSUME NEW p \in Posts, SendLockFirst(p) PROVE TypeOK'
  BY <1>12
     DEF TypeOK, SendLabels, OwnerLabels, Returned, ValidEvent, SendLockFirst
<1>13. ASSUME NEW p \in Posts, SendLockSecond(p) PROVE TypeOK'
  BY <1>13
     DEF TypeOK, SendLabels, OwnerLabels, Returned, ValidEvent, SendLockSecond
<1>14. ASSUME NEW p \in Posts, SendNoReceivers(p) PROVE TypeOK'
  BY <1>14
     DEF TypeOK, SendLabels, OwnerLabels, Returned, ValidEvent, SendNoReceivers
<1>15. ASSUME NEW p \in Posts, NEW r \in Receivers, SpawnCallback(p, r)
       PROVE  TypeOK'
  BY <1>15
     DEF TypeOK, SendLabels, OwnerLabels, Returned, ValidEvent, SpawnCallback
<1>16. ASSUME NEW p \in Posts, SendUnlock(p) PROVE TypeOK'
  BY <1>16
     DEF TypeOK, SendLabels, OwnerLabels, Returned, ValidEvent, SendUnlock
<1>17. ASSUME NEW p \in Posts, NEW r \in Receivers, CallbackReturn(p, r)
       PROVE  TypeOK'
  BY <1>17
     DEF TypeOK, SendLabels, OwnerLabels, Returned, ValidEvent, CallbackReturn
<1>18. ASSUME NEW p \in Posts, SendReturn(p) PROVE TypeOK'
  BY <1>18
     DEF TypeOK, SendLabels, OwnerLabels, Returned, ValidEvent, SendReturn
<1>19. CASE UNCHANGED vars
  BY <1>19 DEF TypeOK, SendLabels, OwnerLabels, Returned, ValidEvent, vars
<1> QED
  BY <1>1, <1>2, <1>3, <1>4, <1>5, <1>6, <1>7, <1>8, <1>9, <1>10, <1>11,
     <1>12, <1>13, <1>14, <1>15, <1>16, <1>17, <1>18, <1>19 DEF Next,
     OwnerStart, OwnerFinish, SendStart, SendStep, Callback

\* An owner alone changes its own events and its own registration.
LEMMA CallStep ==
  TypeOK /\ CallInv /\ [Next]_vars => CallInv'
<1> SUFFICES ASSUME TypeOK, CallInv, [Next]_vars PROVE CallInv'
  OBVIOUS
<1> USE DEF registryVars, mutexVars, sendVars, ownerVars
<1>1. ASSUME NEW r \in Receivers, AddReceiver(r) PROVE CallInv'
  BY <1>1 DEF TypeOK, CallInv, OwnerLabels, ValidEvent, AddReceiver
<1>2. ASSUME NEW r \in Receivers,
             NEW e \in EventIds \cup {EVENT_ID_INVALID}, Subscribe(r, e)
      PROVE  CallInv'
  BY <1>2 DEF TypeOK, CallInv, OwnerLabels, ValidEvent, Subscribe, AddEvent
<1>3. ASSUME NEW r \in Receivers,
             NEW e \in EventIds \cup {EVENT_ID_INVALID}, Unsubscribe(r, e)
      PROVE  CallInv'
  BY <1>3 DEF TypeOK, CallInv, OwnerLabels, ValidEvent, Unsubscribe,
         RemoveEvent
<1>4. ASSUME NEW r \in Receivers, RemoveReceiver(r) PROVE CallInv'
  BY <1>4 DEF TypeOK, CallInv, OwnerLabels, ValidEvent, RemoveReceiver
<1>5. ASSUME NEW r \in Receivers, SubscribeMap(r) PROVE CallInv'
  BY <1>5 DEF TypeOK, CallInv, OwnerLabels, ValidEvent, SubscribeMap
<1>6. ASSUME NEW r \in Receivers, UnsubscribeMap(r) PROVE CallInv'
  BY <1>6 DEF TypeOK, CallInv, OwnerLabels, ValidEvent, UnsubscribeMap
<1>7. ASSUME NEW r \in Receivers, RemoveReceiverErase(r) PROVE CallInv'
  BY <1>7 DEF TypeOK, CallInv, OwnerLabels, ValidEvent, RemoveReceiverErase,
         GetEvents
<1>8. ASSUME NEW p \in Posts, SendSync(p) PROVE CallInv'
  BY <1>8 DEF TypeOK, CallInv, OwnerLabels, ValidEvent, SendSync
<1>9. ASSUME NEW p \in Posts, SendAsync(p) PROVE CallInv'
  BY <1>9 DEF TypeOK, CallInv, OwnerLabels, ValidEvent, SendAsync
<1>10. CASE CyclicPop
  BY <1>10 DEF TypeOK, CallInv, OwnerLabels, ValidEvent, CyclicPop
<1>11. ASSUME NEW p \in Posts, CyclicEmit(p) PROVE CallInv'
  BY <1>11 DEF TypeOK, CallInv, OwnerLabels, ValidEvent, CyclicEmit
<1>12. ASSUME NEW p \in Posts, SendLockFirst(p) PROVE CallInv'
  BY <1>12 DEF TypeOK, CallInv, OwnerLabels, ValidEvent, SendLockFirst
<1>13. ASSUME NEW p \in Posts, SendLockSecond(p) PROVE CallInv'
  BY <1>13 DEF TypeOK, CallInv, OwnerLabels, ValidEvent, SendLockSecond
<1>14. ASSUME NEW p \in Posts, SendNoReceivers(p) PROVE CallInv'
  BY <1>14 DEF TypeOK, CallInv, OwnerLabels, ValidEvent, SendNoReceivers
<1>15. ASSUME NEW p \in Posts, NEW r \in Receivers, SpawnCallback(p, r)
       PROVE  CallInv'
  BY <1>15 DEF TypeOK, CallInv, OwnerLabels, ValidEvent, SpawnCallback
<1>16. ASSUME NEW p \in Posts, SendUnlock(p) PROVE CallInv'
  BY <1>16 DEF TypeOK, CallInv, OwnerLabels, ValidEvent, SendUnlock
<1>17. ASSUME NEW p \in Posts, NEW r \in Receivers, CallbackReturn(p, r)
       PROVE  CallInv'
  BY <1>17 DEF TypeOK, CallInv, OwnerLabels, ValidEvent, CallbackReturn
<1>18. ASSUME NEW p \in Posts, SendReturn(p) PROVE CallInv'
  BY <1>18 DEF TypeOK, CallInv, OwnerLabels, ValidEvent, SendReturn
<1>19. CASE UNCHANGED vars
  BY <1>19 DEF TypeOK, CallInv, OwnerLabels, ValidEvent, vars
<1> QED
  BY <1>1, <1>2, <1>3, <1>4, <1>5, <1>6, <1>7, <1>8, <1>9, <1>10, <1>11,
     <1>12, <1>13, <1>14, <1>15, <1>16, <1>17, <1>18, <1>19 DEF Next,
     OwnerStart, OwnerFinish, SendStart, SendStep, Callback

\* Only a new event is pushed, and what is popped was pushed once.
LEMMA QueueStep ==
  TypeOK /\ QueueInv /\ [Next]_vars => QueueInv'
<1> SUFFICES ASSUME TypeOK, QueueInv, [Next]_vars PROVE QueueInv'
  OBVIOUS
<1> USE DEF registryVars, mutexVars, sendVars, ownerVars
<1>1. ASSUME NEW r \in Receivers, AddReceiver(r) PROVE QueueInv'
  BY <1>1 DEF TypeOK, QueueInv, EnterSendSync, AddReceiver
<1>2. ASSUME NEW r \in Receivers,
             NEW e \in EventIds \cup {EVENT_ID_INVALID}, Subscribe(r, e)
      PROVE  QueueInv'
  BY <1>2 DEF TypeOK, QueueInv, EnterSendSync, Subscribe, AddEvent
<1>3. ASSUME NEW r \in Receivers,
             NEW e \in EventIds \cup {EVENT_ID_INVALID}, Unsubscribe(r, e)
      PROVE  QueueInv'
  BY <1>3 DEF TypeOK, QueueInv, EnterSendSync, Unsubscribe, RemoveEvent
<1>4. ASSUME NEW r \in Receivers, RemoveReceiver(r) PROVE QueueInv'
  BY <1>4 DEF TypeOK, QueueInv, EnterSendSync, RemoveReceiver
<1>5. ASSUME NEW r \in Receivers, SubscribeMap(r) PROVE QueueInv'
  BY <1>5 DEF TypeOK, QueueInv, EnterSendSync, SubscribeMap
<1>6. ASSUME NEW r \in Receivers, UnsubscribeMap(r) PROVE QueueInv'
  BY <1>6 DEF TypeOK, QueueInv, EnterSendSync, UnsubscribeMap
<1>7. ASSUME NEW r \in Receivers, RemoveReceiverErase(r) PROVE QueueInv'
  BY <1>7 DEF TypeOK, QueueInv, EnterSendSync, RemoveReceiverErase, GetEvents
<1>8. ASSUME NEW p \in Posts, SendSync(p) PROVE QueueInv'
  BY <1>8 DEF TypeOK, QueueInv, EnterSendSync, SendSync
<1>9. ASSUME NEW p \in Posts, SendAsync(p) PROVE QueueInv'
  BY <1>9 DEF TypeOK, QueueInv, EnterSendSync, SendAsync
<1>10. CASE CyclicPop
  BY <1>10 DEF TypeOK, QueueInv, EnterSendSync, CyclicPop
<1>11. ASSUME NEW p \in Posts, CyclicEmit(p) PROVE QueueInv'
  BY <1>11 DEF TypeOK, QueueInv, EnterSendSync, CyclicEmit
<1>12. ASSUME NEW p \in Posts, SendLockFirst(p) PROVE QueueInv'
  BY <1>12 DEF TypeOK, QueueInv, EnterSendSync, SendLockFirst
<1>13. ASSUME NEW p \in Posts, SendLockSecond(p) PROVE QueueInv'
  BY <1>13 DEF TypeOK, QueueInv, EnterSendSync, SendLockSecond
<1>14. ASSUME NEW p \in Posts, SendNoReceivers(p) PROVE QueueInv'
  BY <1>14 DEF TypeOK, QueueInv, EnterSendSync, SendNoReceivers
<1>15. ASSUME NEW p \in Posts, NEW r \in Receivers, SpawnCallback(p, r)
       PROVE  QueueInv'
  BY <1>15 DEF TypeOK, QueueInv, EnterSendSync, SpawnCallback
<1>16. ASSUME NEW p \in Posts, SendUnlock(p) PROVE QueueInv'
  BY <1>16 DEF TypeOK, QueueInv, EnterSendSync, SendUnlock
<1>17. ASSUME NEW p \in Posts, NEW r \in Receivers, CallbackReturn(p, r)
       PROVE  QueueInv'
  BY <1>17 DEF TypeOK, QueueInv, EnterSendSync, CallbackReturn
<1>18. ASSUME NEW p \in Posts, SendReturn(p) PROVE QueueInv'
  BY <1>18 DEF TypeOK, QueueInv, EnterSendSync, SendReturn
<1>19. CASE UNCHANGED vars
  BY <1>19 DEF TypeOK, QueueInv, EnterSendSync, vars
<1> QED
  BY <1>1, <1>2, <1>3, <1>4, <1>5, <1>6, <1>7, <1>8, <1>9, <1>10, <1>11,
     <1>12, <1>13, <1>14, <1>15, <1>16, <1>17, <1>18, <1>19 DEF Next,
     OwnerStart, OwnerFinish, SendStart, SendStep, Callback

\* Who holds a mutex follows from where the threads are.
LEMMA MutexStep ==
  TypeOK /\ QueueInv /\ MutexInv /\ [Next]_vars => MutexInv'
<1> SUFFICES ASSUME TypeOK, QueueInv, MutexInv, [Next]_vars PROVE MutexInv'
  OBVIOUS
<1> USE DEF registryVars, mutexVars, sendVars, ownerVars
<1>1. ASSUME NEW r \in Receivers, AddReceiver(r) PROVE MutexInv'
  BY <1>1
     DEF TypeOK, MutexInv, EnterSendSync, Mutexes, SendMutex, FreeToShare,
         FreeToExclude, AddReceiver
<1>2. ASSUME NEW r \in Receivers,
             NEW e \in EventIds \cup {EVENT_ID_INVALID}, Subscribe(r, e)
      PROVE  MutexInv'
  BY <1>2
     DEF TypeOK, MutexInv, EnterSendSync, Mutexes, SendMutex, FreeToShare,
         FreeToExclude, Subscribe, AddEvent
<1>3. ASSUME NEW r \in Receivers,
             NEW e \in EventIds \cup {EVENT_ID_INVALID}, Unsubscribe(r, e)
      PROVE  MutexInv'
  BY <1>3
     DEF TypeOK, MutexInv, EnterSendSync, Mutexes, SendMutex, FreeToShare,
         FreeToExclude, Unsubscribe, RemoveEvent
<1>4. ASSUME NEW r \in Receivers, RemoveReceiver(r) PROVE MutexInv'
  BY <1>4
     DEF TypeOK, MutexInv, EnterSendSync, Mutexes, SendMutex, FreeToShare,
         FreeToExclude, RemoveReceiver
<1>5. ASSUME NEW r \in Receivers, SubscribeMap(r) PROVE MutexInv'
  BY <1>5
     DEF TypeOK, MutexInv, EnterSendSync, Mutexes, SendMutex, FreeToShare,
         FreeToExclude, SubscribeMap
<1>6. ASSUME NEW r \in Receivers, UnsubscribeMap(r) PROVE MutexInv'
  BY <1>6
     DEF TypeOK, MutexInv, EnterSendSync, Mutexes, SendMutex, FreeToShare,
         FreeToExclude, UnsubscribeMap
<1>7. ASSUME NEW r \in Receivers, RemoveReceiverErase(r) PROVE MutexInv'
  BY <1>7
     DEF TypeOK, MutexInv, EnterSendSync, Mutexes, SendMutex, FreeToShare,
         FreeToExclude, RemoveReceiverErase, GetEvents
<1>8. ASSUME NEW p \in Posts, SendSync(p) PROVE MutexInv'
  BY <1>8
     DEF TypeOK, MutexInv, EnterSendSync, Mutexes, SendMutex, FreeToShare,
         FreeToExclude, SendSync
<1>9. ASSUME NEW p \in Posts, SendAsync(p) PROVE MutexInv'
  BY <1>9
     DEF TypeOK, MutexInv, EnterSendSync, Mutexes, SendMutex, FreeToShare,
         FreeToExclude, SendAsync
<1>10. CASE CyclicPop
  <2>1. /\ Head(event_async_queue) \in Posts
        /\ pc[Head(event_async_queue)] = "queued"
    BY <1>10 DEF TypeOK, QueueInv, CyclicPop
  <2> QED
    BY <1>10, <2>1 DEF TypeOK, MutexInv, CyclicPop
<1>11. ASSUME NEW p \in Posts, CyclicEmit(p) PROVE MutexInv'
  BY <1>11
     DEF TypeOK, MutexInv, EnterSendSync, Mutexes, SendMutex, FreeToShare,
         FreeToExclude, CyclicEmit
<1>12. ASSUME NEW p \in Posts, SendLockFirst(p) PROVE MutexInv'
  BY <1>12
     DEF TypeOK, MutexInv, EnterSendSync, Mutexes, SendMutex, FreeToShare,
         FreeToExclude, SendLockFirst
<1>13. ASSUME NEW p \in Posts, SendLockSecond(p) PROVE MutexInv'
  BY <1>13
     DEF TypeOK, MutexInv, EnterSendSync, Mutexes, SendMutex, FreeToShare,
         FreeToExclude, SendLockSecond
<1>14. ASSUME NEW p \in Posts, SendNoReceivers(p) PROVE MutexInv'
  BY <1>14
     DEF TypeOK, MutexInv, EnterSendSync, Mutexes, SendMutex, FreeToShare,
         FreeToExclude, SendNoReceivers
<1>15. ASSUME NEW p \in Posts, NEW r \in Receivers, SpawnCallback(p, r)
       PROVE  MutexInv'
  BY <1>15
     DEF TypeOK, MutexInv, EnterSendSync, Mutexes, SendMutex, FreeToShare,
         FreeToExclude, SpawnCallback
<1>16. ASSUME NEW p \in Posts, SendUnlock(p) PROVE MutexInv'
  BY <1>16
     DEF TypeOK, MutexInv, EnterSendSync, Mutexes, SendMutex, FreeToShare,
         FreeToExclude, SendUnlock
<1>17. ASSUME NEW p \in Posts, NEW r \in Receivers, CallbackReturn(p, r)
       PROVE  MutexInv'
  BY <1>17
     DEF TypeOK, MutexInv, EnterSendSync, Mutexes, SendMutex, FreeToShare,
         FreeToExclude, CallbackReturn
<1>18. ASSUME NEW p \in Posts, SendReturn(p) PROVE MutexInv'
  BY <1>18
     DEF TypeOK, MutexInv, EnterSendSync, Mutexes, SendMutex, FreeToShare,
         FreeToExclude, SendReturn
<1>19. CASE UNCHANGED vars
  BY <1>19
     DEF TypeOK, MutexInv, EnterSendSync, Mutexes, SendMutex, FreeToShare,
         FreeToExclude, vars
<1> QED
  BY <1>1, <1>2, <1>3, <1>4, <1>5, <1>6, <1>7, <1>8, <1>9, <1>10, <1>11,
     <1>12, <1>13, <1>14, <1>15, <1>16, <1>17, <1>18, <1>19 DEF Next,
     OwnerStart, OwnerFinish, SendStart, SendStep, Callback

\* The map changes last in Subscribe, and in RemoveReceiver together with
\* the registry.
LEMMA RegistryStep ==
  TypeOK /\ CallInv /\ RegistryInv /\ [Next]_vars => RegistryInv'
<1> SUFFICES ASSUME TypeOK, CallInv, RegistryInv, [Next]_vars
             PROVE  RegistryInv'
  OBVIOUS
<1> USE DEF registryVars, mutexVars, sendVars, ownerVars
<1>1. ASSUME NEW r \in Receivers, AddReceiver(r) PROVE RegistryInv'
  BY <1>1 DEF TypeOK, RegistryInv, AddReceiver
<1>2. ASSUME NEW r \in Receivers,
             NEW e \in EventIds \cup {EVENT_ID_INVALID}, Subscribe(r, e)
      PROVE  RegistryInv'
  BY <1>2 DEF TypeOK, RegistryInv, Subscribe, AddEvent
<1>3. ASSUME NEW r \in Receivers,
             NEW e \in EventIds \cup {EVENT_ID_INVALID}, Unsubscribe(r, e)
      PROVE  RegistryInv'
  BY <1>3 DEF TypeOK, RegistryInv, Unsubscribe, RemoveEvent
<1>4. ASSUME NEW r \in Receivers, RemoveReceiver(r) PROVE RegistryInv'
  BY <1>4 DEF TypeOK, RegistryInv, RemoveReceiver
<1>5. ASSUME NEW r \in Receivers, SubscribeMap(r) PROVE RegistryInv'
  BY <1>5, WithEntryEntry DEF TypeOK, CallInv, RegistryInv, SubscribeMap
<1>6. ASSUME NEW r \in Receivers, UnsubscribeMap(r) PROVE RegistryInv'
  BY <1>6, EraseEntry DEF TypeOK, CallInv, RegistryInv, UnsubscribeMap
<1>7. ASSUME NEW r \in Receivers, RemoveReceiverErase(r) PROVE RegistryInv'
  BY <1>7, EraseAllEntry
     DEF TypeOK, RegistryInv, RemoveReceiverErase, GetEvents
<1>8. ASSUME NEW p \in Posts, SendSync(p) PROVE RegistryInv'
  BY <1>8 DEF TypeOK, RegistryInv, SendSync
<1>9. ASSUME NEW p \in Posts, SendAsync(p) PROVE RegistryInv'
  BY <1>9 DEF TypeOK, RegistryInv, SendAsync
<1>10. CASE CyclicPop
  BY <1>10 DEF TypeOK, RegistryInv, CyclicPop
<1>11. ASSUME NEW p \in Posts, CyclicEmit(p) PROVE RegistryInv'
  BY <1>11 DEF TypeOK, RegistryInv, CyclicEmit
<1>12. ASSUME NEW p \in Posts, SendLockFirst(p) PROVE RegistryInv'
  BY <1>12 DEF TypeOK, RegistryInv, SendLockFirst
<1>13. ASSUME NEW p \in Posts, SendLockSecond(p) PROVE RegistryInv'
  BY <1>13 DEF TypeOK, RegistryInv, SendLockSecond
<1>14. ASSUME NEW p \in Posts, SendNoReceivers(p) PROVE RegistryInv'
  BY <1>14 DEF TypeOK, RegistryInv, SendNoReceivers
<1>15. ASSUME NEW p \in Posts, NEW r \in Receivers, SpawnCallback(p, r)
       PROVE  RegistryInv'
  BY <1>15 DEF TypeOK, RegistryInv, SpawnCallback
<1>16. ASSUME NEW p \in Posts, SendUnlock(p) PROVE RegistryInv'
  BY <1>16 DEF TypeOK, RegistryInv, SendUnlock
<1>17. ASSUME NEW p \in Posts, NEW r \in Receivers, CallbackReturn(p, r)
       PROVE  RegistryInv'
  BY <1>17 DEF TypeOK, RegistryInv, CallbackReturn
<1>18. ASSUME NEW p \in Posts, SendReturn(p) PROVE RegistryInv'
  BY <1>18 DEF TypeOK, RegistryInv, SendReturn
<1>19. CASE UNCHANGED vars
  BY <1>19 DEF TypeOK, RegistryInv, vars
<1> QED
  BY <1>1, <1>2, <1>3, <1>4, <1>5, <1>6, <1>7, <1>8, <1>9, <1>10, <1>11,
     <1>12, <1>13, <1>14, <1>15, <1>16, <1>17, <1>18, <1>19 DEF Next,
     OwnerStart, OwnerFinish, SendStart, SendStep, Callback

\* RemoveReceiver erases a receiver only while no send holds the first mutex.
LEMMA DanglingStep ==
  TypeOK /\ QueueInv /\ MutexInv /\ RegistryInv /\ NoDanglingReceiver
    /\ [Next]_vars => NoDanglingReceiver'
<1> SUFFICES ASSUME TypeOK, QueueInv, MutexInv, RegistryInv,
                    NoDanglingReceiver, [Next]_vars
             PROVE  NoDanglingReceiver'
  OBVIOUS
<1> USE DEF registryVars, mutexVars, sendVars, ownerVars
<1>1. ASSUME NEW r \in Receivers, AddReceiver(r) PROVE NoDanglingReceiver'
  BY <1>1 DEF TypeOK, NoDanglingReceiver, EnterSendSync, AddReceiver
<1>2. ASSUME NEW r \in Receivers,
             NEW e \in EventIds \cup {EVENT_ID_INVALID}, Subscribe(r, e)
      PROVE  NoDanglingReceiver'
  BY <1>2 DEF TypeOK, NoDanglingReceiver, EnterSendSync, Subscribe, AddEvent
<1>3. ASSUME NEW r \in Receivers,
             NEW e \in EventIds \cup {EVENT_ID_INVALID}, Unsubscribe(r, e)
      PROVE  NoDanglingReceiver'
  BY <1>3 DEF TypeOK, NoDanglingReceiver, EnterSendSync, Unsubscribe,
         RemoveEvent
<1>4. ASSUME NEW r \in Receivers, RemoveReceiver(r) PROVE NoDanglingReceiver'
  BY <1>4 DEF TypeOK, NoDanglingReceiver, EnterSendSync, RemoveReceiver
<1>5. ASSUME NEW r \in Receivers, SubscribeMap(r) PROVE NoDanglingReceiver'
  BY <1>5 DEF TypeOK, NoDanglingReceiver, EnterSendSync, SubscribeMap
<1>6. ASSUME NEW r \in Receivers, UnsubscribeMap(r) PROVE NoDanglingReceiver'
  BY <1>6 DEF TypeOK, NoDanglingReceiver, EnterSendSync, UnsubscribeMap
<1>7. ASSUME NEW r \in Receivers, RemoveReceiverErase(r)
      PROVE  NoDanglingReceiver'
  BY <1>7 DEF TypeOK, MutexInv, NoDanglingReceiver, RemoveReceiverErase,
         GetEvents
<1>8. ASSUME NEW p \in Posts, SendSync(p) PROVE NoDanglingReceiver'
  BY <1>8 DEF TypeOK, NoDanglingReceiver, EnterSendSync, SendSync
<1>9. ASSUME NEW p \in Posts, SendAsync(p) PROVE NoDanglingReceiver'
  BY <1>9 DEF TypeOK, NoDanglingReceiver, EnterSendSync, SendAsync
<1>10. CASE CyclicPop
  BY <1>10 DEF TypeOK, NoDanglingReceiver, EnterSendSync, CyclicPop
<1>11. ASSUME NEW p \in Posts, CyclicEmit(p) PROVE NoDanglingReceiver'
  BY <1>11 DEF TypeOK, NoDanglingReceiver, EnterSendSync, CyclicEmit
<1>12. ASSUME NEW p \in Posts, SendLockFirst(p) PROVE NoDanglingReceiver'
  BY <1>12 DEF TypeOK, NoDanglingReceiver, EnterSendSync, SendLockFirst
<1>13. ASSUME NEW p \in Posts, SendLockSecond(p) PROVE NoDanglingReceiver'
  <2>1. EventOf[p] \in EventIds
    BY <1>13 DEF TypeOK, SendLockSecond
  <2>2. event_to_receivers_map[EventOf[p]] \subseteq event_receivers
    BY <1>13, <2>1 DEF RegistryInv, Entry, SendLockSecond
  <2> QED
    BY <1>13, <2>2 DEF TypeOK, NoDanglingReceiver, SendLockSecond
<1>14. ASSUME NEW p \in Posts, SendNoReceivers(p) PROVE NoDanglingReceiver'
  BY <1>14 DEF TypeOK, NoDanglingReceiver, EnterSendSync, SendNoReceivers
<1>15. ASSUME NEW p \in Posts, NEW r \in Receivers, SpawnCallback(p, r)
       PROVE  NoDanglingReceiver'
  BY <1>15 DEF TypeOK, NoDanglingReceiver, EnterSendSync, SpawnCallback
<1>16. ASSUME NEW p \in Posts, SendUnlock(p) PROVE NoDanglingReceiver'
  BY <1>16 DEF TypeOK, NoDanglingReceiver, EnterSendSync, SendUnlock
<1>17. ASSUME NEW p \in Posts, NEW r \in Receivers, CallbackReturn(p, r)
       PROVE  NoDanglingReceiver'
  BY <1>17 DEF TypeOK, NoDanglingReceiver, EnterSendSync, CallbackReturn
<1>18. ASSUME NEW p \in Posts, SendReturn(p) PROVE NoDanglingReceiver'
  BY <1>18 DEF TypeOK, NoDanglingReceiver, EnterSendSync, SendReturn
<1>19. CASE UNCHANGED vars
  BY <1>19 DEF TypeOK, NoDanglingReceiver, EnterSendSync, vars
<1> QED
  BY <1>1, <1>2, <1>3, <1>4, <1>5, <1>6, <1>7, <1>8, <1>9, <1>10, <1>11,
     <1>12, <1>13, <1>14, <1>15, <1>16, <1>17, <1>18, <1>19 DEF Next,
     OwnerStart, OwnerFinish, SendStart, SendStep, Callback

\* A receiver is reached, runs and has run, in that order and once.
LEMMA DeliveryStep ==
  TypeOK /\ QueueInv /\ DeliveryInv /\ [Next]_vars => DeliveryInv'
<1> SUFFICES ASSUME TypeOK, QueueInv, DeliveryInv, [Next]_vars
             PROVE  DeliveryInv'
  OBVIOUS
<1> USE DEF registryVars, mutexVars, sendVars, ownerVars
<1>1. ASSUME NEW r \in Receivers, AddReceiver(r) PROVE DeliveryInv'
  BY <1>1, EventBusAssumption
     DEF TypeOK, DeliveryInv, EnterSendSync, Returned, SendLabels, AddReceiver
<1>2. ASSUME NEW r \in Receivers,
             NEW e \in EventIds \cup {EVENT_ID_INVALID}, Subscribe(r, e)
      PROVE  DeliveryInv'
  BY <1>2, EventBusAssumption
     DEF TypeOK, DeliveryInv, EnterSendSync, Returned, SendLabels, Subscribe,
            AddEvent
<1>3. ASSUME NEW r \in Receivers,
             NEW e \in EventIds \cup {EVENT_ID_INVALID}, Unsubscribe(r, e)
      PROVE  DeliveryInv'
  BY <1>3, EventBusAssumption
     DEF TypeOK, DeliveryInv, EnterSendSync, Returned, SendLabels,
            Unsubscribe, RemoveEvent
<1>4. ASSUME NEW r \in Receivers, RemoveReceiver(r) PROVE DeliveryInv'
  BY <1>4, EventBusAssumption
     DEF TypeOK, DeliveryInv, EnterSendSync, Returned, SendLabels,
         RemoveReceiver
<1>5. ASSUME NEW r \in Receivers, SubscribeMap(r) PROVE DeliveryInv'
  BY <1>5, EventBusAssumption
     DEF TypeOK, DeliveryInv, EnterSendSync, Returned, SendLabels, SubscribeMap
<1>6. ASSUME NEW r \in Receivers, UnsubscribeMap(r) PROVE DeliveryInv'
  BY <1>6, EventBusAssumption
     DEF TypeOK, DeliveryInv, EnterSendSync, Returned, SendLabels,
         UnsubscribeMap
<1>7. ASSUME NEW r \in Receivers, RemoveReceiverErase(r) PROVE DeliveryInv'
  BY <1>7, EventBusAssumption
     DEF TypeOK, DeliveryInv, EnterSendSync, Returned, SendLabels,
         RemoveReceiverErase, GetEvents
<1>8. ASSUME NEW p \in Posts, SendSync(p) PROVE DeliveryInv'
  BY <1>8, EventBusAssumption
     DEF TypeOK, DeliveryInv, EnterSendSync, Returned, SendLabels, SendSync
<1>9. ASSUME NEW p \in Posts, SendAsync(p) PROVE DeliveryInv'
  BY <1>9, EventBusAssumption
     DEF TypeOK, DeliveryInv, EnterSendSync, Returned, SendLabels, SendAsync
<1>10. CASE CyclicPop
  <2>1. /\ Head(event_async_queue) \in Posts
        /\ pc[Head(event_async_queue)] = "queued"
    BY <1>10 DEF TypeOK, QueueInv, CyclicPop
  <2> QED
    BY <1>10, <2>1 DEF TypeOK, DeliveryInv, Returned, CyclicPop
<1>11. ASSUME NEW p \in Posts, CyclicEmit(p) PROVE DeliveryInv'
  BY <1>11, EventBusAssumption
     DEF TypeOK, DeliveryInv, EnterSendSync, Returned, SendLabels, CyclicEmit
<1>12. ASSUME NEW p \in Posts, SendLockFirst(p) PROVE DeliveryInv'
  BY <1>12, EventBusAssumption
     DEF TypeOK, DeliveryInv, EnterSendSync, Returned, SendLabels,
         SendLockFirst
<1>13. ASSUME NEW p \in Posts, SendLockSecond(p) PROVE DeliveryInv'
  BY <1>13, EventBusAssumption
     DEF TypeOK, DeliveryInv, EnterSendSync, Returned, SendLabels,
         SendLockSecond
<1>14. ASSUME NEW p \in Posts, SendNoReceivers(p) PROVE DeliveryInv'
  BY <1>14, EventBusAssumption
     DEF TypeOK, DeliveryInv, EnterSendSync, Returned, SendLabels,
         SendNoReceivers
<1>15. ASSUME NEW p \in Posts, NEW r \in Receivers, SpawnCallback(p, r)
       PROVE  DeliveryInv'
  BY <1>15, EventBusAssumption
     DEF TypeOK, DeliveryInv, EnterSendSync, Returned, SendLabels,
         SpawnCallback
<1>16. ASSUME NEW p \in Posts, SendUnlock(p) PROVE DeliveryInv'
  BY <1>16, EventBusAssumption
     DEF TypeOK, DeliveryInv, EnterSendSync, Returned, SendLabels, SendUnlock
<1>17. ASSUME NEW p \in Posts, NEW r \in Receivers, CallbackReturn(p, r)
       PROVE  DeliveryInv'
  BY <1>17, EventBusAssumption
     DEF TypeOK, DeliveryInv, EnterSendSync, Returned, SendLabels,
         CallbackReturn
<1>18. ASSUME NEW p \in Posts, SendReturn(p) PROVE DeliveryInv'
  BY <1>18, EventBusAssumption
     DEF TypeOK, DeliveryInv, EnterSendSync, Returned, SendLabels, SendReturn
<1>19. CASE UNCHANGED vars
  BY <1>19 DEF TypeOK, DeliveryInv, EnterSendSync, Returned, SendLabels, vars
<1> QED
  BY <1>1, <1>2, <1>3, <1>4, <1>5, <1>6, <1>7, <1>8, <1>9, <1>10, <1>11,
     <1>12, <1>13, <1>14, <1>15, <1>16, <1>17, <1>18, <1>19 DEF Next,
     OwnerStart, OwnerFinish, SendStart, SendStep, Callback

-----------------------------------------------------------------------------
(* The invariants.                                                         *)

\* The inductive invariant holds at the start ...
LEMMA IInvInit == Init => IInv
<1> SUFFICES ASSUME Init PROVE IInv
  OBVIOUS
<1>1. CallInv /\ MutexInv
  BY DEF Init, CallInv, MutexInv, Mutexes
<1>2. QueueInv
  BY DEF Init, QueueInv
<1>3. RegistryInv
  BY DEF Init, RegistryInv, Entry
<1>4. DeliveryInv /\ NoDanglingReceiver
  BY DEF Init, DeliveryInv, NoDanglingReceiver
<1> QED
  BY TypeInit, <1>1, <1>2, <1>3, <1>4 DEF IInv

\* ... every step keeps it ...
LEMMA IInvStep == IInv /\ [Next]_vars => IInv'
BY TypeStep, CallStep, QueueStep, MutexStep, RegistryStep, DanglingStep,
   DeliveryStep DEF IInv

\* ... and so it always holds.
LEMMA Inductive == Spec => []IInv
BY IInvInit, IInvStep, PTL DEF Spec

\* The state of the bus keeps its shape, and the map never has an entry for
\* an id outside the enumeration.
THEOREM TypeCorrect == Spec => []TypeOK
<1>1. IInv => TypeOK
  BY DEF IInv
<1> QED
  BY <1>1, Inductive, PTL

\* event_bus.cpp:137 never dereferences a receiver that is not registered,
\* however many components register, subscribe, unsubscribe and remove
\* themselves while events are sent.
THEOREM NoDangling == Spec => []NoDanglingReceiver
<1>1. IInv => NoDanglingReceiver
  BY DEF IInv
<1> QED
  BY <1>1, Inductive, PTL

\* Whoever the map names is registered and has the event in its own set, or
\* is inside of Unsubscribe: RemoveReceiver leaves no entry behind.
THEOREM MapRegistered == Spec => []MapWithinRegistry
<1>1. IInv => MapWithinRegistry
  <2> SUFFICES ASSUME IInv,
                      NEW e \in DOMAIN event_to_receivers_map,
                      NEW r \in event_to_receivers_map[e]
               PROVE  /\ r \in event_receivers
                      /\ \/ e \in events[r]
                         \/ opc[r] = "unsubscribe" /\ oarg[r] = e
    BY DEF MapWithinRegistry
  <2>1. e \in EventIds
    BY DEF IInv, TypeOK
  <2>2. r \in Entry(event_to_receivers_map, e)
    BY DEF Entry
  <2> QED
    BY <2>1, <2>2 DEF IInv, RegistryInv
<1> QED
  BY <1>1, Inductive, PTL

\* Among any threads some thread waits for none of the others.  Threads are
\* looked for in the order in which they hold mutexes: one that has both
\* waits for nobody, an owner in its second section only for those, a send
\* that has the first mutex only for those and the owners, and so on.
LEMMA MutexesOrdered == TypeOK /\ MutexInv => NoWaitCycle
<1> SUFFICES ASSUME TypeOK, MutexInv,
                    NEW T \in SUBSET (Posts \cup Receivers), T # {}
             PROVE  \E t \in T : \A u \in T \ {t} : ~BlockedBy(t, u)
  BY DEF NoWaitCycle
<1> DEFINE R == "mtx_event_receivers"
           M == "mtx_event_to_receivers_map"
<1>1. \A t \in Posts : t \notin Receivers
  BY EventBusAssumption
<1>2. \A t : /\ R \in WantsToShare(t) <=> t \in Posts /\ pc[t] = "lock_first"
             /\ M \in WantsToShare(t) <=> t \in Posts /\ pc[t] = "lock_second"
             /\ R \in WantsToExclude(t) <=> t \in Receivers /\ opc[t] = "idle"
             /\ M \in WantsToExclude(t) <=> t \in Receivers /\ opc[t] # "idle"
             /\ WantsToShare(t) \cup WantsToExclude(t) \subseteq {R, M}
  BY DEF WantsToShare, WantsToExclude, SendMutex, Mutexes
<1> HIDE DEF R, M
<1>3. R # M
  BY DEF R, M
<1>4. /\ exclusive[M] = {}
      /\ \A u : u \in shared[M] <=> u \in Posts /\ pc[u] = "spawning"
      /\ \A u : u \in shared[R] <=>
                  u \in Posts /\ pc[u] \in {"lock_second", "spawning"}
      /\ \A u : u \in exclusive[R] <=> u \in Receivers /\ opc[u] = "remove"
  BY DEF MutexInv, R, M
<1>5. CASE \E t \in T : t \in Posts /\ pc[t] = "spawning"
  BY <1>1, <1>2, <1>5 DEF BlockedBy
<1>6. CASE /\ ~ \E t \in T : t \in Posts /\ pc[t] = "spawning"
           /\ \E t \in T : t \in Receivers /\ opc[t] # "idle"
  BY <1>1, <1>2, <1>3, <1>4, <1>6 DEF BlockedBy
<1>7. CASE /\ ~ \E t \in T : t \in Receivers /\ opc[t] # "idle"
           /\ \E t \in T : t \in Posts /\ pc[t] = "lock_second"
  BY <1>1, <1>2, <1>3, <1>4, <1>7 DEF BlockedBy
<1>8. CASE /\ ~ \E t \in T :
                  t \in Posts /\ pc[t] \in {"lock_second", "spawning"}
           /\ ~ \E t \in T : t \in Receivers /\ opc[t] # "idle"
           /\ \E t \in T : t \in Receivers
  <2>1. PICK t \in T : t \in Receivers /\ opc[t] = "idle"
    BY <1>8
  <2>2. ASSUME NEW u \in T \ {t} PROVE ~BlockedBy(t, u)
    BY <1>1, <1>2, <1>3, <1>4, <1>8, <2>1 DEF BlockedBy
  <2> QED
    BY <2>2
<1>9. CASE \A t \in T : t \in Posts /\ pc[t] \notin {"lock_second", "spawning"}
  BY <1>1, <1>2, <1>3, <1>4, <1>9 DEF BlockedBy
<1> QED
  BY <1>5, <1>6, <1>7, <1>8, <1>9

\* No deadlock on the two mutexes of the bus, for any number of threads.
THEOREM DeadlockFree == Spec => []NoWaitCycle
<1>1. IInv => TypeOK /\ MutexInv
  BY DEF IInv
<1> QED
  BY <1>1, MutexesOrdered, Inductive, PTL

-----------------------------------------------------------------------------
(* The bus implements PubSub.                                              *)

\* Where a thread is, as PubSub sees it.
LEMMA StatusValues ==
  /\ StatusOf("new") = "new"
  /\ \A l \in {"queued", "popped", "lock_first", "lock_second"} :
       StatusOf(l) = "posted"
  /\ \A l \in {"spawning", "joining"} : StatusOf(l) = "delivering"
  /\ \A l \in Returned : StatusOf(l) = "returned"
BY DEF StatusOf, Returned

\* The initial state is one of PubSub.
LEMMA RefineInit == Init => PS!Init
<1> SUFFICES ASSUME Init PROVE PS!Init
  OBVIOUS
<1>1. \A e \in EventIds : Entry(event_to_receivers_map, e) = {}
  BY DEF Init, Entry
<1>2. \A p \in Posts : StatusOf(pc[p]) = "new"
  BY StatusValues DEF Init
<1>3. handled = [p \in Posts |-> {}]
  BY DEF Init
<1>4. \A p \in Posts : todo[p] \cup running[p] = {}
  BY DEF Init
<1> QED
  BY <1>1, <1>2, <1>3, <1>4 DEF PS!Init

\* Every step is a step of PubSub or changes nothing that PubSub sees.
LEMMA RefineStep ==
  IInv /\ [Next]_vars => [PS!Next]_(PS!vars)
<1> SUFFICES ASSUME IInv, [Next]_vars PROVE [PS!Next]_(PS!vars)
  OBVIOUS
<1> USE DEF registryVars, mutexVars, sendVars, ownerVars
<1>1. ASSUME NEW r \in Receivers, AddReceiver(r) PROVE [PS!Next]_(PS!vars)
  BY <1>1 DEF PS!vars, AddReceiver
<1>2. ASSUME NEW r \in Receivers,
             NEW e \in EventIds \cup {EVENT_ID_INVALID}, Subscribe(r, e)
      PROVE  [PS!Next]_(PS!vars)
  BY <1>2 DEF PS!vars, Subscribe, AddEvent
<1>3. ASSUME NEW r \in Receivers,
             NEW e \in EventIds \cup {EVENT_ID_INVALID}, Unsubscribe(r, e)
      PROVE  [PS!Next]_(PS!vars)
  BY <1>3 DEF PS!vars, Unsubscribe, RemoveEvent
<1>4. ASSUME NEW r \in Receivers, RemoveReceiver(r) PROVE [PS!Next]_(PS!vars)
  BY <1>4 DEF PS!vars, RemoveReceiver
<1>5. ASSUME NEW r \in Receivers, SubscribeMap(r) PROVE [PS!Next]_(PS!vars)
  <2>1. \A x \in EventIds :
          Entry(event_to_receivers_map', x) =
            IF x = oarg[r] THEN Entry(event_to_receivers_map, x) \cup {r}
            ELSE Entry(event_to_receivers_map, x)
    BY <1>5, WithEntryEntry DEF SubscribeMap
  <2>2. PS!Subscribe(r, oarg[r])
    BY <1>5, <2>1 DEF SubscribeMap, PS!Subscribe, sendVars
  <2> QED
    BY <1>5, <2>2 DEF PS!Next, IInv, CallInv, SubscribeMap
<1>6. ASSUME NEW r \in Receivers, UnsubscribeMap(r) PROVE [PS!Next]_(PS!vars)
  <2>1. \A x \in EventIds :
          Entry(event_to_receivers_map', x) =
            IF x = oarg[r] THEN Entry(event_to_receivers_map, x) \ {r}
            ELSE Entry(event_to_receivers_map, x)
    BY <1>6, EraseEntry DEF UnsubscribeMap
  <2>2. PS!Unsubscribe(r, oarg[r])
    BY <1>6, <2>1 DEF UnsubscribeMap, PS!Unsubscribe, sendVars
  <2> QED
    BY <1>6, <2>2 DEF PS!Next, IInv, CallInv, UnsubscribeMap
<1>7. ASSUME NEW r \in Receivers, RemoveReceiverErase(r)
      PROVE  [PS!Next]_(PS!vars)
  <2>1. \A x \in EventIds :
          Entry(event_to_receivers_map', x) =
            Entry(event_to_receivers_map, x) \ {r}
    BY <1>7, EraseAllEntry
       DEF RemoveReceiverErase, GetEvents, IInv, RegistryInv
  <2>2. PS!Withdraw(r)
    BY <1>7, <2>1 DEF RemoveReceiverErase, GetEvents, PS!Withdraw, sendVars
  <2> QED
    BY <1>7, <2>2 DEF PS!Next, IInv, CallInv, RemoveReceiverErase, GetEvents
<1>8. ASSUME NEW p \in Posts, SendSync(p) PROVE [PS!Next]_(PS!vars)
  <2>1. CASE EventOf[p] = EVENT_ID_INVALID
    <3>1. \A q \in Posts :
            StatusOf(pc'[q]) = IF q = p THEN "returned" ELSE StatusOf(pc[q])
      BY <1>8, <2>1, StatusValues, EventBusAssumption
         DEF IInv, TypeOK, SendSync, EnterSendSync, Returned
    <3>2. PS!Reject(p)
      BY <1>8, <2>1, <3>1, StatusValues, EventBusAssumption
         DEF IInv, TypeOK, SendSync, EnterSendSync, Returned, PS!Reject
    <3> QED
      BY <3>2 DEF PS!Next
  <2>2. CASE EventOf[p] # EVENT_ID_INVALID
    <3>1. \A q \in Posts :
            StatusOf(pc'[q]) = IF q = p THEN "posted" ELSE StatusOf(pc[q])
      BY <1>8, <2>2, StatusValues DEF IInv, TypeOK, SendSync, EnterSendSync
    <3>2. PS!Post(p)
      BY <1>8, <2>2, <3>1, StatusValues
         DEF IInv, TypeOK, SendSync, EnterSendSync, PS!Post
    <3> QED
      BY <3>2 DEF PS!Next
  <2> QED
    BY <2>1, <2>2
<1>9. ASSUME NEW p \in Posts, SendAsync(p) PROVE [PS!Next]_(PS!vars)
  <2>1. \A q \in Posts :
          StatusOf(pc'[q]) = IF q = p THEN "posted" ELSE StatusOf(pc[q])
    BY <1>9, StatusValues DEF IInv, TypeOK, SendAsync
  <2>2. PS!Post(p)
    BY <1>9, <2>1, StatusValues DEF IInv, TypeOK, SendAsync, PS!Post
  <2> QED
    BY <2>2 DEF PS!Next
<1>10. CASE CyclicPop
  <2>1. /\ Head(event_async_queue) \in Posts
        /\ pc[Head(event_async_queue)] = "queued"
    BY <1>10 DEF IInv, TypeOK, QueueInv, CyclicPop
  <2>2. \A q \in Posts : StatusOf(pc'[q]) = StatusOf(pc[q])
    BY <1>10, <2>1, StatusValues DEF IInv, TypeOK, CyclicPop
  <2> QED
    BY <1>10, <2>2 DEF CyclicPop, sendVars, PS!vars
<1>11. ASSUME NEW p \in Posts, CyclicEmit(p) PROVE [PS!Next]_(PS!vars)
  <2>1. CASE EventOf[p] = EVENT_ID_INVALID
    <3>1. \A q \in Posts :
            StatusOf(pc'[q]) = IF q = p THEN "returned" ELSE StatusOf(pc[q])
      BY <1>11, <2>1, StatusValues, EventBusAssumption
         DEF IInv, TypeOK, CyclicEmit, EnterSendSync, Returned
    <3>2. PS!Reject(p)
      BY <1>11, <2>1, <3>1, StatusValues, EventBusAssumption
         DEF IInv, TypeOK, CyclicEmit, EnterSendSync, Returned, PS!Reject
    <3> QED
      BY <3>2 DEF PS!Next
  <2>2. CASE EventOf[p] # EVENT_ID_INVALID
    <3>1. \A q \in Posts : StatusOf(pc'[q]) = StatusOf(pc[q])
      BY <1>11, <2>2, StatusValues DEF IInv, TypeOK, CyclicEmit, EnterSendSync
    <3> QED
      BY <1>11, <2>2, <3>1 DEF CyclicEmit, PS!vars
  <2> QED
    BY <2>1, <2>2
<1>12. ASSUME NEW p \in Posts, SendLockFirst(p) PROVE [PS!Next]_(PS!vars)
  <2>1. \A q \in Posts : StatusOf(pc'[q]) = StatusOf(pc[q])
    BY <1>12, StatusValues DEF IInv, TypeOK, SendLockFirst
  <2> QED
    BY <1>12, <2>1 DEF SendLockFirst, PS!vars
<1>13. ASSUME NEW p \in Posts, SendLockSecond(p) PROVE [PS!Next]_(PS!vars)
  <2>1. \A q \in Posts :
          StatusOf(pc'[q]) = IF q = p THEN "delivering" ELSE StatusOf(pc[q])
    BY <1>13, StatusValues DEF IInv, TypeOK, DeliveryInv, SendLockSecond, Entry
  <2>2. PS!Match(p)
    BY <1>13, <2>1, StatusValues
       DEF IInv, TypeOK, DeliveryInv, SendLockSecond, Entry, PS!Match
  <2> QED
    BY <2>2 DEF PS!Next
<1>14. ASSUME NEW p \in Posts, SendNoReceivers(p) PROVE [PS!Next]_(PS!vars)
  <2>1. \A q \in Posts :
          StatusOf(pc'[q]) = IF q = p THEN "returned" ELSE StatusOf(pc[q])
    BY <1>14, StatusValues
       DEF IInv, TypeOK, DeliveryInv, SendNoReceivers, Entry, Returned
  <2>2. PS!Miss(p)
    BY <1>14, <2>1, StatusValues
       DEF IInv, TypeOK, DeliveryInv, SendNoReceivers, Entry, Returned, PS!Miss
  <2> QED
    BY <2>2 DEF PS!Next
<1>15. ASSUME NEW p \in Posts, NEW r \in Receivers, SpawnCallback(p, r)
       PROVE  [PS!Next]_(PS!vars)
  <2>1. \A q \in Posts : todo'[q] \cup running'[q] = todo[q] \cup running[q]
    BY <1>15 DEF IInv, TypeOK, SpawnCallback
  <2> QED
    BY <1>15, <2>1 DEF SpawnCallback, PS!vars
<1>16. ASSUME NEW p \in Posts, SendUnlock(p) PROVE [PS!Next]_(PS!vars)
  <2>1. \A q \in Posts : StatusOf(pc'[q]) = StatusOf(pc[q])
    BY <1>16, StatusValues DEF IInv, TypeOK, SendUnlock
  <2> QED
    BY <1>16, <2>1 DEF SendUnlock, PS!vars
<1>17. ASSUME NEW p \in Posts, NEW r \in Receivers, CallbackReturn(p, r)
       PROVE  [PS!Next]_(PS!vars)
  <2>1. /\ pc[p] \in {"spawning", "joining"}
        /\ r \notin todo[p]
        /\ r \notin handled[p]
    BY <1>17 DEF IInv, DeliveryInv, CallbackReturn
  <2>2. \A q \in Posts :
          todo'[q] \cup running'[q] =
            IF q = p THEN (todo[q] \cup running[q]) \ {r}
                     ELSE todo[q] \cup running[q]
    BY <1>17, <2>1 DEF IInv, TypeOK, CallbackReturn
  <2>3. PS!Handle(p, r)
    BY <1>17, <2>1, <2>2, StatusValues DEF CallbackReturn, PS!Handle
  <2> QED
    BY <2>3 DEF PS!Next
<1>18. ASSUME NEW p \in Posts, SendReturn(p) PROVE [PS!Next]_(PS!vars)
  <2>1. \A q \in Posts :
          StatusOf(pc'[q]) = IF q = p THEN "returned" ELSE StatusOf(pc[q])
    BY <1>18, StatusValues DEF IInv, TypeOK, DeliveryInv, SendReturn, Returned
  <2>2. PS!Return(p)
    BY <1>18, <2>1, StatusValues
       DEF IInv, TypeOK, DeliveryInv, SendReturn, Returned, PS!Return
  <2> QED
    BY <2>2 DEF PS!Next
<1>19. CASE UNCHANGED vars
  BY <1>19 DEF vars, registryVars, sendVars, PS!vars
<1> QED
  BY <1>1, <1>2, <1>3, <1>4, <1>5, <1>6, <1>7, <1>8, <1>9, <1>10, <1>11,
     <1>12, <1>13, <1>14, <1>15, <1>16, <1>17, <1>18, <1>19 DEF Next,
     OwnerStart, OwnerFinish, SendStart, SendStep, Callback

\* The bus, with its two mutexes, its queue, its dispatcher and its threads,
\* keeps the promise of PubSub.
THEOREM BusImplementsPubSub == Spec => ImplementsPubSub
BY RefineInit, RefineStep, Inductive, PTL DEF Spec, ImplementsPubSub, PS!Spec
=============================================================================
