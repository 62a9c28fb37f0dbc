--------------------------- MODULE StartupProofs ---------------------------
(***************************************************************************)
(* Proofs about Startup: that nobody misses an event, and that every id    *)
(* stands for its owner, follows from three facts about the calls of main, *)
(* and from nothing else of it.                                            *)
(***************************************************************************)
EXTENDS Startup, SequenceTheorems, TLAPS

-----------------------------------------------------------------------------
(* The calls of main.                                                      *)

MainCalls ==
  [call : {"AddReceiver", "Subscribe", "run"}, of : Components, id : Nat,
   event : EventIds \cup {"none"}]

Adds(c) == c.call = "AddReceiver"
Subscribes(c) == c.call = "Subscribe"
Runs(c) == c.call = "run"

\* Who subscribes an id to an event wants it, and has added the id before.
Wants(c, e) == \E i \in DOMAIN Subscriptions(c) : Subscriptions(c)[i] = e

SubscribesAfterAdding(p) ==
  \A k \in 1 .. Len(p) : Subscribes(p[k]) =>
    /\ p[k].event \in EventIds
    /\ Wants(p[k].of, p[k].event)
    /\ \E j \in 1 .. k - 1 : /\ Adds(p[j])
                             /\ p[j].id = p[k].id /\ p[j].of = p[k].of

\* No two receivers are added under one id.
AddsOnce(p) ==
  \A j, k \in 1 .. Len(p) :
    Adds(p[j]) /\ Adds(p[k]) /\ p[j].id = p[k].id => j = k

\* Once a component runs, nobody subscribes.
RunsLast(p) ==
  \A j, k \in 1 .. Len(p) : Runs(p[j]) /\ j <= k => Runs(p[k])

InOrder(p) ==
  /\ p \in Seq(MainCalls)
  /\ SubscribesAfterAdding(p) /\ AddsOnce(p) /\ RunsLast(p)

\* Such a sequence that only registers receivers, with ids below n.
Registers(p, n) ==
  /\ InOrder(p)
  /\ \A k \in 1 .. Len(p) : ~ Runs(p[k]) /\ p[k].id < n

\* What a call and a sequence of calls is.
LEMMA CallParts ==
  ASSUME NEW f \in {"AddReceiver", "Subscribe", "run"},
         NEW c \in Components, NEW id \in Nat, NEW e \in EventIds \cup {"none"}
  PROVE  /\ Call(f, c, id, e) \in MainCalls
         /\ Call(f, c, id, e).call = f /\ Call(f, c, id, e).of = c
         /\ Call(f, c, id, e).id = id /\ Call(f, c, id, e).event = e
BY DEF Call, MainCalls

\* Each component subscribes to a sequence of events.
LEMMA SubscriptionsType ==
  ASSUME NEW c \in Components
  PROVE  /\ Subscriptions(c) \in Seq(EventIds)
         /\ Len(Subscriptions(c)) \in Nat
         /\ DOMAIN Subscriptions(c) = 1 .. Len(Subscriptions(c))
<1>1. CASE c = "client_mgr"
  BY <1>1 DEF Subscriptions, EventIds
<1>2. CASE c \in {"logger", "db_manager"}
  BY <1>2 DEF Subscriptions, EventIds
<1>3. CASE c = "ws_server"
  BY <1>3 DEF Subscriptions, EventIds
<1>4. CASE c = "rest_server"
  BY <1>4 DEF Subscriptions, EventIds
<1> QED
  BY <1>1, <1>2, <1>3, <1>4 DEF Components

\* The calls of a constructor.
LEMMA ConstructParts ==
  ASSUME NEW c \in Components, NEW n \in Nat
  PROVE  LET b == Construct(c, n)
             m == Len(Subscriptions(c))
         IN  /\ b \in Seq(MainCalls) /\ Len(b) = m + 1
             /\ b[1] = Call("AddReceiver", c, n, "none")
             /\ \A i \in 2 .. m + 1 :
                  b[i] = Call("Subscribe", c, n, Subscriptions(c)[i - 1])
<1> DEFINE first == <<Call("AddReceiver", c, n, "none")>>
           s == Subscriptions(c)
           rest == [i \in DOMAIN s |-> Call("Subscribe", c, n, s[i])]
<1>1. first \in Seq(MainCalls) /\ Len(first) = 1
      /\ first[1] = Call("AddReceiver", c, n, "none")
  BY CallParts
<1>2. s \in Seq(EventIds) /\ Len(s) \in Nat /\ DOMAIN s = 1 .. Len(s)
  BY SubscriptionsType
<1> HIDE DEF s
<1>3. \A i \in 1 .. Len(s) : Call("Subscribe", c, n, s[i]) \in MainCalls
  BY <1>2, CallParts
<1>4. rest \in [1 .. Len(s) -> MainCalls]
  BY <1>2, <1>3
<1>5. /\ rest \in Seq(MainCalls) /\ Len(rest) = Len(s)
      /\ \A i \in 1 .. Len(s) : rest[i] = Call("Subscribe", c, n, s[i])
  BY <1>2, <1>4
<1>6. Construct(c, n) = first \o rest
  BY DEF Construct, s
<1> HIDE DEF first, rest
<1>7. /\ first \o rest \in Seq(MainCalls)
      /\ Len(first \o rest) = Len(first) + Len(rest)
      /\ \A i \in 1 .. Len(first) + Len(rest) :
           (first \o rest)[i] = IF i <= Len(first) THEN first[i]
                                ELSE rest[i - Len(first)]
  <2>1. first \in Seq(MainCalls) /\ rest \in Seq(MainCalls)
    BY <1>1, <1>5
  <2> QED
    BY <2>1, ConcatProperties, Zenon
<1>8. \A i \in 2 .. Len(s) + 1 :
        (first \o rest)[i] = Call("Subscribe", c, n, s[i - 1])
  BY <1>1, <1>2, <1>5, <1>7
<1> QED
  BY <1>1, <1>2, <1>5, <1>6, <1>7, <1>8 DEF s

\* A constructor with a new id keeps the calls in order.
LEMMA ConstructRegisters ==
  ASSUME NEW p, NEW n \in Nat, NEW c \in Components, Registers(p, n)
  PROVE  Registers(p \o Construct(c, n), n + 1)
<1> DEFINE b == Construct(c, n)
           q == p \o b
           s == Subscriptions(c)
<1>1. /\ b \in Seq(MainCalls) /\ Len(b) = Len(s) + 1
      /\ b[1] = Call("AddReceiver", c, n, "none")
      /\ \A i \in 2 .. Len(s) + 1 : b[i] = Call("Subscribe", c, n, s[i - 1])
  BY ConstructParts
<1>2. s \in Seq(EventIds) /\ Len(s) \in Nat /\ DOMAIN s = 1 .. Len(s)
  BY SubscriptionsType
<1>3. p \in Seq(MainCalls) /\ Len(p) \in Nat
  BY DEF Registers, InOrder
<1> HIDE DEF b, s
<1>4. /\ q \in Seq(MainCalls) /\ Len(q) = Len(p) + Len(b)
      /\ \A i \in 1 .. Len(p) + Len(b) :
           q[i] = IF i <= Len(p) THEN p[i] ELSE b[i - Len(p)]
  BY <1>1, <1>3, ConcatProperties, Zenon
<1> HIDE DEF q
<1> DEFINE h == Len(p) + 1
<1>5. \A k \in 1 .. Len(q) :
        k \in 1 .. Len(p) \/ k = h \/ k \in h + 1 .. Len(q)
  BY <1>3
<1>6. \A k \in 1 .. Len(p) :
        k \in 1 .. Len(q) /\ q[k] = p[k] /\ q[k].id < n /\ ~ Runs(q[k])
          /\ q[k] \in MainCalls
  BY <1>1, <1>2, <1>3, <1>4 DEF Registers
<1>7. /\ h \in 1 .. Len(q)
      /\ Adds(q[h]) /\ ~ Runs(q[h]) /\ ~ Subscribes(q[h])
      /\ q[h].id = n /\ q[h].of = c
  <2>1. h \in 1 .. Len(q) /\ ~ (h <= Len(p)) /\ h - Len(p) = 1
    BY <1>1, <1>2, <1>3, <1>4
  <2>2. q[h] = Call("AddReceiver", c, n, "none")
    BY <1>1, <1>4, <2>1
  <2> QED
    BY <2>1, <2>2, CallParts DEF Adds, Runs, Subscribes
<1>8. \A k \in h + 1 .. Len(q) :
        /\ Subscribes(q[k]) /\ ~ Adds(q[k]) /\ ~ Runs(q[k])
        /\ q[k].id = n /\ q[k].of = c
        /\ q[k].event \in EventIds /\ Wants(c, q[k].event)
  <2> SUFFICES ASSUME NEW k \in h + 1 .. Len(q)
               PROVE  /\ Subscribes(q[k]) /\ ~ Adds(q[k]) /\ ~ Runs(q[k])
                      /\ q[k].id = n /\ q[k].of = c
                      /\ q[k].event \in EventIds /\ Wants(c, q[k].event)
    OBVIOUS
  <2> DEFINE i == k - Len(p)
  <2>1. /\ k \in 1 .. Len(q) /\ ~ (k <= Len(p))
        /\ i \in 2 .. Len(s) + 1 /\ i - 1 \in 1 .. Len(s)
    BY <1>1, <1>2, <1>3, <1>4
  <2>2. q[k] = b[i]
    BY <1>4, <2>1
  <2> HIDE DEF i
  <2>3. q[k] = Call("Subscribe", c, n, s[i - 1]) /\ s[i - 1] \in EventIds
    BY <1>1, <1>2, <2>1, <2>2
  <2>4. Wants(c, s[i - 1])
    BY <1>2, <2>1 DEF Wants, s
  <2> QED
    BY <2>3, <2>4, CallParts DEF Adds, Runs, Subscribes
<1>9. SubscribesAfterAdding(q)
  <2> SUFFICES ASSUME NEW k \in 1 .. Len(q), Subscribes(q[k])
               PROVE  /\ q[k].event \in EventIds
                      /\ Wants(q[k].of, q[k].event)
                      /\ \E j \in 1 .. k - 1 :
                           /\ Adds(q[j])
                           /\ q[j].id = q[k].id /\ q[j].of = q[k].of
    BY DEF SubscribesAfterAdding
  <2>1. CASE k \in 1 .. Len(p)
    <3>1. PICK j \in 1 .. k - 1 :
            Adds(p[j]) /\ p[j].id = p[k].id /\ p[j].of = p[k].of
      BY <1>6, <2>1 DEF Registers, InOrder, SubscribesAfterAdding
    <3>2. j \in 1 .. Len(p)
      BY <1>3, <2>1
    <3>3. q[k].event \in EventIds /\ Wants(q[k].of, q[k].event)
      BY <1>6, <2>1 DEF Registers, InOrder, SubscribesAfterAdding
    <3> QED
      BY <1>6, <2>1, <3>1, <3>2, <3>3
  <2>2. CASE k \in h + 1 .. Len(q)
    <3>1. h \in 1 .. k - 1
      BY <1>3, <2>2
    <3> HIDE DEF h
    <3> QED
      BY <1>7, <1>8, <2>2, <3>1
  <2> QED
    BY <1>5, <1>7, <2>1, <2>2
<1>10. AddsOnce(q)
  <2> SUFFICES ASSUME NEW j \in 1 .. Len(q), NEW k \in 1 .. Len(q),
                      Adds(q[j]), Adds(q[k]), q[j].id = q[k].id
               PROVE  j = k
    BY DEF AddsOnce
  <2>1. ~ (j \in h + 1 .. Len(q)) /\ ~ (k \in h + 1 .. Len(q))
    BY <1>8
  <2>2. CASE j \in 1 .. Len(p) /\ k \in 1 .. Len(p)
    BY <1>6, <2>2 DEF Registers, InOrder, AddsOnce
  <2>3. ~ (n < n)
    OBVIOUS
  <2> HIDE DEF h
  <2> QED
    BY <1>5, <1>6, <1>7, <2>1, <2>2, <2>3
<1>11. \A k \in 1 .. Len(q) : ~ Runs(q[k]) /\ q[k].id < n + 1
  <2>1. \A k \in 1 .. Len(q) : ~ Runs(q[k]) /\ (q[k].id < n \/ q[k].id = n)
    <3> HIDE DEF h
    <3> QED
      BY <1>5, <1>6, <1>7, <1>8
  <2>2. \A k \in 1 .. Len(q) : q[k].id \in Nat
    <3>1. \A k \in 1 .. Len(q) : q[k] \in MainCalls
      BY <1>4, ElementOfSeq, Zenon
    <3> QED
      BY <3>1 DEF MainCalls
  <2> QED
    BY <2>1, <2>2
<1>12. RunsLast(q)
  BY <1>11 DEF RunsLast
<1> QED
  BY <1>4, <1>9, <1>10, <1>11, <1>12 DEF Registers, InOrder, q, b

\* So does the start of a component, behind all calls.
LEMMA RunKeepsOrder ==
  ASSUME NEW p, InOrder(p), NEW c \in Components
  PROVE  InOrder(p \o Run(c))
<1> DEFINE r == Call("run", c, 0, "none")
           q == p \o Run(c)
           h == Len(p) + 1
<1>1. p \in Seq(MainCalls) /\ Len(p) \in Nat
  BY DEF InOrder
<1>2. r \in MainCalls /\ Runs(r) /\ ~ Adds(r) /\ ~ Subscribes(r)
  BY CallParts DEF Runs, Adds, Subscribes
<1>3. q = Append(p, r)
  BY <1>1, <1>2, AppendIsConcat DEF Run
<1> HIDE DEF r
<1>4. /\ q \in Seq(MainCalls) /\ Len(q) = h /\ q[h] = r
      /\ \A k \in 1 .. Len(p) : q[k] = p[k]
  BY <1>1, <1>2, <1>3, AppendProperties
<1> HIDE DEF q
<1>5. \A k \in 1 .. Len(q) : k \in 1 .. Len(p) \/ k = h
  BY <1>1, <1>4
<1>6. \A k \in 1 .. Len(p) : \A j \in 1 .. k : j \in 1 .. Len(p)
  BY <1>1
<1>7. \A j \in 1 .. Len(p) : ~ (h <= j)
  BY <1>1
<1>8. SubscribesAfterAdding(q)
  <2> SUFFICES ASSUME NEW k \in 1 .. Len(q), Subscribes(q[k])
               PROVE  /\ q[k].event \in EventIds
                      /\ Wants(q[k].of, q[k].event)
                      /\ \E j \in 1 .. k - 1 :
                           /\ Adds(q[j])
                           /\ q[j].id = q[k].id /\ q[j].of = q[k].of
    BY DEF SubscribesAfterAdding
  <2>1. k \in 1 .. Len(p) /\ q[k] = p[k]
    BY <1>2, <1>4, <1>5
  <2>2. PICK j \in 1 .. k - 1 :
          Adds(p[j]) /\ p[j].id = p[k].id /\ p[j].of = p[k].of
    BY <2>1 DEF InOrder, SubscribesAfterAdding
  <2>3. j \in 1 .. Len(p) /\ q[j] = p[j]
    BY <1>1, <1>4, <2>1
  <2> QED
    BY <2>1, <2>2, <2>3 DEF InOrder, SubscribesAfterAdding
<1>9. AddsOnce(q)
  <2> HIDE DEF h
  <2> QED
    BY <1>2, <1>4, <1>5 DEF InOrder, AddsOnce
<1>10. RunsLast(q)
  <2> HIDE DEF h
  <2> QED
    BY <1>2, <1>4, <1>5, <1>7 DEF InOrder, RunsLast
<1> QED
  BY <1>4, <1>8, <1>9, <1>10 DEF InOrder, q

\* The calls of main are in order.
LEMMA MainInOrder == InOrder(Main)
<1> DEFINE a == Construct("client_mgr", 0)
           b == a \o Construct("logger", 1)
           c == b \o Construct("db_manager", 2)
           d == c \o Construct("ws_server", 3)
<1> USE DEF Components
<1>1. Registers(<< >>, 0)
  BY DEF Registers, InOrder, SubscribesAfterAdding, AddsOnce, RunsLast
<1>2. << >> \o a = a
  BY ConstructParts, ConcatEmptySeq
<1>3. Registers(a, 1)
  <2>1. Registers(<< >> \o a, 0 + 1)
    BY <1>1, ConstructRegisters
  <2> QED
    BY <1>2, <2>1
<1>4. Registers(b, 2)
  <2>1. Registers(b, 1 + 1)
    BY <1>3, ConstructRegisters
  <2> QED
    BY <2>1
<1>5. Registers(c, 3)
  <2>1. Registers(c, 2 + 1)
    BY <1>4, ConstructRegisters
  <2> QED
    BY <2>1
<1>6. Registers(d, 4)
  <2>1. Registers(d, 3 + 1)
    BY <1>5, ConstructRegisters
  <2> QED
    BY <2>1
<1>7. InOrder(d)
  BY <1>6 DEF Registers
<1>8. Main = d \o Run("client_mgr") \o Run("logger") \o Run("ws_server")
               \o Run("rest_server")
  BY DEF Main
<1> HIDE DEF d
<1> QED
  BY <1>7, <1>8, RunKeepsOrder

-----------------------------------------------------------------------------
(* The inductive invariant: what is known is what main has called.         *)

Called(k) == k \in 1 .. main - 1

\* main is at one of its calls, or behind the last.
MainInv == main \in 1 .. Len(Main) + 1

\* The registry holds whom main has added, under the id it was added with.
RegistryInv ==
  /\ \A id \in DOMAIN event_receivers :
       \E k \in 1 .. Len(Main) :
         Called(k) /\ Adds(Main[k]) /\ Main[k].id = id
  /\ \A k \in 1 .. Len(Main) : Called(k) /\ Adds(Main[k]) =>
       /\ Main[k].id \in DOMAIN event_receivers
       /\ event_receivers[Main[k].id] = Main[k].of

\* A component has the id that it was added with.
OwnerInv ==
  \A c \in DOMAIN receiver_id :
    \E k \in 1 .. Len(Main) : /\ Called(k) /\ Adds(Main[k])
                              /\ Main[k].of = c /\ Main[k].id = receiver_id[c]

\* Ids are subscribed by main's calls only.
MapInv ==
  /\ DOMAIN event_map = EventIds
  /\ \A e \in EventIds : \A id \in event_map[e] :
       \E k \in 1 .. Len(Main) : /\ Called(k) /\ Subscribes(Main[k])
                                 /\ Main[k].id = id /\ Main[k].event = e

\* Events are sent by components that main has started.
SentInv ==
  /\ DOMAIN sent_to = EventIds
  /\ \A e \in EventIds : sent_to[e] # {} => running # {}
  /\ running # {} => \E k \in 1 .. Len(Main) : Called(k) /\ Runs(Main[k])

IInv ==
  /\ MainInv /\ RegistryInv /\ OwnerInv /\ MapInv /\ SentInv
  /\ NobodyMissesEvents

\* What the proofs need of Main.
LEMMA MainFacts ==
  /\ Len(Main) \in Nat /\ DOMAIN Main = 1 .. Len(Main)
  /\ SubscribesAfterAdding(Main) /\ AddsOnce(Main) /\ RunsLast(Main)
<1>1. Main \in Seq(MainCalls)
  BY MainInOrder DEF InOrder
<1> HIDE DEF Main
<1> QED
  BY <1>1, MainInOrder DEF InOrder

\* When main makes a call, that call is added to those it has made.
LEMMA OneCall ==
  ASSUME MainInv, NEW f, NEW c, Calls(f, c)
  PROVE  /\ main \in 1 .. Len(Main) /\ main' = main + 1 /\ MainInv'
         /\ Main[main].call = f
         /\ \A k \in 1 .. Len(Main) : Called(k)' <=> Called(k) \/ k = main
         /\ ~ Called(main)
         /\ \A j \in 1 .. Len(Main) : Called(j) => j <= main
         /\ \A j \in 1 .. main - 1 : j \in 1 .. Len(Main) /\ Called(j)
<1>1. Len(Main) \in Nat /\ DOMAIN Main = 1 .. Len(Main)
  BY MainFacts
<1>2. main \in DOMAIN Main /\ Main[main].call = f /\ main' = main + 1
  BY DEF Calls
<1> HIDE DEF Main
<1>3. main \in 1 .. Len(Main) /\ main' = main + 1
  BY <1>1, <1>2
<1>4. main' \in 1 .. Len(Main) + 1
  BY <1>1, <1>3
<1>5. Main' = Main
  BY DEF Main, Construct, Run, Call, Subscriptions
<1> QED
  BY <1>1, <1>2, <1>3, <1>4, <1>5 DEF MainInv, Called

\* At first nothing has been called.
LEMMA InitIInv == Init => IInv
<1> SUFFICES ASSUME Init PROVE IInv
  OBVIOUS
<1>1. Len(Main) \in Nat
  BY MainFacts
<1> HIDE DEF Main
<1>2. main = 1 /\ MainInv
  BY <1>1 DEF Init, MainInv
<1>3. \A k \in 1 .. Len(Main) : ~ Called(k)
  BY <1>2 DEF Called
<1>4. RegistryInv /\ OwnerInv
  BY <1>3 DEF Init, RegistryInv, OwnerInv
<1>5. MapInv /\ SentInv /\ NobodyMissesEvents
  BY DEF Init, MapInv, SentInv, NobodyMissesEvents
<1> QED
  BY <1>2, <1>4, <1>5 DEF IInv

\* A receiver that is added is not refused, since its id is new.
LEMMA AddReceiverIInv ==
  ASSUME IInv, NEW c, AddReceiver(c)
  PROVE  IInv'
<1> DEFINE id == Main[main].id
<1>1. /\ main \in 1 .. Len(Main) /\ MainInv'
      /\ Adds(Main[main]) /\ Main[main].of = c
      /\ \A k \in 1 .. Len(Main) : Called(k)' <=> Called(k) \/ k = main
      /\ ~ Called(main)
  <2>1. MainInv /\ Calls("AddReceiver", c)
    BY DEF IInv, AddReceiver
  <2>2. Main[main].of = c
    BY <2>1 DEF Calls
  <2> QED
    BY <2>1, <2>2, OneCall DEF Adds
<1>2. AddsOnce(Main)
  BY MainFacts
<1>3. Main' = Main
  BY DEF Main, Construct, Run, Call, Subscriptions
<1>4. /\ event_receivers' = Register(event_receivers, id, c)
      /\ receiver_id' = [x \in DOMAIN receiver_id \cup {c} |->
                           IF x = c THEN id ELSE receiver_id[x]]
      /\ event_map' = event_map /\ running' = running /\ sent_to' = sent_to
  BY DEF AddReceiver
<1> HIDE DEF Main
<1>5. id \notin DOMAIN event_receivers
  BY <1>1, <1>2 DEF IInv, RegistryInv, AddsOnce
<1>6. /\ DOMAIN event_receivers' = DOMAIN event_receivers \cup {id}
      /\ event_receivers'[id] = c
      /\ \A i \in DOMAIN event_receivers :
           event_receivers'[i] = event_receivers[i]
  BY <1>4, <1>5 DEF Register
<1>7. RegistryInv'
  <2>1. ASSUME NEW i \in DOMAIN event_receivers'
        PROVE  \E k \in 1 .. Len(Main) :
                 Called(k)' /\ Adds(Main[k]) /\ Main[k].id = i
    BY <1>1, <1>6 DEF IInv, RegistryInv
  <2>2. ASSUME NEW k \in 1 .. Len(Main), Called(k)', Adds(Main[k])
        PROVE  /\ Main[k].id \in DOMAIN event_receivers'
               /\ event_receivers'[Main[k].id] = Main[k].of
    BY <1>1, <1>6, <2>2 DEF IInv, RegistryInv
  <2> QED
    BY <1>3, <2>1, <2>2 DEF RegistryInv, Adds
<1>8. OwnerInv'
  <2>1. ASSUME NEW x \in DOMAIN receiver_id'
        PROVE  \E k \in 1 .. Len(Main) :
                 /\ Called(k)' /\ Adds(Main[k])
                 /\ Main[k].of = x /\ Main[k].id = receiver_id'[x]
    <3>1. CASE x = c
      BY <1>1, <1>4, <3>1
    <3>2. CASE x # c
      <4>1. x \in DOMAIN receiver_id /\ receiver_id'[x] = receiver_id[x]
        BY <1>4, <3>2
      <4> QED
        BY <1>1, <4>1 DEF IInv, OwnerInv
    <3> QED
      BY <3>1, <3>2
  <2> QED
    BY <1>3, <2>1 DEF OwnerInv, Adds
<1>9. MapInv'
  BY <1>1, <1>3, <1>4 DEF IInv, MapInv, Subscribes
<1>10. SentInv'
  BY <1>1, <1>3, <1>4 DEF IInv, SentInv, Runs
<1>11. NobodyMissesEvents'
  BY <1>4 DEF IInv, NobodyMissesEvents
<1> QED
  BY <1>1, <1>7, <1>8, <1>9, <1>10, <1>11 DEF IInv

\* While somebody is still to subscribe, nothing runs, and nothing was sent.
LEMMA SubscribeIInv ==
  ASSUME IInv, NEW c, Subscribe(c)
  PROVE  IInv'
<1> DEFINE id == Main[main].id
           e == Main[main].event
<1>1. /\ main \in 1 .. Len(Main) /\ MainInv'
      /\ Subscribes(Main[main]) /\ ~ Adds(Main[main]) /\ ~ Runs(Main[main])
      /\ \A k \in 1 .. Len(Main) : Called(k)' <=> Called(k) \/ k = main
      /\ \A k \in 1 .. Len(Main) : Called(k) => k <= main
  <2>1. MainInv /\ Calls("Subscribe", c)
    BY DEF IInv, Subscribe
  <2> QED
    BY <2>1, OneCall DEF Subscribes, Adds, Runs
<1>2. SubscribesAfterAdding(Main) /\ RunsLast(Main)
  BY MainFacts
<1>3. Main' = Main
  BY DEF Main, Construct, Run, Call, Subscriptions
<1>4. /\ event_map' = [event_map EXCEPT ![e] = @ \cup {id}]
      /\ event_receivers' = event_receivers /\ receiver_id' = receiver_id
      /\ running' = running /\ sent_to' = sent_to
  BY DEF Subscribe
<1> HIDE DEF Main
<1>5. running = {}
  BY <1>1, <1>2 DEF IInv, SentInv, RunsLast
<1>6. \A x \in EventIds : sent_to[x] = {}
  BY <1>5 DEF IInv, SentInv
<1>7. RegistryInv'
  BY <1>1, <1>3, <1>4 DEF IInv, RegistryInv, Adds
<1>8. OwnerInv'
  BY <1>1, <1>3, <1>4 DEF IInv, OwnerInv, Adds
<1>9. MapInv'
  <2>1. e \in EventIds /\ DOMAIN event_map = EventIds
    BY <1>1, <1>2 DEF IInv, MapInv, SubscribesAfterAdding
  <2>2. ASSUME NEW x \in EventIds, NEW i \in event_map'[x]
        PROVE  \E k \in 1 .. Len(Main) :
                 /\ Called(k)' /\ Subscribes(Main[k])
                 /\ Main[k].id = i /\ Main[k].event = x
    <3>1. CASE i \in event_map[x]
      BY <1>1, <3>1 DEF IInv, MapInv
    <3>2. CASE i \notin event_map[x]
      <4>1. x = e /\ i = id
        BY <1>4, <2>1, <2>2, <3>2
      <4> QED
        BY <1>1, <4>1
    <3> QED
      BY <3>1, <3>2
  <2>3. DOMAIN event_map' = EventIds
    BY <1>4, <2>1
  <2> QED
    BY <1>3, <2>2, <2>3 DEF MapInv, Subscribes
<1>10. SentInv' /\ NobodyMissesEvents'
  BY <1>4, <1>5, <1>6 DEF IInv, SentInv, NobodyMissesEvents
<1> QED
  BY <1>1, <1>7, <1>8, <1>9, <1>10 DEF IInv

\* The start of a component registers nothing.
LEMMA StartIInv ==
  ASSUME IInv, NEW c, Start(c)
  PROVE  IInv'
<1>1. /\ main \in 1 .. Len(Main) /\ MainInv'
      /\ Runs(Main[main]) /\ ~ Adds(Main[main]) /\ ~ Subscribes(Main[main])
      /\ \A k \in 1 .. Len(Main) : Called(k)' <=> Called(k) \/ k = main
  <2>1. MainInv /\ Calls("run", c)
    BY DEF IInv, Start
  <2> QED
    BY <2>1, OneCall DEF Subscribes, Adds, Runs
<1>2. Main' = Main
  BY DEF Main, Construct, Run, Call, Subscriptions
<1>3. /\ event_map' = event_map /\ event_receivers' = event_receivers
      /\ receiver_id' = receiver_id /\ sent_to' = sent_to
      /\ running' = running \cup {c}
  BY DEF Start, busVars
<1> HIDE DEF Main
<1>4. RegistryInv' /\ OwnerInv'
  BY <1>1, <1>2, <1>3 DEF IInv, RegistryInv, OwnerInv, Adds
<1>5. MapInv'
  BY <1>1, <1>2, <1>3 DEF IInv, MapInv, Subscribes
<1>6. SentInv'
  BY <1>1, <1>2, <1>3 DEF IInv, SentInv, Runs
<1>7. NobodyMissesEvents'
  BY <1>3 DEF IInv, NobodyMissesEvents
<1> QED
  BY <1>1, <1>4, <1>5, <1>6, <1>7 DEF IInv

\* Who sends an event has been started, and sends it to all there will be.
LEMMA SendIInv ==
  ASSUME IInv, NEW c, NEW e \in EventIds, Send(c, e)
  PROVE  IInv'
<1>1. Main' = Main
  BY DEF Main, Construct, Run, Call, Subscriptions
<1>2. /\ main' = main /\ event_map' = event_map
      /\ event_receivers' = event_receivers
      /\ receiver_id' = receiver_id /\ running' = running /\ running # {}
      /\ sent_to' = [sent_to EXCEPT ![e] = @ \cup {event_map[e]}]
  BY DEF Send, busVars
<1> HIDE DEF Main
<1>3. \A k : Called(k)' <=> Called(k)
  BY <1>2 DEF Called
<1>4. MainInv' /\ RegistryInv' /\ OwnerInv' /\ MapInv'
  BY <1>1, <1>2, <1>3
     DEF IInv, MainInv, RegistryInv, OwnerInv, MapInv, Adds, Subscribes
<1>5. SentInv'
  BY <1>1, <1>2, <1>3 DEF IInv, SentInv, Runs
<1>6. NobodyMissesEvents'
  BY <1>2 DEF IInv, NobodyMissesEvents, SentInv
<1> QED
  BY <1>4, <1>5, <1>6 DEF IInv

\* Every step keeps the inductive invariant.
LEMMA StepIInv == IInv /\ [Next]_vars => IInv'
<1> SUFFICES ASSUME IInv, [Next]_vars PROVE IInv'
  OBVIOUS
<1>1. ASSUME NEW c \in Components, AddReceiver(c) PROVE IInv'
  BY <1>1, AddReceiverIInv
<1>2. ASSUME NEW c \in Components, Subscribe(c) PROVE IInv'
  BY <1>2, SubscribeIInv
<1>3. ASSUME NEW c \in Components, Start(c) PROVE IInv'
  BY <1>3, StartIInv
<1>4. ASSUME NEW c \in Components, NEW e \in EventIds, Send(c, e) PROVE IInv'
  BY <1>4, SendIInv
<1>5. ASSUME UNCHANGED vars PROVE IInv'
  <2>1. Main' = Main
    BY DEF Main, Construct, Run, Call, Subscriptions
  <2> HIDE DEF Main
  <2> QED
    BY <1>5, <2>1 DEF vars, busVars, IInv, MainInv, RegistryInv, OwnerInv,
       MapInv, SentInv, NobodyMissesEvents, Called, Adds, Subscribes, Runs
<1> QED
  BY <1>1, <1>2, <1>3, <1>4, <1>5 DEF Next

\* Whoever main has added owns its id, and whoever it subscribed it has added.
LEMMA IInvOwners == IInv => ReceiversAreTheirOwners
<1> SUFFICES ASSUME IInv PROVE ReceiversAreTheirOwners
  OBVIOUS
<1>1. Len(Main) \in Nat /\ SubscribesAfterAdding(Main)
  BY MainFacts
<1> HIDE DEF Main
<1>2. \A c \in DOMAIN receiver_id : event_receivers[receiver_id[c]] = c
  BY DEF IInv, OwnerInv, RegistryInv
<1>3. ASSUME NEW e \in EventIds, NEW id \in event_map[e]
      PROVE  id \in DOMAIN event_receivers /\ Wants(event_receivers[id], e)
  <2>1. PICK k \in 1 .. Len(Main) :
          /\ Called(k) /\ Subscribes(Main[k])
          /\ Main[k].id = id /\ Main[k].event = e
    BY DEF IInv, MapInv
  <2>2. PICK j \in 1 .. k - 1 :
          Adds(Main[j]) /\ Main[j].id = id /\ Main[j].of = Main[k].of
    BY <1>1, <2>1 DEF SubscribesAfterAdding
  <2>3. j \in 1 .. Len(Main) /\ Called(j)
    BY <1>1, <2>1, <2>2 DEF IInv, MainInv, Called
  <2>4. id \in DOMAIN event_receivers /\ event_receivers[id] = Main[k].of
    BY <2>2, <2>3 DEF IInv, RegistryInv
  <2>5. Wants(Main[k].of, e)
    BY <1>1, <2>1 DEF SubscribesAfterAdding
  <2> QED
    BY <2>4, <2>5
<1> QED
  BY <1>2, <1>3 DEF ReceiversAreTheirOwners, Wants

\* What is known at any time is what main has called so far.
LEMMA StartupIsInductive == Spec => []IInv
<1> QED
  BY InitIInv, StepIInv, PTL DEF Spec

(***************************************************************************)
(* Theorem: main starts the first component behind the last subscription,  *)
(* so that each event finds all who are ever subscribed to it.             *)
(***************************************************************************)
THEOREM NobodyEverMissesEvents == Spec => []NobodyMissesEvents
<1>1. IInv => NobodyMissesEvents
  BY DEF IInv
<1> QED
  BY <1>1, StartupIsInductive, PTL

(***************************************************************************)
(* Theorem: no call of AddReceiver is refused, since main gives each       *)
(* receiver an id of its own, and each id that is subscribed was added.    *)
(***************************************************************************)
THEOREM ReceiversOwnTheirIds == Spec => []ReceiversAreTheirOwners
<1> QED
  BY IInvOwners, StartupIsInductive, PTL
=============================================================================
