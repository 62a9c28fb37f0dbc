-------------------------- MODULE ChatServerProofs --------------------------
(***************************************************************************)
(* Proofs about ClientMgr and about ChatServer, which extends it, for any  *)
(* number of users, events and requests, and any timeout.  A chat server   *)
(* is a client manager, so that what is proved of that holds of it, and an *)
(* answer to get_users was true while it was made.                         *)
(***************************************************************************)
EXTENDS ChatServer, TLAPS

-----------------------------------------------------------------------------
(* Maps, and the log.                                                      *)

IsMap(m, V) == \E D \in SUBSET Users : m \in [D -> V]

\* Assign, Insert, Erase and Older keep a map a map.
LEMMA MapOps ==
  ASSUME NEW V, NEW m, IsMap(m, V), NEW u \in Users, NEW v \in V
  PROVE  /\ IsMap(Assign(m, u, v), V)
         /\ IsMap(Insert(m, u, v), V)
         /\ IsMap(Erase(m, u), V)
<1>1. PICK D \in SUBSET Users : m \in [D -> V]
  BY DEF IsMap
<1>2. Assign(m, u, v) \in [D \cup {u} -> V]
  BY <1>1 DEF Assign
<1>3. Erase(m, u) \in [D \ {u} -> V]
  BY <1>1 DEF Erase
<1>4. IsMap(Assign(m, u, v), V) /\ IsMap(Erase(m, u), V)
  BY <1>2, <1>3 DEF IsMap
<1> QED
  BY <1>4 DEF Insert

\* A second later the ages are ages still.
LEMMA OlderOps ==
  ASSUME NEW m, IsMap(m, Ages)
  PROVE  IsMap(Older(m), Ages)
<1>1. PICK D \in SUBSET Users : m \in [D -> Ages]
  BY DEF IsMap
<1>2. Older(m) \in [D -> Ages]
  BY <1>1, ClientMgrAssumption DEF Older, Ages
<1> QED
  BY <1>2 DEF IsMap

\* A map to indexes stays one when there are more of them.
LEMMA MapGrows ==
  ASSUME NEW V, NEW W, V \subseteq W, NEW m, IsMap(m, V)
  PROVE  IsMap(m, W)
BY DEF IsMap

\* What a record of the log is.
LEMMA LogEntry ==
  ASSUME TypeOK
  PROVE  /\ DOMAIN log = 1 .. Len(log)
         /\ DOMAIN progress = DOMAIN log
         /\ Len(log) \in Nat
         /\ \A i \in DOMAIN log :
              /\ log[i] \in Events
              /\ log[i].user \in Users
              /\ log[i].event \in EventIds
              /\ progress[i] \in ProgressStates
<1>1. /\ log \in Seq(Events)
      /\ progress \in Seq(ProgressStates)
      /\ Len(progress) = Len(log)
  BY DEF TypeOK
<1>2. \A i \in DOMAIN log : log[i] \in Events
  BY <1>1
<1>3. \A i \in DOMAIN log : log[i].user \in Users /\ log[i].event \in EventIds
  BY <1>2 DEF Events
<1> QED
  BY <1>1, <1>2, <1>3

\* Sending appends an event that is not handled, and changes no other.
LEMMA SendOps ==
  ASSUME TypeOK, NEW e \in EventIds, NEW u \in Users, Send(e, u)
  PROVE  /\ log' \in Seq(Events)
         /\ progress' \in Seq(ProgressStates)
         /\ Len(progress') = Len(log')
         /\ Len(log') = Len(log) + 1
         /\ DOMAIN log' = DOMAIN log \cup {Len(log) + 1}
         /\ DOMAIN log' = 1 .. Len(log) + 1
         /\ \A i \in DOMAIN log :
              log'[i] = log[i] /\ progress'[i] = progress[i] /\ i <= Len(log)
         /\ log'[Len(log) + 1] = [event |-> e, user |-> u]
         /\ progress'[Len(log) + 1] = "sent"
<1>1. [event |-> e, user |-> u] \in Events
  BY DEF Events
<1>2. "sent" \in ProgressStates
  BY DEF ProgressStates
<1> QED
  BY <1>1, <1>2 DEF TypeOK, Send

\* Advancing leaves the events and what the other handlers have done.
LEMMA AdvanceOps ==
  ASSUME TypeOK, NEW i \in DOMAIN log, NEW s \in ProgressStates, Advance(i, s)
  PROVE  /\ log' = log
         /\ progress' \in Seq(ProgressStates)
         /\ Len(progress') = Len(log')
         /\ progress'[i] = s
         /\ \A j \in DOMAIN log \ {i} : progress'[j] = progress[j]
BY DEF TypeOK, Advance

-----------------------------------------------------------------------------
(* The shape of the state.                                                 *)

\* The type invariant, with IsMap for its three maps.
LEMMA TypeMaps ==
  TypeOK <=>
    /\ IsMap(user_timeouts, Ages)
    /\ IsMap(users, DOMAIN log)
    /\ IsMap(snapshot, Ages)
    /\ cyclic \in {"ready", "sweeping", "sleeping"}
    /\ log \in Seq(Events)
    /\ progress \in Seq(ProgressStates)
    /\ Len(progress) = Len(log)
    /\ connected \in [Users -> BOOLEAN]
    /\ closing \in SUBSET Users
    /\ running \in BOOLEAN
    /\ requests \in [Users -> [Slots -> RequestStates]]
    /\ idle \in [Users -> Ages]
    /\ inverted \in SUBSET Users
    /\ misled \in SUBSET Users
    /\ raced \in SUBSET Users
BY DEF TypeOK, IsMap

\* The order history gains users only.
LEMMA InvertType ==
  ASSUME TypeOK, NEW i \in DOMAIN log, NEW t, Invert(i, t)
  PROVE  inverted' \in SUBSET Users /\ misled' \in SUBSET Users
<1>1. log[i].user \in Users
  BY LogEntry
<1> QED
  BY <1>1 DEF TypeOK, Invert

\* The state of Init, be the process there or not.
Blank ==
  /\ user_timeouts = Nobody
  /\ users = Nobody
  /\ snapshot = Nobody
  /\ cyclic = "ready"
  /\ log = <<>>
  /\ progress = <<>>
  /\ connected = [u \in Users |-> FALSE]
  /\ closing = {}
  /\ running \in BOOLEAN
  /\ requests = [u \in Users |-> [k \in Slots |-> "none"]]
  /\ idle = [u \in Users |-> 0]
  /\ inverted = {}
  /\ misled = {}
  /\ raced = {}

\* The process begins, and ends, with it.
LEMMA BlankOps == (Init => Blank) /\ (Ends => Blank')
BY DEF Init, Ends, Blank

\* It has the shape.
LEMMA TypeBlank == Blank => TypeOK
<1> SUFFICES ASSUME Blank PROVE TypeOK
  OBVIOUS
<1>1. \A V : IsMap(Nobody, V)
  BY DEF IsMap, Nobody
<1>2. /\ IsMap(user_timeouts, Ages)
      /\ IsMap(users, DOMAIN log)
      /\ IsMap(snapshot, Ages)
  BY <1>1 DEF Blank
<1>3. 0 \in Ages /\ "none" \in RequestStates
  BY ClientMgrAssumption DEF Ages, RequestStates
<1>4. log \in Seq(Events) /\ progress \in Seq(ProgressStates)
  BY DEF Blank
<1> QED
  BY <1>2, <1>3, <1>4, TypeMaps DEF Blank

\* At the beginning, and at the end.
LEMMA TypeInit == Init => TypeOK
BY BlankOps, TypeBlank

LEMMA TypeEnds == Ends => TypeOK'
<1>1. Blank' => TypeOK'
  BY TypeBlank, PTL
<1> QED
  BY <1>1, BlankOps

IsRequests(r, N) == r \in [Users -> [N -> RequestStates]]

\* What a change of the map makes of requests: none is made or handled, and
\* only a handle of somebody who is connected is one that was found.
LEMMA ShakenOps ==
  ASSUME NEW N, NEW r, IsRequests(r, N)
  PROVE  /\ IsRequests(Shaken(r), N)
         /\ \A u \in Users, k \in N :
              /\ Shaken(r)[u][k] # "none" => r[u][k] # "none"
              /\ Shaken(r)[u][k] = "found" => connected'[u]
BY DEF Shaken, RequestStates, IsRequests

\* The sweep asks, or has no room to.
LEMMA RequestOps ==
  ASSUME NEW N, NEW r, IsRequests(r, N), NEW u \in Users
  PROVE  /\ IsRequests(Request(r, u), N)
         /\ \A v \in Users, j \in N :
              \/ Request(r, u)[v][j] = r[v][j]
              \/ v = u /\ Request(r, u)[v][j] = "sent"
<1> DEFINE free == {k \in DOMAIN r[u] : r[u][k] = "none"}
<1>1. CASE free = {}
  BY <1>1 DEF Request
<1>2. CASE free # {}
  <2>1. PICK k \in N : k = CHOOSE x \in free : TRUE
    BY <1>2 DEF IsRequests
  <2>3. Request(r, u) = [r EXCEPT ![u][k] = "sent"]
    BY <1>2, <2>1, Zenon DEF Request
  <2>2. "sent" \in RequestStates
    BY DEF RequestStates
  <2> QED
    BY <2>2, <2>3 DEF IsRequests
<1> QED
  BY <1>1, <1>2

\* A step of a request that is handled.
LEMMA DisconnectOps ==
  ASSUME NEW s, NEW t, NEW u \in Users,
         \/ Walk(u, s, t) /\ UNCHANGED closing
         \/ CloseConnection(u, s, t)
  PROVE  /\ s # "none"
         /\ t = "found" => connected[u]
         /\ \/ closing' = closing
            \/ s = "found" /\ u \notin closing /\ closing' = closing \cup {u}
BY DEF Walk, CloseConnection

\* The same for those of the sweep.
LEMMA DisconnectUserOps ==
  ASSUME TypeOK, NEW u \in Users, NEW k \in Slots,
         DisconnectUser(u, k)
  PROVE  /\ requests' \in [Users -> [Slots -> RequestStates]]
         /\ \A v \in Users, j \in Slots :
              \/ requests'[v][j] = requests[v][j]
              \/ /\ v = u
                 /\ requests[v][j] # "none"
                 /\ requests'[v][j] = "found" => connected[v]
         /\ \/ closing' = closing
            \/ requests[u][k] = "found" /\ closing' = closing \cup {u}
<1>1. PICK t \in RequestStates :
        /\ \/ Walk(u, requests[u][k], t) /\ UNCHANGED closing
           \/ CloseConnection(u, requests[u][k], t)
        /\ requests' = [requests EXCEPT ![u][k] = t]
  BY DEF DisconnectUser, Disconnect
<1>2. IsRequests(requests, Slots)
  BY DEF TypeOK, IsRequests
<1>3. /\ IsRequests(requests', Slots)
      /\ \A v \in Users, j \in Slots :
           requests'[v][j] = IF v = u /\ j = k THEN t ELSE requests[v][j]
  BY <1>1, <1>2 DEF IsRequests
<1>4. /\ requests[u][k] # "none"
      /\ t = "found" => connected[u]
      /\ \/ closing' = closing
         \/ requests[u][k] = "found" /\ closing' = closing \cup {u}
  BY <1>1, DisconnectOps
<1> QED
  BY <1>3, <1>4 DEF IsRequests

\* Every step keeps the shape.
LEMMA TypeStep == TypeOK /\ [Next]_vars => TypeOK'
<1> SUFFICES ASSUME TypeOK, [Next]_vars
             PROVE  TypeOK'
  OBVIOUS
<1> USE DEF tableVars, sweepVars, eventVars, orderVars
<1>0. /\ IsMap(user_timeouts, Ages)
      /\ IsMap(users, DOMAIN log)
      /\ IsMap(snapshot, Ages)
      /\ 0 \in Ages
      /\ {"sent", "user_timeouts", "done"} \subseteq ProgressStates
  BY TypeMaps, ClientMgrAssumption DEF Ages, ProgressStates
<1> DEFINE Remaining ==
                  /\ cyclic \in {"ready", "sweeping", "sleeping"}
                  /\ connected \in [Users -> BOOLEAN]
                  /\ closing \in SUBSET Users
                  /\ running \in BOOLEAN
                  /\ requests \in
                       [Users -> [Slots -> RequestStates]]
                  /\ idle \in [Users -> Ages]
                  /\ raced \in SUBSET Users
<1>00. Remaining
  BY DEF TypeOK
<1>1. ASSUME NEW i \in DOMAIN log, Handler(i)
      PROVE  TypeOK'
  <2>1. log[i].user \in Users
    BY LogEntry
  <2>2. /\ \E s \in ProgressStates : Advance(i, s)
        /\ \E t : Invert(i, t)
    BY <1>1, <1>0
       DEF Handler, ConnectionOpened, ConnectionOpenedUsers,
           ConnectionClosed, ConnectionClosedUsers, NewMessage
  <2>3. inverted' \in SUBSET Users /\ misled' \in SUBSET Users
    BY <2>2, InvertType
  <2>4. /\ log' = log
        /\ progress' \in Seq(ProgressStates)
        /\ Len(progress') = Len(log')
        /\ log \in Seq(Events)
    BY <2>2, AdvanceOps DEF TypeOK
  <2>5. IsMap(user_timeouts', Ages) /\ IsMap(users', DOMAIN log)
    BY <1>1, <1>0, <2>1, MapOps
       DEF Handler, ConnectionOpened, ConnectionOpenedUsers,
           ConnectionClosed, ConnectionClosedUsers, NewMessage
  <2>6. UNCHANGED <<snapshot, cyclic, sessionVars, requests, idle, raced>>
    BY <1>1
       DEF Handler, ConnectionOpened, ConnectionOpenedUsers,
           ConnectionClosed, ConnectionClosedUsers, NewMessage
  <2> QED
    BY <1>0, <1>00, <2>3, <2>4, <2>5, <2>6 DEF TypeOK, IsMap, sessionVars
<1>2. CASE CyclicSnapshot
  BY <1>2, <1>0 DEF TypeOK, CyclicSnapshot, IsMap, sessionVars
<1>3. ASSUME NEW u \in Users, CyclicCheck(u)
      PROVE  TypeOK'
  <2>1. IsMap(snapshot', Ages)
    BY <1>3, <1>0, MapOps DEF CyclicCheck
  <2>2. requests' \in [Users -> [Slots -> RequestStates]]
    BY <1>3, <1>00, RequestOps DEF CyclicCheck, IsRequests
  <2> QED
    BY <1>3, <2>1, <2>2 DEF TypeOK, IsMap, CyclicCheck, sessionVars
<1>4. CASE CyclicSleep
  BY <1>4 DEF TypeOK, CyclicSleep, sessionVars
<1>5. CASE Tick
  <2>1. IsMap(user_timeouts', Ages) /\ IsMap(snapshot', Ages)
    BY <1>5, <1>0, OlderOps DEF Tick
  <2>2. idle' \in [Users -> Ages]
    BY <1>5, <1>00, ClientMgrAssumption DEF Tick, Older, Ages
  <2> QED
    BY <1>5, <2>1, <2>2 DEF TypeOK, IsMap, Tick, sessionVars
<1>6. ASSUME NEW u \in Users, NEW e \in EventIds, Send(e, u),
             UNCHANGED <<tableVars, sweepVars>>, Remaining',
             inverted' \subseteq inverted, misled' \subseteq misled
      PROVE  TypeOK'
  <2>1. /\ log' \in Seq(Events)
        /\ progress' \in Seq(ProgressStates)
        /\ Len(progress') = Len(log')
        /\ DOMAIN log \subseteq DOMAIN log'
    BY <1>6, SendOps
  <2>2. IsMap(users, DOMAIN log')
    BY <1>0, <2>1, MapGrows
  <2> QED
    BY <1>6, <1>0, <2>1, <2>2 DEF TypeOK, IsMap
<1>7. ASSUME NEW u \in Users, OpenHandler(u) PROVE TypeOK'
  <2>1. requests' \in [Users -> [Slots -> RequestStates]]
    BY <1>7, <1>00, ShakenOps DEF OpenHandler, IsRequests
  <2>2. Remaining'
    BY <1>7, <1>0, <1>00, <2>1 DEF OpenHandler, Acts
  <2> QED
    BY <1>7, <1>6, <2>2 DEF OpenHandler, EventIds
<1>8. ASSUME NEW u \in Users, MessageHandler(u) PROVE TypeOK'
  <2>1. Remaining'
    BY <1>8, <1>0, <1>00 DEF MessageHandler, Acts, sessionVars
  <2> QED
    BY <1>8, <1>6, <2>1 DEF MessageHandler, EventIds
<1>9. ASSUME NEW u \in Users, CloseHandler(u) PROVE TypeOK'
  <2>1. requests' \in [Users -> [Slots -> RequestStates]]
    BY <1>9, <1>00, ShakenOps DEF CloseHandler, IsRequests
  <2>2. Remaining'
    BY <1>9, <1>00, <2>1 DEF CloseHandler
  <2> QED
    BY <1>9, <1>6, <2>2 DEF CloseHandler, EventIds
<1>10. ASSUME UNCHANGED <<tableVars, sweepVars, eventVars, orderVars>>,
              Remaining'
       PROVE  TypeOK'
  BY <1>10, <1>0 DEF TypeOK, IsMap
<1>11. ASSUME NEW u \in Users, PeerClose(u) PROVE TypeOK'
  <2>1. Remaining'
    BY <1>11, <1>00 DEF PeerClose
  <2> QED
    BY <1>11, <1>10, <2>1 DEF PeerClose
<1>12. ASSUME NEW u \in Users, NEW k \in Slots,
              DisconnectUser(u, k)
       PROVE  TypeOK'
  <2>1. closing' \in SUBSET Users
    BY <1>12, <1>00, DisconnectUserOps
  <2>2. Remaining'
    BY <1>12, <1>00, <2>1, DisconnectUserOps DEF DisconnectUser
  <2> QED
    BY <1>12, <1>10, <2>2 DEF DisconnectUser
<1>13. CASE StrangerComesOrGoes
  <2>1. requests' \in [Users -> [Slots -> RequestStates]]
    BY <1>13, <1>00, ShakenOps DEF StrangerComesOrGoes, IsRequests
  <2>2. Remaining'
    BY <1>13, <1>00, <2>1 DEF StrangerComesOrGoes, sessionVars
  <2> QED
    BY <1>13, <1>10, <2>2 DEF StrangerComesOrGoes
<1>14. CASE Ends
  BY <1>14, TypeEnds
<1>15. CASE UNCHANGED vars
  BY <1>15 DEF TypeOK, vars, sessionVars
<1> QED
  BY <1>1, <1>2, <1>3, <1>4, <1>5, <1>7, <1>8, <1>9, <1>11, <1>12, <1>13,
     <1>14, <1>15
     DEF Next, Step, Cyclic, HandleRequest, DisconnectUserThrows,
         EndsOtherwise

\* The state keeps its shape.
THEOREM TypeCorrect == Spec => []TypeOK
<1> QED
  BY TypeInit, TypeStep, PTL DEF Spec

-----------------------------------------------------------------------------
(* Who is disconnected for silence.                                        *)

\* A clock that has taken note of what its user did runs no further than the
\* user has been idle; so does its copy, unless it missed something; and a
\* request that missed nothing is about somebody idle.
ClockInv ==
  \A u \in DOMAIN user_timeouts :
    ~ActivityPending(u) => user_timeouts[u] <= idle[u]

SnapshotInv == \A u \in DOMAIN snapshot \ raced : snapshot[u] <= idle[u]

RequestInv == \A u \in Users \ raced : Requested(u) => idle[u] = Timeout

SweepInv == ClockInv /\ SnapshotInv /\ RequestInv

\* A handler ends the wait for itself only.
LEMMA PendingAdvance ==
  ASSUME TypeOK, NEW i \in DOMAIN log, NEW s \in ProgressStates,
         Advance(i, s), NEW u,
         \/ u # log[i].user
         \/ log[i].event = "CONNECTION_CLOSED"
         \/ progress[i] # "sent",
         ActivityPending(u)
  PROVE  ActivityPending(u)'
BY AdvanceOps DEF ActivityPending

\* The wait goes on when something is sent.
LEMMA PendingSend ==
  ASSUME TypeOK, NEW e \in EventIds, NEW v \in Users, Send(e, v), NEW u,
         ActivityPending(u) \/ (u = v /\ e # "CONNECTION_CLOSED")
  PROVE  ActivityPending(u)'
<1> DEFINE n == Len(log) + 1
<1>1. /\ n \in DOMAIN log'
      /\ log'[n] = [event |-> e, user |-> v]
      /\ progress'[n] = "sent"
      /\ \A i \in DOMAIN log :
           /\ i \in DOMAIN log'
           /\ log'[i] = log[i]
           /\ progress'[i] = progress[i]
  BY SendOps
<1>2. CASE ActivityPending(u)
  BY <1>1, <1>2 DEF ActivityPending
<1>3. CASE u = v /\ e # "CONNECTION_CLOSED"
  BY <1>1, <1>3 DEF ActivityPending
<1> QED
  BY <1>2, <1>3

\* At the beginning nobody has a clock.
LEMMA SweepBlank == Blank => SweepInv
BY DEF Blank, Nobody, SweepInv, ClockInv, SnapshotInv, RequestInv, Requested

LEMMA SweepInit == Init => SweepInv
BY BlankOps, SweepBlank

\* At the end nobody has one.
LEMMA SweepEnds == Ends => SweepInv'
<1>1. Blank' => SweepInv'
  BY SweepBlank, PTL
<1> QED
  BY <1>1, BlankOps

\* Only the sweep asks.
LEMMA RequestedKeeps ==
  ASSUME \A v \in Users, j \in Slots :
           requests'[v][j] # "none" => requests[v][j] # "none"
  PROVE  \A v \in Users : Requested(v)' => Requested(v)
BY DEF Requested

\* An age does not overtake another one in a second.
LEMMA OlderKeeps ==
  ASSUME NEW a \in Ages, NEW b \in Ages, a <= b
  PROVE  (IF a < Timeout THEN a + 1 ELSE a)
           <= (IF b < Timeout THEN b + 1 ELSE b)
BY ClientMgrAssumption DEF Ages

\* Every step keeps it.
LEMMA SweepStep == TypeOK /\ SweepInv /\ [Next]_vars => SweepInv'
<1> SUFFICES ASSUME TypeOK, SweepInv, [Next]_vars
             PROVE  SweepInv'
  OBVIOUS
<1> USE DEF tableVars, sweepVars, eventVars, orderVars
<1>0. /\ \A u \in DOMAIN user_timeouts :
           user_timeouts[u] \in Ages /\ u \in Users
      /\ \A u \in DOMAIN snapshot : snapshot[u] \in Ages /\ u \in Users
      /\ \A u \in Users : idle[u] \in Ages
  BY DEF TypeOK
<1>00. IsRequests(requests, Slots)
  BY DEF TypeOK, IsRequests
<1>1. ASSUME NEW i \in DOMAIN log, Handler(i)
      PROVE  SweepInv'
  <2>1. UNCHANGED <<snapshot, requests, idle, raced>>
    BY <1>1
       DEF Handler, ConnectionOpened, ConnectionOpenedUsers,
           ConnectionClosed, ConnectionClosedUsers, NewMessage
  <2>2. log[i].user \in Users
    BY LogEntry
  <2>3. \E s \in ProgressStates : Advance(i, s)
    BY <1>1
       DEF Handler, ConnectionOpened, ConnectionOpenedUsers,
           ConnectionClosed, ConnectionClosedUsers, NewMessage,
           ProgressStates
  <2>4. CASE ConnectionOpened(i) \/ NewMessage(i)
    <3>1. user_timeouts' = Assign(user_timeouts, log[i].user, 0)
      BY <2>4 DEF ConnectionOpened, NewMessage
    <3>2. ASSUME NEW u \in DOMAIN user_timeouts', ~ActivityPending(u)'
          PROVE  user_timeouts'[u] <= idle[u]
      <4>1. CASE u = log[i].user
        BY <1>0, <2>2, <3>1, <4>1 DEF Assign, Ages
      <4>2. CASE u # log[i].user
        <5>1. /\ u \in DOMAIN user_timeouts
              /\ user_timeouts'[u] = user_timeouts[u]
          BY <3>1, <3>2, <4>2 DEF Assign
        <5>2. ~ActivityPending(u)
          BY <2>3, <3>2, <4>2, PendingAdvance
        <5> QED
          BY <5>1, <5>2 DEF SweepInv, ClockInv
      <4> QED
        BY <4>1, <4>2
    <3> QED
      BY <2>1, <3>2 DEF SweepInv, ClockInv, SnapshotInv, RequestInv, Requested
  <2>5. CASE ConnectionClosed(i)
    <3>1. /\ user_timeouts' = Erase(user_timeouts, log[i].user)
          /\ log[i].event = "CONNECTION_CLOSED"
      BY <2>5 DEF ConnectionClosed, At
    <3>2. ASSUME NEW u \in DOMAIN user_timeouts', ~ActivityPending(u)'
          PROVE  user_timeouts'[u] <= idle[u]
      <4>1. u \in DOMAIN user_timeouts /\ user_timeouts'[u] = user_timeouts[u]
        BY <3>1, <3>2 DEF Erase
      <4>2. ~ActivityPending(u)
        BY <2>3, <3>1, <3>2, PendingAdvance
      <4> QED
        BY <4>1, <4>2 DEF SweepInv, ClockInv
    <3> QED
      BY <2>1, <3>2 DEF SweepInv, ClockInv, SnapshotInv, RequestInv, Requested
  <2>6. CASE ConnectionOpenedUsers(i) \/ ConnectionClosedUsers(i)
    <3>1. user_timeouts' = user_timeouts /\ progress[i] # "sent"
      BY <2>6 DEF ConnectionOpenedUsers, ConnectionClosedUsers, At
    <3>2. \A u : ~ActivityPending(u)' => ~ActivityPending(u)
      BY <2>3, <3>1, PendingAdvance
    <3>3. ClockInv'
      BY <2>1, <3>1, <3>2 DEF SweepInv, ClockInv
    <3> QED
      BY <2>1, <3>3 DEF SweepInv, SnapshotInv, RequestInv, Requested
  <2> QED
    BY <1>1, <2>4, <2>5, <2>6 DEF Handler
<1>2. CASE CyclicSnapshot
  <2>1. UNCHANGED <<user_timeouts, log, progress, requests, idle>>
    BY <1>2 DEF CyclicSnapshot
  <2>2. ClockInv'
    BY <2>1 DEF SweepInv, ClockInv, ActivityPending
  <2>3. SnapshotInv'
    BY <1>0, <1>2, <2>1 DEF SweepInv, ClockInv, SnapshotInv, CyclicSnapshot
  <2>4. RequestInv'
    BY <1>2, <2>1 DEF SweepInv, RequestInv, CyclicSnapshot, Requested
  <2> QED
    BY <2>2, <2>3, <2>4 DEF SweepInv
<1>3. ASSUME NEW u \in Users, CyclicCheck(u)
      PROVE  SweepInv'
  <2>1. UNCHANGED <<user_timeouts, log, progress, idle, raced>>
    BY <1>3 DEF CyclicCheck
  <2>2. ClockInv'
    BY <2>1 DEF SweepInv, ClockInv, ActivityPending
  <2>3. SnapshotInv'
    BY <1>3, <2>1 DEF SweepInv, SnapshotInv, CyclicCheck, Erase
  <2>4. ASSUME NEW v \in Users \ raced, Requested(v)'
        PROVE  idle[v] = Timeout
    <3>1. CASE Requested(v)
      BY <3>1, <2>4 DEF SweepInv, RequestInv
    <3>2. CASE ~Requested(v)
      <4>0. \A w \in Users, k \in Slots :
              \/ Request(requests, u)[w][k] = requests[w][k]
              \/ w = u /\ Request(requests, u)[w][k] = "sent"
        BY <1>00, RequestOps
      <4>1. u = v /\ snapshot[u] >= Timeout
        BY <1>3, <2>4, <3>2, <4>0 DEF CyclicCheck, Requested
      <4>2. snapshot[u] <= idle[u]
        BY <1>3, <2>4, <4>1 DEF SweepInv, SnapshotInv, CyclicCheck
      <4> QED
        BY <1>0, <1>3, <4>1, <4>2, ClientMgrAssumption
           DEF Ages, CyclicCheck
    <3> QED
      BY <3>1, <3>2
  <2>5. RequestInv'
    BY <2>1, <2>4 DEF RequestInv
  <2> QED
    BY <2>2, <2>3, <2>5 DEF SweepInv
<1>4. CASE CyclicSleep
  BY <1>4
     DEF SweepInv, ClockInv, SnapshotInv, RequestInv, Requested, CyclicSleep,
         ActivityPending
<1>5. CASE Tick
  <2>1. /\ UNCHANGED <<log, progress, requests, raced>>
        /\ DOMAIN user_timeouts' = DOMAIN user_timeouts
        /\ DOMAIN snapshot' = DOMAIN snapshot
        /\ \A u \in DOMAIN user_timeouts :
             user_timeouts'[u] = IF user_timeouts[u] < Timeout
                                 THEN user_timeouts[u] + 1
                                 ELSE user_timeouts[u]
        /\ \A u \in DOMAIN snapshot :
             snapshot'[u] = IF snapshot[u] < Timeout
                            THEN snapshot[u] + 1 ELSE snapshot[u]
        /\ \A u \in Users :
             idle'[u] = IF idle[u] < Timeout THEN idle[u] + 1 ELSE idle[u]
    BY <1>5 DEF Tick, Older, TypeOK
  <2>2. \A u : ActivityPending(u)' <=> ActivityPending(u)
    BY <2>1 DEF ActivityPending
  <2>3. ClockInv'
    BY <1>0, <2>1, <2>2, OlderKeeps DEF SweepInv, ClockInv
  <2>4. SnapshotInv'
    BY <1>0, <2>1, OlderKeeps DEF SweepInv, SnapshotInv
  <2>5. RequestInv'
    BY <2>1, ClientMgrAssumption DEF SweepInv, RequestInv, Requested
  <2> QED
    BY <2>3, <2>4, <2>5 DEF SweepInv
<1>6. ASSUME NEW u \in Users, OpenHandler(u) \/ MessageHandler(u)
      PROVE  SweepInv'
  <2>1. /\ UNCHANGED <<user_timeouts, snapshot>>
        /\ Acts(u)
        /\ Send("CONNECTION_OPENED", u) \/ Send("NEW_MESSAGE", u)
    BY <1>6 DEF OpenHandler, MessageHandler
  <2>2. /\ \A v \in Users \ {u} : idle'[v] = idle[v]
        /\ raced \subseteq raced'
        /\ u \in DOMAIN snapshot \/ Requested(u) => u \in raced'
    BY <2>1 DEF Acts, TypeOK
  <2>3. ActivityPending(u)' /\ \A v : ActivityPending(v) => ActivityPending(v)'
    BY <2>1, PendingSend DEF EventIds
  <2>4. ClockInv'
    BY <1>0, <2>1, <2>2, <2>3 DEF SweepInv, ClockInv
  <2>5. SnapshotInv'
    BY <1>0, <2>1, <2>2 DEF SweepInv, SnapshotInv
  <2>6. \A v \in Users : Requested(v)' => Requested(v)
    <3>1. CASE OpenHandler(u)
      <4>1. \A v \in Users, j \in Slots :
              requests'[v][j] # "none" => requests[v][j] # "none"
        BY <1>00, <3>1, ShakenOps DEF OpenHandler
      <4> QED
        BY <4>1, RequestedKeeps
    <3>2. CASE MessageHandler(u)
      BY <3>2, RequestedKeeps DEF MessageHandler
    <3> QED
      BY <1>6, <3>1, <3>2
  <2>7. RequestInv'
    BY <2>2, <2>6 DEF SweepInv, RequestInv
  <2> QED
    BY <2>4, <2>5, <2>7 DEF SweepInv
<1>7. ASSUME UNCHANGED <<user_timeouts, snapshot, idle, raced>>,
             \/ \E u \in Users : Send("CONNECTION_CLOSED", u)
             \/ UNCHANGED <<log, progress>>,
             \A v \in Users, j \in Slots :
               requests'[v][j] # "none" => requests[v][j] # "none"
      PROVE  SweepInv'
  <2>1. \A v \in Users : Requested(v)' => Requested(v)
    BY <1>7, RequestedKeeps
  <2>2. \A v : ActivityPending(v) => ActivityPending(v)'
    BY <1>7, PendingSend DEF EventIds, ActivityPending
  <2>3. ClockInv'
    BY <1>7, <2>2 DEF SweepInv, ClockInv
  <2> QED
    BY <1>7, <2>1, <2>3 DEF SweepInv, SnapshotInv, RequestInv
<1>8. ASSUME NEW u \in Users, CloseHandler(u) PROVE SweepInv'
  <2>1. \A v \in Users, j \in Slots :
          requests'[v][j] # "none" => requests[v][j] # "none"
    BY <1>00, <1>8, ShakenOps DEF CloseHandler
  <2> QED
    BY <1>7, <1>8, <2>1 DEF CloseHandler
<1>9. ASSUME NEW u \in Users, PeerClose(u) PROVE SweepInv'
  BY <1>7, <1>9 DEF PeerClose
<1>10. ASSUME NEW u \in Users, NEW k \in Slots,
              DisconnectUser(u, k)
       PROVE  SweepInv'
  <2>1. \A v \in Users, j \in Slots :
          requests'[v][j] # "none" => requests[v][j] # "none"
    BY <1>10, DisconnectUserOps
  <2> QED
    BY <1>7, <1>10, <2>1 DEF DisconnectUser
<1>11. CASE StrangerComesOrGoes
  <2>1. \A v \in Users, j \in Slots :
          requests'[v][j] # "none" => requests[v][j] # "none"
    BY <1>00, <1>11, ShakenOps DEF StrangerComesOrGoes
  <2> QED
    BY <1>7, <1>11, <2>1 DEF StrangerComesOrGoes
<1>12. CASE Ends
  BY <1>12, SweepEnds
<1>13. CASE UNCHANGED vars
  BY <1>13
     DEF SweepInv, ClockInv, SnapshotInv, RequestInv, Requested,
         ActivityPending, vars
<1> QED
  BY <1>1, <1>2, <1>3, <1>4, <1>5, <1>6, <1>8, <1>9, <1>10, <1>11, <1>12,
     <1>13
     DEF Next, Step, Cyclic, HandleRequest, DisconnectUserThrows,
         EndsOtherwise

\* Nobody is disconnected for silence who was heard of within the timeout,
\* unless the sweep could not see that.
THEOREM CondemnedAreIdle == Spec => []OnlyIdleCondemned
<1>1. TypeOK /\ SweepInv => OnlyIdleCondemned
  BY DEF SweepInv, RequestInv, OnlyIdleCondemned
<1> QED
  BY <1>1, TypeInit, TypeStep, SweepInit, SweepStep, PTL DEF Spec

-----------------------------------------------------------------------------
(* Sessions.                                                               *)

\* Who is closing is connected still, and so is the user whose handle a request
\* has found.
SessionInv ==
  /\ \A u \in closing : connected[u]
  /\ \A u \in Users, k \in Slots :
       requests[u][k] = "found" => connected[u]

\* At the beginning, and at the end, nobody is closing.
LEMMA SessionBlank == Blank => SessionInv
BY DEF Blank, SessionInv

LEMMA SessionInit == Init => SessionInv
BY BlankOps, SessionBlank

LEMMA SessionEnds == Ends => SessionInv'
<1>1. Blank' => SessionInv'
  BY SessionBlank, PTL
<1> QED
  BY <1>1, BlankOps

\* Every step keeps it.
LEMMA SessionStep == TypeOK /\ SessionInv /\ [Next]_vars => SessionInv'
<1> SUFFICES ASSUME TypeOK, SessionInv, [Next]_vars
             PROVE  SessionInv'
  OBVIOUS
<1> USE DEF sessionVars
<1>0. /\ connected \in [Users -> BOOLEAN]
      /\ closing \in SUBSET Users
      /\ IsRequests(requests, Slots)
  BY DEF TypeOK, IsRequests
<1>1. CASE UNCHANGED <<sessionVars, requests>>
  BY <1>1 DEF SessionInv
<1>2. ASSUME NEW i \in DOMAIN log, Handler(i) PROVE SessionInv'
  BY <1>1, <1>2
     DEF Handler, ConnectionOpened, ConnectionOpenedUsers, ConnectionClosed,
         ConnectionClosedUsers, NewMessage
<1>3. ASSUME NEW u \in Users, CyclicCheck(u) PROVE SessionInv'
  <2>1. \A v \in Users, j \in Slots :
          Request(requests, u)[v][j] = "found" => requests[v][j] = "found"
    BY <1>0, RequestOps
  <2> QED
    BY <1>3, <2>1 DEF CyclicCheck, SessionInv
<1>4. CASE CyclicSnapshot \/ CyclicSleep \/ Tick \/ UNCHANGED vars
  BY <1>1, <1>4 DEF CyclicSnapshot, CyclicSleep, Tick, vars
<1>5. ASSUME NEW u \in Users, OpenHandler(u) PROVE SessionInv'
  <2>1. \A v \in Users, k \in Slots : Shaken(requests)[v][k] = "found"
          => connected'[v]
    BY <1>0, ShakenOps
  <2>2. \A v \in Users : connected[v] => connected'[v]
    BY <1>0, <1>5 DEF OpenHandler
  <2> QED
    BY <1>0, <1>5, <2>1, <2>2 DEF OpenHandler, SessionInv
<1>6. ASSUME NEW u \in Users, MessageHandler(u) PROVE SessionInv'
  BY <1>1, <1>6 DEF MessageHandler
<1>7. ASSUME NEW u \in Users, PeerClose(u) PROVE SessionInv'
  BY <1>7 DEF PeerClose, SessionInv
<1>8. ASSUME NEW u \in Users, CloseHandler(u) PROVE SessionInv'
  <2>1. \A v \in Users, k \in Slots : Shaken(requests)[v][k] = "found"
          => connected'[v]
    BY <1>0, ShakenOps
  <2>2. \A v \in Users \ {u} : connected'[v] = connected[v]
    BY <1>0, <1>8 DEF CloseHandler
  <2> QED
    BY <1>0, <1>8, <2>1, <2>2 DEF CloseHandler, SessionInv
<1>9. ASSUME NEW u \in Users, NEW k \in Slots,
             DisconnectUser(u, k)
      PROVE  SessionInv'
  BY <1>9, DisconnectUserOps DEF DisconnectUser, SessionInv
<1>10. CASE StrangerComesOrGoes
  <2>1. \A v \in Users, k \in Slots : Shaken(requests)[v][k] = "found"
          => connected'[v]
    BY <1>0, ShakenOps
  <2> QED
    BY <1>10, <2>1 DEF StrangerComesOrGoes, SessionInv
<1>11. CASE Ends
  BY <1>11, SessionEnds
<1> QED
  BY <1>2, <1>3, <1>4, <1>5, <1>6, <1>7, <1>8, <1>9, <1>10, <1>11
     DEF Next, Step, Cyclic, HandleRequest, DisconnectUserThrows,
         EndsOtherwise

-----------------------------------------------------------------------------
(* What the log says.                                                      *)

Opens(i, u) == log[i].event = "CONNECTION_OPENED" /\ log[i].user = u
Closes(i, u) == log[i].event = "CONNECTION_CLOSED" /\ log[i].user = u

NoEvents(u) == \A i \in DOMAIN log : log[i].user # u

\* The last event of u tells whether it is connected, and so does the last one
\* that is not a message.
LastEvent(u) ==
  \E i \in DOMAIN log :
    /\ log[i].user = u
    /\ \A j \in DOMAIN log : log[j].user = u => j <= i
    /\ connected[u] <=> log[i].event # "CONNECTION_CLOSED"

LastChange(u) ==
  \E i \in DOMAIN log :
    /\ log[i].user = u
    /\ log[i].event # "NEW_MESSAGE"
    /\ \A j \in DOMAIN log :
         log[j].user = u /\ log[j].event # "NEW_MESSAGE" => j <= i
    /\ connected[u] <=> log[i].event = "CONNECTION_OPENED"

\* Between two connections of a name, and after the last that is over, is the
\* event that it was closed.
ClosedBetween(u) ==
  /\ ~connected[u] =>
       \A i \in DOMAIN log :
         Opens(i, u) => \E c \in DOMAIN log : i < c /\ Closes(c, u)
  /\ \A i, j \in DOMAIN log :
       i < j /\ Opens(i, u) /\ Opens(j, u) =>
         \E c \in DOMAIN log : i < c /\ c < j /\ Closes(c, u)

LogInv ==
  \A u \in Users :
    /\ \/ NoEvents(u) /\ ~connected[u]
       \/ LastEvent(u) /\ LastChange(u)
    /\ ClosedBetween(u)

\* An event that fits the connection keeps it.
LEMMA LogSend ==
  ASSUME TypeOK, LogInv, NEW e \in EventIds, NEW u \in Users, Send(e, u),
         connected' = [connected EXCEPT ![u] = (e # "CONNECTION_CLOSED")],
         e = "CONNECTION_OPENED" <=> ~connected[u]
  PROVE  LogInv'
<1>0. DOMAIN log = 1 .. Len(log) /\ Len(log) \in Nat
  BY LogEntry
<1> SUFFICES ASSUME NEW n \in Nat, n = Len(log) + 1
             PROVE  LogInv'
  BY <1>0
<1>1. /\ DOMAIN log' = DOMAIN log \cup {n}
      /\ n \in DOMAIN log'
      /\ log'[n] = [event |-> e, user |-> u]
      /\ \A i \in DOMAIN log : log'[i] = log[i]
      /\ \A i \in DOMAIN log : i < n /\ i \in Nat
  <2>1. /\ DOMAIN log' = DOMAIN log \cup {Len(log) + 1}
        /\ log'[Len(log) + 1] = [event |-> e, user |-> u]
        /\ \A i \in DOMAIN log : log'[i] = log[i]
    BY SendOps
  <2> QED
    BY <1>0, <2>1
<1>2. log'[n].event = e /\ log'[n].user = u
  BY <1>1
<1>3. connected \in [Users -> BOOLEAN]
  BY DEF TypeOK
<1>4. ASSUME NEW v \in Users, v # u
      PROVE  /\ \/ NoEvents(v)' /\ ~connected'[v]
                \/ LastEvent(v)' /\ LastChange(v)'
             /\ ClosedBetween(v)'
  <2>1. connected'[v] = connected[v]
    BY <1>3, <1>4
  <2>2. NoEvents(v) => NoEvents(v)'
    BY <1>1, <1>2, <1>4 DEF NoEvents
  <2>3. LastEvent(v) => LastEvent(v)'
    BY <1>1, <1>2, <1>4, <2>1 DEF LastEvent
  <2>4. LastChange(v) => LastChange(v)'
    BY <1>1, <1>2, <1>4, <2>1 DEF LastChange
  <2>5. ClosedBetween(v)'
    <3>1. ClosedBetween(v)
      BY DEF LogInv
    <3> QED
      BY <1>1, <1>2, <1>4, <2>1, <3>1 DEF ClosedBetween, Opens, Closes
  <2> QED
    BY <2>1, <2>2, <2>3, <2>4, <2>5 DEF LogInv
<1>5. connected'[u] <=> e # "CONNECTION_CLOSED"
  BY <1>3
<1>6. LastEvent(u)'
  BY <1>1, <1>2, <1>5 DEF LastEvent
<1>7. LastChange(u)'
  <2>1. CASE e = "NEW_MESSAGE"
    <3>1. connected[u] /\ connected'[u]
      BY <1>5, <2>1
    <3>2. LastChange(u)
      BY <3>1 DEF LogInv
    <3> QED
      BY <1>1, <1>2, <2>1, <3>1, <3>2 DEF LastChange
  <2>2. CASE e # "NEW_MESSAGE"
    <3>1. connected'[u] <=> log'[n].event = "CONNECTION_OPENED"
      BY <1>2, <1>5, <2>2 DEF EventIds
    <3> QED
      BY <1>1, <1>2, <2>2, <3>1 DEF LastChange
  <2> QED
    BY <2>1, <2>2
<1>8. ClosedBetween(u)'
  <2>0. ClosedBetween(u)
    BY DEF LogInv
  <2>1. ASSUME ~connected'[u], NEW i \in DOMAIN log', Opens(i, u)'
        PROVE  \E c \in DOMAIN log' : i < c /\ Closes(c, u)'
    <3>1. e = "CONNECTION_CLOSED"
      BY <1>5, <2>1
    <3>2. i < n
      BY <1>1, <1>2, <2>1, <3>1 DEF Opens
    <3>3. Closes(n, u)'
      BY <1>2, <3>1 DEF Closes
    <3> QED
      BY <1>1, <3>2, <3>3
  <2>2. ASSUME NEW i \in DOMAIN log', NEW j \in DOMAIN log',
               i < j, Opens(i, u)', Opens(j, u)'
        PROVE  \E c \in DOMAIN log' : i < c /\ c < j /\ Closes(c, u)'
    <3>1. i \in DOMAIN log /\ Opens(i, u)
      BY <1>1, <2>2 DEF Opens
    <3>2. CASE j = n
      <4>1. ~connected[u]
        BY <1>2, <2>2, <3>2 DEF Opens
      <4>2. PICK c \in DOMAIN log : i < c /\ Closes(c, u)
        BY <2>0, <3>1, <4>1 DEF ClosedBetween
      <4> QED
        BY <1>1, <3>2, <4>2 DEF Closes
    <3>3. CASE j # n
      <4>1. j \in DOMAIN log /\ Opens(j, u)
        BY <1>1, <2>2, <3>3 DEF Opens
      <4>2. PICK c \in DOMAIN log : i < c /\ c < j /\ Closes(c, u)
        BY <2>0, <2>2, <3>1, <4>1 DEF ClosedBetween
      <4> QED
        BY <1>1, <4>2 DEF Closes
    <3> QED
      BY <3>2, <3>3
  <2> QED
    BY <2>1, <2>2 DEF ClosedBetween
<1> QED
  BY <1>4, <1>6, <1>7, <1>8 DEF LogInv

\* At the beginning, and at the end, it is empty.
LEMMA LogBlank == Blank => LogInv
<1> SUFFICES ASSUME Blank PROVE LogInv
  OBVIOUS
<1>1. DOMAIN log = {} /\ \A u \in Users : ~connected[u]
  BY DEF Blank
<1> QED
  BY <1>1 DEF LogInv, NoEvents, ClosedBetween

LEMMA LogInit == Init => LogInv
BY BlankOps, LogBlank

LEMMA LogEnds == Ends => LogInv'
<1>1. Blank' => LogInv'
  BY LogBlank, PTL
<1> QED
  BY <1>1, BlankOps

\* Every step keeps it.
LEMMA LogStep == TypeOK /\ SessionInv /\ LogInv /\ [Next]_vars => LogInv'
<1> SUFFICES ASSUME TypeOK, SessionInv, LogInv, [Next]_vars
             PROVE  LogInv'
  OBVIOUS
<1> USE DEF eventVars, sessionVars
<1>0. connected \in [Users -> BOOLEAN]
  BY DEF TypeOK
<1>1. CASE UNCHANGED <<log, connected>>
  BY <1>1
     DEF LogInv, NoEvents, LastEvent, LastChange, ClosedBetween, Opens, Closes
<1>2. ASSUME NEW u \in Users, OpenHandler(u) PROVE LogInv'
  BY <1>0, <1>2, LogSend DEF OpenHandler, EventIds
<1>3. ASSUME NEW u \in Users, MessageHandler(u) PROVE LogInv'
  <2>1. connected' = [connected EXCEPT ![u] = TRUE]
    BY <1>0, <1>3 DEF MessageHandler
  <2> QED
    BY <1>0, <1>3, <2>1, LogSend DEF MessageHandler, EventIds
<1>4. ASSUME NEW u \in Users, CloseHandler(u) PROVE LogInv'
  <2>1. connected[u]
    BY <1>4 DEF CloseHandler, SessionInv
  <2> QED
    BY <1>0, <1>4, <2>1, LogSend DEF CloseHandler, EventIds
<1>5. ASSUME NEW i \in DOMAIN log, Handler(i) PROVE LogInv'
  BY <1>1, <1>5
     DEF Handler, ConnectionOpened, ConnectionOpenedUsers, ConnectionClosed,
         ConnectionClosedUsers, NewMessage, Advance
<1>6. ASSUME NEW u \in Users,
             \/ PeerClose(u)
             \/ \E k \in Slots : DisconnectUser(u, k)
      PROVE  LogInv'
  BY <1>1, <1>6 DEF PeerClose, DisconnectUser
<1>7. CASE Cyclic \/ Tick \/ StrangerComesOrGoes \/ UNCHANGED vars
  BY <1>1, <1>7
     DEF Cyclic, CyclicSnapshot, CyclicCheck, CyclicSleep, Tick,
         StrangerComesOrGoes, vars
<1>8. CASE Ends
  BY <1>8, LogEnds
<1> QED
  BY <1>2, <1>3, <1>4, <1>5, <1>6, <1>7, <1>8
     DEF Next, Step, HandleRequest, DisconnectUserThrows, EndsOtherwise

-----------------------------------------------------------------------------
(* Whose data the list shows.                                              *)

\* The entry of u is its User of a connection, and no handler of an event that
\* this one was closed has been in the list since.
Entry(u) ==
  /\ users[u] \in DOMAIN log
  /\ Opens(users[u], u)
  /\ u \notin misled =>
       \A c \in DOMAIN log :
         c > users[u] /\ Closes(c, u) => progress[c] # "done"

EntryInv == \A u \in DOMAIN users : Entry(u)

\* An entry that stays is kept, unless its user closed a connection and the
\* handler of that has been in the list.
LEMMA EntryKeeps ==
  ASSUME NEW u \in DOMAIN users, Entry(u), users'[u] = users[u],
         u \notin misled' => u \notin misled,
         \A i \in DOMAIN log : i \in DOMAIN log' /\ log'[i] = log[i],
         \A i \in DOMAIN log' :
           Closes(i, u)' /\ progress'[i] = "done" =>
             i \in DOMAIN log /\ progress[i] = "done"
  PROVE  Entry(u)'
BY DEF Entry, Opens, Closes

\* At the beginning, and at the end, the list is empty.
LEMMA EntryBlank == Blank => EntryInv
BY DEF Blank, Nobody, EntryInv

LEMMA EntryInit == Init => EntryInv
BY BlankOps, EntryBlank

LEMMA EntryEnds == Ends => EntryInv'
<1>1. Blank' => EntryInv'
  BY EntryBlank, PTL
<1> QED
  BY <1>1, BlankOps

\* A send keeps the entries.
LEMMA EntrySend ==
  ASSUME TypeOK, EntryInv, NEW e \in EventIds, NEW u \in Users, Send(e, u),
         users' = users, misled \cap DOMAIN users \subseteq misled'
  PROVE  EntryInv'
<1>1. /\ \A i \in DOMAIN log :
           /\ i \in DOMAIN log'
           /\ log'[i] = log[i]
           /\ progress'[i] = progress[i]
      /\ \A i \in DOMAIN log' : i \in DOMAIN log \/ progress'[i] = "sent"
  BY SendOps
<1>2. ASSUME NEW v \in DOMAIN users
      PROVE  Entry(v)'
  BY <1>1, EntryKeeps DEF EntryInv
<1> QED
  BY <1>2 DEF EntryInv

\* Every step keeps it.
LEMMA EntryStep == TypeOK /\ EntryInv /\ [Next]_vars => EntryInv'
<1> SUFFICES ASSUME TypeOK, EntryInv, [Next]_vars
             PROVE  EntryInv'
  OBVIOUS
<1>1. CASE UNCHANGED <<users, misled, log, progress>>
  BY <1>1 DEF EntryInv, Entry, Opens, Closes
<1>2. ASSUME NEW i \in DOMAIN log, Handler(i) PROVE EntryInv'
  <2>1. /\ log' = log
        /\ \A j \in DOMAIN log \ {i} : progress'[j] = progress[j]
        /\ misled \subseteq misled'
    <3>1. \E s \in ProgressStates : Advance(i, s)
      BY <1>2
         DEF Handler, ConnectionOpened, ConnectionOpenedUsers,
             ConnectionClosed, ConnectionClosedUsers, NewMessage,
             ProgressStates
    <3>2. misled \subseteq misled'
      BY <1>2
         DEF Handler, ConnectionOpened, ConnectionOpenedUsers,
             ConnectionClosed, ConnectionClosedUsers, NewMessage, Invert
    <3> QED
      BY <3>1, <3>2, AdvanceOps
  <2>2. CASE ConnectionOpened(i) \/ ConnectionClosed(i) \/ NewMessage(i)
    <3>1. /\ users' = users
          /\ Closes(i, log[i].user)' => progress'[i] # "done"
      BY <2>1, <2>2, AdvanceOps
         DEF ConnectionOpened, ConnectionClosed, NewMessage, At, Closes,
             ProgressStates
    <3>2. ASSUME NEW u \in DOMAIN users PROVE Entry(u)'
      BY <2>1, <3>1, EntryKeeps DEF EntryInv, Closes
    <3> QED
      BY <3>1, <3>2 DEF EntryInv
  <2>3. CASE ConnectionOpenedUsers(i)
    <3>1. /\ users' = Insert(users, log[i].user, i)
          /\ Opens(i, log[i].user)
          /\ Invert(i, "users")
      BY <2>3 DEF ConnectionOpenedUsers, At, Opens
    <3>2. ASSUME NEW u \in DOMAIN users PROVE Entry(u)'
      <4>1. users'[u] = users[u]
        BY <3>1, <3>2 DEF Insert, Assign
      <4> QED
        BY <2>1, <3>1, <4>1, EntryKeeps DEF EntryInv, Opens, Closes
    <3>3. ASSUME NEW u \in DOMAIN users', u \notin DOMAIN users
          PROVE  Entry(u)'
      <4>1. u = log[i].user /\ users'[u] = i
        BY <3>1, <3>3 DEF Insert, Assign
      <4>2. ASSUME u \notin misled', NEW c \in DOMAIN log, c > i, Closes(c, u)
            PROVE  progress'[c] # "done"
        <5>1. ~Outrun(i, "users")
          BY <3>1, <4>1, <4>2 DEF Invert
        <5>2. progress[c] # "done"
          BY <3>1, <4>1, <4>2, <5>1 DEF Outrun, Opposed, Opens, Closes
        <5>3. c # i
          BY <4>1, <3>1, <4>2 DEF Opens, Closes
        <5> QED
          BY <2>1, <5>2, <5>3
      <4> QED
        BY <2>1, <3>1, <4>1, <4>2 DEF Entry, Opens, Closes
    <3> QED
      BY <3>2, <3>3 DEF EntryInv
  <2>4. CASE ConnectionClosedUsers(i)
    <3>1. users' = Erase(users, log[i].user)
      BY <2>4 DEF ConnectionClosedUsers
    <3>2. ASSUME NEW u \in DOMAIN users'
          PROVE  Entry(u)'
      <4>1. u \in DOMAIN users /\ u # log[i].user /\ users'[u] = users[u]
        BY <3>1, <3>2 DEF Erase
      <4> QED
        BY <2>1, <4>1, EntryKeeps DEF EntryInv, Closes
    <3> QED
      BY <3>2 DEF EntryInv
  <2> QED
    BY <1>2, <2>2, <2>3, <2>4 DEF Handler
<1>3. ASSUME NEW u \in Users, OpenHandler(u) PROVE EntryInv'
  BY <1>3, EntrySend DEF OpenHandler, tableVars, EventIds
<1>4. ASSUME NEW u \in Users, MessageHandler(u) PROVE EntryInv'
  BY <1>4, EntrySend DEF MessageHandler, tableVars, orderVars, EventIds
<1>5. ASSUME NEW u \in Users, CloseHandler(u) PROVE EntryInv'
  BY <1>5, EntrySend DEF CloseHandler, tableVars, orderVars, EventIds
<1>6. ASSUME NEW u \in Users,
             \/ PeerClose(u)
             \/ \E k \in Slots : DisconnectUser(u, k)
      PROVE  EntryInv'
  BY <1>1, <1>6
     DEF PeerClose, DisconnectUser, tableVars, orderVars, eventVars
<1>7. CASE Cyclic \/ Tick \/ StrangerComesOrGoes \/ UNCHANGED vars
  BY <1>1, <1>7
     DEF Cyclic, CyclicSnapshot, CyclicCheck, CyclicSleep, Tick,
         StrangerComesOrGoes, tableVars, eventVars, orderVars, vars
<1>8. CASE Ends
  BY <1>8, EntryEnds
<1> QED
  BY <1>2, <1>3, <1>4, <1>5, <1>6, <1>7, <1>8
     DEF Next, Step, HandleRequest, DisconnectUserThrows, EndsOtherwise

\* The entry of u is that of its last connection, if its events have been
\* handled, up to messages.
LEMMA ListIsCurrent ==
  ASSUME TypeOK, LogInv, NEW u \in DOMAIN users \ misled, Entry(u),
         \A i \in DOMAIN log :
           log[i].user = u /\ log[i].event # "NEW_MESSAGE"
             => progress[i] = "done",
         NEW i \in DOMAIN log, Opens(i, u)
  PROVE  i <= users[u]
<1> SUFFICES ASSUME ~(i <= users[u]) PROVE FALSE
  OBVIOUS
<1>1. users[u] \in DOMAIN log /\ Opens(users[u], u)
  BY DEF Entry
<1>2. u \in Users /\ users[u] < i
  BY <1>1, LogEntry DEF TypeOK
<1>3. PICK c \in DOMAIN log : users[u] < c /\ Closes(c, u)
  BY <1>1, <1>2 DEF LogInv, ClosedBetween
<1>4. progress[c] = "done"
  BY <1>3 DEF Closes
<1>5. c > users[u]
  BY <1>1, <1>3, LogEntry
<1> QED
  BY <1>3, <1>4, <1>5 DEF Entry

\* The list has the data of the last connection of whoever was not misled.
THEOREM ListedCurrent == Spec => []ListedIsCurrent
<1>1. TypeOK /\ LogInv /\ EntryInv => ListedIsCurrent
  <2> SUFFICES ASSUME TypeOK, LogInv, EntryInv,
                      NEW u \in DOMAIN users \ misled, Handled(u),
                      NEW i \in DOMAIN log, Opens(i, u)
               PROVE  i <= users[u]
    BY DEF ListedIsCurrent, Opens
  <2>1. \A j \in DOMAIN log : log[j].user = u => progress[j] = "done"
    BY DEF Handled
  <2> QED
    BY <2>1, ListIsCurrent DEF EntryInv
<1> QED
  BY <1>1, TypeInit, TypeStep, SessionInit, SessionStep, LogInit, LogStep,
     EntryInit, EntryStep, PTL
     DEF Spec

-----------------------------------------------------------------------------
(* The list, the clocks and the connections.                               *)

In(u, table) ==
  IF table = "users" THEN u \in DOMAIN users ELSE u \in DOMAIN user_timeouts

\* The handler of event i has been in the table (Outrun).
Touched(i, table) ==
  IF table = "users"
  THEN progress[i] = "done" /\ log[i].event # "NEW_MESSAGE"
  ELSE progress[i] # "sent"

\* Since event k, a table says of u what the last event says that has been in
\* it, if no later one with the opposite effect was there before.
Follows(u, k, table) ==
  \A i \in DOMAIN log :
    i >= k /\ log[i].user = u /\ Touched(i, table) /\ ~Outrun(i, table) =>
      (In(u, table) <=> log[i].event # "CONNECTION_CLOSED")

\* It does so since some event that opened a connection, or there is none.
Kept(u, table) ==
  \/ NoEvents(u) /\ ~In(u, table)
  \/ \E k \in DOMAIN log : Opens(k, u) /\ Follows(u, k, table)

\* Users without a late handler since they last joined afresh, or ever.
TableInv ==
  /\ \A u \in Users \ inverted : Kept(u, "users") /\ Kept(u, "user_timeouts")
  /\ \A u \in Users \ misled : Kept(u, "users")

\* Outrun, by the events that have been in the table.
LEMMA OutrunTouched ==
  ASSUME NEW i \in DOMAIN log, NEW t \in {"users", "user_timeouts"}
  PROVE  Outrun(i, t) <=>
           \E j \in DOMAIN log :
             /\ j > i /\ log[j].user = log[i].user
             /\ Opposed(i, j) /\ Touched(j, t)
BY DEF Outrun, Touched

\* The same at the end of a step.
LEMMA OutrunTouchedNext ==
  ASSUME NEW i \in DOMAIN log', NEW t \in {"users", "user_timeouts"}
  PROVE  Outrun(i, t)' <=>
           \E j \in DOMAIN log' :
             /\ j > i /\ log'[j].user = log'[i].user
             /\ Opposed(i, j)' /\ Touched(j, t)'
BY DEF Outrun, Touched

\* What is done with others, or sent, changes nothing for u.
LEMMA FollowsKeeps ==
  ASSUME NEW u, NEW k \in DOMAIN log, NEW t \in {"users", "user_timeouts"},
         Follows(u, k, t), In(u, t)' <=> In(u, t),
         \A i \in DOMAIN log : i \in DOMAIN log' /\ log'[i] = log[i],
         \A i \in DOMAIN log :
           log[i].user = u => (Touched(i, t)' <=> Touched(i, t)),
         \A i \in DOMAIN log' :
           log'[i].user = u /\ Touched(i, t)' => i \in DOMAIN log
  PROVE  Follows(u, k, t)'
<1> SUFFICES ASSUME NEW i \in DOMAIN log', i >= k, log'[i].user = u,
                    Touched(i, t)', ~Outrun(i, t)'
             PROVE  In(u, t)' <=> log'[i].event # "CONNECTION_CLOSED"
  BY DEF Follows
<1>1. i \in DOMAIN log /\ log'[i] = log[i] /\ Touched(i, t)
  OBVIOUS
<1>2. ~Outrun(i, t)
  <2> SUFFICES ASSUME Outrun(i, t) PROVE FALSE
    OBVIOUS
  <2>1. PICK j \in DOMAIN log :
          j > i /\ log[j].user = u /\ Opposed(i, j) /\ Touched(j, t)
    BY <1>1, OutrunTouched
  <2>2. /\ j \in DOMAIN log' /\ log'[j] = log[j]
        /\ Opposed(i, j)' /\ Touched(j, t)'
    BY <1>1, <2>1 DEF Opposed
  <2> QED
    BY <1>1, <2>1, <2>2, OutrunTouchedNext
<1> QED
  BY <1>1, <1>2 DEF Follows

\* A handler that was not outrun sets the table for the events before it.
LEMMA FollowsAdvance ==
  ASSUME TypeOK, NEW i \in DOMAIN log, NEW k \in DOMAIN log,
         NEW t \in {"users", "user_timeouts"}, ~Outrun(i, t),
         In(log[i].user, t)' <=> log[i].event # "CONNECTION_CLOSED",
         log' = log, Touched(i, t)',
         \A j \in DOMAIN log \ {i} : Touched(j, t)' <=> Touched(j, t)
  PROVE  Follows(log[i].user, k, t)'
<1> SUFFICES ASSUME NEW m \in DOMAIN log, log[m].user = log[i].user,
                    Touched(m, t)', ~Outrun(m, t)'
             PROVE  In(log[i].user, t)' <=> log[m].event # "CONNECTION_CLOSED"
  BY DEF Follows
<1>0. i \in Nat /\ m \in Nat
  BY LogEntry
<1>1. CASE m = i
  BY <1>1
<1>2. CASE m < i
  <2>1. ~Opposed(m, i)
    BY <1>0, <1>2, OutrunTouchedNext DEF Opposed
  <2> QED
    BY <2>1 DEF Opposed
<1>3. CASE m > i
  <2>1. Touched(m, t)
    BY <1>0, <1>3
  <2>2. ~Opposed(i, m)
    BY <1>3, <2>1, OutrunTouched
  <2> QED
    BY <2>2 DEF Opposed
<1> QED
  BY <1>0, <1>1, <1>2, <1>3

\* The same when u has no event, or gets one that opens a connection.
LEMMA KeptKeeps ==
  ASSUME NEW u, NEW t \in {"users", "user_timeouts"},
         Kept(u, t), In(u, t)' <=> In(u, t),
         \A i \in DOMAIN log : i \in DOMAIN log' /\ log'[i] = log[i],
         \A i \in DOMAIN log :
           log[i].user = u => (Touched(i, t)' <=> Touched(i, t)),
         \A i \in DOMAIN log' \ DOMAIN log :
           log'[i].user = u => ~Touched(i, t)' /\ ~NoEvents(u)
  PROVE  Kept(u, t)'
<1>1. CASE NoEvents(u)
  <2>1. NoEvents(u)'
    BY <1>1 DEF NoEvents
  <2>2. ~In(u, t)
    BY <1>1 DEF Kept, NoEvents, Opens
  <2> QED
    BY <2>1, <2>2 DEF Kept
<1>2. CASE ~NoEvents(u)
  <2>1. PICK k \in DOMAIN log : Opens(k, u) /\ Follows(u, k, t)
    BY <1>2 DEF Kept
  <2>2. k \in DOMAIN log' /\ Opens(k, u)'
    BY <2>1 DEF Opens
  <2>3. Follows(u, k, t)'
    BY <2>1, FollowsKeeps
  <2> QED
    BY <2>2, <2>3 DEF Kept
<1> QED
  BY <1>1, <1>2

\* At the beginning, and at the end, nobody is anywhere.
LEMMA TableBlank == Blank => TableInv
<1> SUFFICES ASSUME Blank PROVE TableInv
  OBVIOUS
<1>1. DOMAIN log = {} /\ DOMAIN users = {} /\ DOMAIN user_timeouts = {}
  BY DEF Blank, Nobody
<1> QED
  BY <1>1 DEF TableInv, Kept, NoEvents, In

LEMMA TableInit == Init => TableInv
BY BlankOps, TableBlank

LEMMA TableEnds == Ends => TableInv'
<1>1. Blank' => TableInv'
  BY TableBlank, PTL
<1> QED
  BY <1>1, BlankOps

\* A handler that comes to table t and leaves table s.
LEMMA TableAdvance ==
  ASSUME TypeOK, TableInv, NEW i \in DOMAIN log,
         NEW s, NEW t, {s, t} = {"users", "user_timeouts"},
         Invert(i, t), log' = log,
         \A j \in DOMAIN log \ {i} : progress'[j] = progress[j],
         Touched(i, t)', Touched(i, s)' <=> Touched(i, s),
         In(log[i].user, t)' <=> log[i].event # "CONNECTION_CLOSED",
         \A u : u # log[i].user => (In(u, t)' <=> In(u, t)),
         \A u : In(u, s)' <=> In(u, s)
  PROVE  TableInv'
<1>1. \A j \in DOMAIN log \ {i} :
        \A x \in {"users", "user_timeouts"} : Touched(j, x)' <=> Touched(j, x)
  BY DEF Touched
<1>2. ASSUME NEW u, Kept(u, s) PROVE Kept(u, s)'
  BY <1>1, <1>2, KeptKeeps
<1>3. ASSUME NEW u, Kept(u, t), u = log[i].user => ~Outrun(i, t)
      PROVE  Kept(u, t)'
  <2>1. CASE u = log[i].user
    <3>1. PICK k \in DOMAIN log : Opens(k, u)
      BY <1>3, <2>1 DEF Kept, NoEvents
    <3>2. Follows(u, k, t)'
      BY <1>1, <1>3, <2>1, FollowsAdvance
    <3> QED
      BY <3>1, <3>2 DEF Kept, Opens
  <2>2. CASE u # log[i].user
    BY <1>1, <1>3, <2>2, KeptKeeps
  <2> QED
    BY <2>1, <2>2
<1>4. ASSUME NEW u \in Users, u \notin inverted'
      PROVE  Kept(u, "users")' /\ Kept(u, "user_timeouts")'
  <2>1. u \notin inverted /\ (u = log[i].user => ~Outrun(i, t))
    BY <1>4 DEF Invert
  <2>2. Kept(u, s) /\ Kept(u, t)
    BY <2>1 DEF TableInv
  <2>3. Kept(u, s)' /\ Kept(u, t)'
    BY <1>2, <1>3, <2>1, <2>2
  <2> QED
    BY <2>3
<1>5. ASSUME NEW u \in Users, u \notin misled'
      PROVE  Kept(u, "users")'
  <2>1. u \notin misled /\ (t = "users" /\ u = log[i].user => ~Outrun(i, t))
    BY <1>5 DEF Invert
  <2>2. Kept(u, "users")
    BY <2>1 DEF TableInv
  <2>3. s = "users" \/ t = "users"
    OBVIOUS
  <2> QED
    BY <1>2, <1>3, <2>1, <2>2, <2>3
<1> QED
  BY <1>4, <1>5 DEF TableInv

\* A send of somebody who starts afresh, or has been there before.
LEMMA TableSend ==
  ASSUME TypeOK, TableInv, NEW e \in EventIds, NEW u \in Users, Send(e, u),
         UNCHANGED <<users, user_timeouts>>,
         inverted \ {u} \subseteq inverted', misled \ {u} \subseteq misled',
         \/ e = "CONNECTION_OPENED" /\ Handled(u)
         \/ inverted' = inverted /\ misled' = misled /\ ~NoEvents(u)
  PROVE  TableInv'
<1>0. DOMAIN log = 1 .. Len(log) /\ Len(log) \in Nat
  BY LogEntry
<1> SUFFICES ASSUME NEW n \in Nat, n = Len(log) + 1
             PROVE  TableInv'
  BY <1>0
<1>1. /\ DOMAIN log' = DOMAIN log \cup {n}
      /\ log'[n] = [event |-> e, user |-> u]
      /\ progress'[n] = "sent"
      /\ \A i \in DOMAIN log : log'[i] = log[i] /\ progress'[i] = progress[i]
      /\ \A i \in DOMAIN log : i < n
  <2>1. /\ DOMAIN log' = DOMAIN log \cup {Len(log) + 1}
        /\ log'[Len(log) + 1] = [event |-> e, user |-> u]
        /\ progress'[Len(log) + 1] = "sent"
        /\ \A i \in DOMAIN log :
             log'[i] = log[i] /\ progress'[i] = progress[i]
    BY SendOps
  <2> QED
    BY <1>0, <2>1
<1>2. \A x : /\ \A v : In(v, x)' <=> In(v, x)
             /\ \A i \in DOMAIN log : Touched(i, x)' <=> Touched(i, x)
  BY <1>1 DEF In, Touched
<1>3. \A x \in {"users", "user_timeouts"} : ~Touched(n, x)'
  BY <1>1 DEF Touched
<1>4. ASSUME NEW v, NEW x \in {"users", "user_timeouts"}, Kept(v, x),
             v = u => ~NoEvents(u)
      PROVE  Kept(v, x)'
  <2>1. \A i \in DOMAIN log' \ DOMAIN log :
          log'[i].user = v => ~Touched(i, x)' /\ ~NoEvents(v)
    BY <1>1, <1>3, <1>4
  <2> QED
    BY <1>1, <1>2, <1>4, <2>1, KeptKeeps
<1>5. ASSUME e = "CONNECTION_OPENED",
             NEW x \in {"users", "user_timeouts"}
      PROVE  Kept(u, x)'
  <2>1. Opens(n, u)'
    BY <1>1, <1>5 DEF Opens
  <2>2. \A i \in DOMAIN log' : i >= n => i = n
    BY <1>0, <1>1
  <2>3. Follows(u, n, x)'
    BY <1>3, <2>2 DEF Follows
  <2> QED
    BY <1>1, <2>1, <2>3 DEF Kept
<1>6. ASSUME NEW v \in Users, v \notin inverted'
      PROVE  Kept(v, "users")' /\ Kept(v, "user_timeouts")'
  BY <1>4, <1>5, <1>6 DEF TableInv
<1>7. ASSUME NEW v \in Users, v \notin misled'
      PROVE  Kept(v, "users")'
  BY <1>4, <1>5, <1>7 DEF TableInv
<1> QED
  BY <1>6, <1>7 DEF TableInv

\* Every step keeps it.
LEMMA TableStep ==
  TypeOK /\ SessionInv /\ LogInv /\ TableInv /\ [Next]_vars => TableInv'
<1> SUFFICES ASSUME TypeOK, SessionInv, LogInv, TableInv, [Next]_vars
             PROVE  TableInv'
  OBVIOUS
<1>1. CASE UNCHANGED <<tableVars, eventVars, orderVars>>
  BY <1>1
     DEF TableInv, Kept, NoEvents, Opens, In, Follows, Touched, Outrun,
         Opposed, tableVars, eventVars, orderVars
<1>2. ASSUME NEW i \in DOMAIN log, Handler(i) PROVE TableInv'
  <2>1. /\ log' = log
        /\ \A j \in DOMAIN log \ {i} : progress'[j] = progress[j]
    BY <1>2, AdvanceOps
       DEF Handler, ConnectionOpened, ConnectionOpenedUsers,
           ConnectionClosed, ConnectionClosedUsers, NewMessage,
           ProgressStates
  <2>2. CASE ConnectionOpened(i) \/ ConnectionClosed(i) \/ NewMessage(i)
    <3>1. /\ Invert(i, "user_timeouts")
          /\ progress[i] = "sent"
          /\ users' = users
          /\ progress'[i] # "sent"
          /\ progress'[i] = "done" => log[i].event = "NEW_MESSAGE"
      BY <2>2, AdvanceOps
         DEF ConnectionOpened, ConnectionClosed, NewMessage, At,
             ProgressStates
    <3>2. /\ In(log[i].user, "user_timeouts")'
               <=> log[i].event # "CONNECTION_CLOSED"
          /\ \A u : u # log[i].user =>
               (In(u, "user_timeouts")' <=> In(u, "user_timeouts"))
      BY <2>1, <2>2
         DEF ConnectionOpened, ConnectionClosed, NewMessage, At, In, Assign,
             Erase
    <3>3. /\ Touched(i, "user_timeouts")'
          /\ Touched(i, "users")' <=> Touched(i, "users")
          /\ \A u : In(u, "users")' <=> In(u, "users")
      BY <2>1, <3>1 DEF Touched, In
    <3> QED
      BY <2>1, <3>1, <3>2, <3>3, TableAdvance
  <2>3. CASE ConnectionOpenedUsers(i) \/ ConnectionClosedUsers(i)
    <3>1. /\ Invert(i, "users")
          /\ progress[i] = "user_timeouts"
          /\ user_timeouts' = user_timeouts
          /\ progress'[i] = "done"
          /\ log[i].event # "NEW_MESSAGE"
      BY <2>3, AdvanceOps
         DEF ConnectionOpenedUsers, ConnectionClosedUsers, At, ProgressStates
    <3>2. /\ In(log[i].user, "users")' <=> log[i].event # "CONNECTION_CLOSED"
          /\ \A u : u # log[i].user => (In(u, "users")' <=> In(u, "users"))
      BY <2>1, <2>3
         DEF ConnectionOpenedUsers, ConnectionClosedUsers, At, In, Insert,
             Assign, Erase
    <3>3. /\ Touched(i, "users")'
          /\ Touched(i, "user_timeouts")' <=> Touched(i, "user_timeouts")
          /\ \A u : In(u, "user_timeouts")' <=> In(u, "user_timeouts")
      BY <2>1, <3>1 DEF Touched, In
    <3> QED
      BY <2>1, <3>1, <3>2, <3>3, TableAdvance
  <2> QED
    BY <1>2, <2>2, <2>3 DEF Handler
<1>3. ASSUME NEW u \in Users, OpenHandler(u) PROVE TableInv'
  <2>1. Handled(u) \/ ~NoEvents(u)
    BY DEF Handled, NoEvents
  <2> QED
    BY <1>3, <2>1, TableSend DEF OpenHandler, tableVars, EventIds
<1>4. ASSUME NEW u \in Users, connected[u] PROVE ~NoEvents(u)
  BY <1>4 DEF LogInv, LastEvent, NoEvents
<1>5. ASSUME NEW u \in Users, MessageHandler(u) PROVE TableInv'
  BY <1>4, <1>5, TableSend DEF MessageHandler, tableVars, orderVars, EventIds
<1>6. ASSUME NEW u \in Users, CloseHandler(u) PROVE TableInv'
  <2>1. ~NoEvents(u)
    BY <1>4, <1>6 DEF CloseHandler, SessionInv
  <2> QED
    BY <1>6, <2>1, TableSend DEF CloseHandler, tableVars, orderVars, EventIds
<1>7. ASSUME NEW u \in Users,
             \/ PeerClose(u)
             \/ \E k \in Slots : DisconnectUser(u, k)
      PROVE  TableInv'
  BY <1>1, <1>7 DEF PeerClose, DisconnectUser
<1>8. CASE Cyclic \/ Tick \/ StrangerComesOrGoes \/ UNCHANGED vars
  <2>1. CASE Tick
    BY <2>1
       DEF Tick, Older, TableInv, Kept, NoEvents, Opens, In, Follows, Touched,
           Outrun, Opposed, eventVars, orderVars
  <2>2. CASE Cyclic \/ StrangerComesOrGoes \/ UNCHANGED vars
    BY <1>1, <2>2
       DEF Cyclic, CyclicSnapshot, CyclicCheck, CyclicSleep,
           StrangerComesOrGoes, orderVars, vars
  <2> QED
    BY <1>8, <2>1, <2>2
<1>9. CASE Ends
  BY <1>9, TableEnds
<1> QED
  BY <1>2, <1>3, <1>5, <1>6, <1>7, <1>8, <1>9
     DEF Next, Step, HandleRequest, DisconnectUserThrows, EndsOtherwise

\* The clocks of a user whose events have all been handled.
LEMMA TimeoutsFollow ==
  ASSUME TypeOK, LogInv, NEW u \in Users, Kept(u, "user_timeouts"), Handled(u)
  PROVE  u \in DOMAIN user_timeouts <=> connected[u]
<1>1. CASE NoEvents(u)
  <2>1. ~connected[u]
    BY <1>1 DEF LogInv, NoEvents, LastEvent
  <2> QED
    BY <1>1, <2>1 DEF Kept, NoEvents, Opens, In
<1>2. CASE ~NoEvents(u)
  <2>1. PICK k \in DOMAIN log : Opens(k, u) /\ Follows(u, k, "user_timeouts")
    BY <1>2 DEF Kept
  <2>2. PICK i \in DOMAIN log :
          /\ log[i].user = u
          /\ \A j \in DOMAIN log : log[j].user = u => j <= i
          /\ connected[u] <=> log[i].event # "CONNECTION_CLOSED"
    BY <1>2 DEF LogInv, LastEvent
  <2>3. i >= k /\ ~Outrun(i, "user_timeouts")
    BY <2>1, <2>2, LogEntry DEF Opens, Outrun
  <2>4. Touched(i, "user_timeouts")
    BY <2>2 DEF Handled, Touched
  <2> QED
    BY <2>1, <2>2, <2>3, <2>4 DEF Follows, In
<1> QED
  BY <1>1, <1>2

\* The list, of a user whose events have been handled, up to messages.
LEMMA ListFollows ==
  ASSUME TypeOK, LogInv, NEW u \in Users, Kept(u, "users"),
         \A i \in DOMAIN log :
           log[i].user = u /\ log[i].event # "NEW_MESSAGE"
             => progress[i] = "done"
  PROVE  u \in DOMAIN users <=> connected[u]
<1>1. CASE NoEvents(u)
  <2>1. ~connected[u]
    BY <1>1 DEF LogInv, NoEvents, LastEvent
  <2> QED
    BY <1>1, <2>1 DEF Kept, NoEvents, Opens, In
<1>2. CASE ~NoEvents(u)
  <2>1. PICK k \in DOMAIN log : Opens(k, u) /\ Follows(u, k, "users")
    BY <1>2 DEF Kept
  <2>2. PICK i \in DOMAIN log :
          /\ log[i].user = u
          /\ log[i].event # "NEW_MESSAGE"
          /\ \A j \in DOMAIN log :
               log[j].user = u /\ log[j].event # "NEW_MESSAGE" => j <= i
          /\ connected[u] <=> log[i].event = "CONNECTION_OPENED"
    BY <1>2 DEF LogInv, LastChange
  <2>3. i >= k /\ ~Outrun(i, "users")
    BY <2>1, <2>2, LogEntry DEF Opens, Outrun
  <2>4. Touched(i, "users")
    BY <2>2 DEF Touched
  <2>5. connected[u] <=> log[i].event # "CONNECTION_CLOSED"
    BY <2>2, LogEntry DEF EventIds
  <2> QED
    BY <2>1, <2>2, <2>3, <2>4, <2>5 DEF Follows, In
<1> QED
  BY <1>1, <1>2

\* The two tables are right about whoever has no late handler, once all its
\* events have been handled.
THEOREM TablesFollow == Spec => []TablesFollowConnections
<1>1. TypeOK /\ LogInv /\ TableInv => TablesFollowConnections
  <2> SUFFICES ASSUME TypeOK, LogInv, TableInv,
                      NEW u \in Users \ inverted, Handled(u)
               PROVE  /\ u \in DOMAIN users <=> connected[u]
                      /\ u \in DOMAIN user_timeouts <=> connected[u]
    BY DEF TablesFollowConnections
  <2>1. Kept(u, "users") /\ Kept(u, "user_timeouts")
    BY DEF TableInv
  <2>2. \A i \in DOMAIN log : log[i].user = u => progress[i] = "done"
    BY DEF Handled
  <2> QED
    BY <2>1, <2>2, TimeoutsFollow, ListFollows
<1> QED
  BY <1>1, TypeInit, TypeStep, SessionInit, SessionStep, LogInit, LogStep,
     TableInit, TableStep, PTL
     DEF Spec

-----------------------------------------------------------------------------
(* ChatServer.                                                             *)

\* A kick that has found a handle has found that of somebody connected.
KickInv ==
  /\ kick \in Users
  /\ kicks \in [Users -> [KickSlots -> RequestStates]]
  /\ \A u \in Users, k \in KickSlots :
       kicks[u][k] = "found" => connected[u]

\* There are no kicks at the beginning.
LEMMA KickInit == ChatInit => KickInv
BY DEF ChatInit, KickInv, NoKicks, RequestStates

\* A kick that is handled.
LEMMA KickedOps ==
  ASSUME KickInv, NEW u \in Users, NEW k \in KickSlots, Kicked(u, k)
  PROVE  /\ KickInv'
         /\ PeerClose(u) \/ UNCHANGED vars
<1>1. PICK t \in RequestStates :
        /\ \/ Walk(u, kicks[u][k], t) /\ UNCHANGED closing
           \/ CloseConnection(u, kicks[u][k], t)
        /\ kicks' = [kicks EXCEPT ![u][k] = t]
  BY DEF Kicked, Disconnect
<1>2. IsRequests(kicks, KickSlots)
  BY DEF KickInv, IsRequests
<1>3. /\ IsRequests(kicks', KickSlots)
      /\ \A v \in Users, j \in KickSlots :
           kicks'[v][j] = IF v = u /\ j = k THEN t ELSE kicks[v][j]
  BY <1>1, <1>2 DEF IsRequests
<1>4. /\ t = "found" => connected[u]
      /\ \/ closing' = closing
         \/ /\ kicks[u][k] = "found" /\ u \notin closing
            /\ closing' = closing \cup {u}
  BY <1>1, DisconnectOps
<1>5. KickInv'
  BY <1>3, <1>4 DEF KickInv, Kicked, consoleVars, IsRequests
<1>6. CASE closing' = closing
  BY <1>5, <1>6 DEF Kicked, vars, sessionVars
<1>7. CASE closing' # closing
  BY <1>4, <1>5, <1>7 DEF KickInv, Kicked, PeerClose
<1> QED
  BY <1>5, <1>6, <1>7

\* Every step keeps it.
LEMMA KickStep == TypeOK /\ KickInv /\ [ChatNext]_allVars => KickInv'
<1> SUFFICES ASSUME TypeOK, KickInv, [ChatNext]_allVars
             PROVE  KickInv'
  OBVIOUS
<1> USE DEF sessionVars
<1>0. IsRequests(kicks, KickSlots)
  BY DEF KickInv, IsRequests
<1>1. CASE kick' \in Users /\ UNCHANGED <<kicks, connected>>
  BY <1>1 DEF KickInv
<1>2. CASE kicks' = Shaken(kicks) /\ UNCHANGED kick
  <2>1. /\ IsRequests(Shaken(kicks), KickSlots)
        /\ \A u \in Users, k \in KickSlots :
             Shaken(kicks)[u][k] = "found" => connected'[u]
    BY <1>0, ShakenOps
  <2> QED
    BY <1>2, <2>1 DEF KickInv, IsRequests
<1>3. CASE ChatEnds
  BY <1>3 DEF ChatEnds, KickInv, NoKicks, RequestStates, consoleVars
<1>4. CASE Shake /\ UNCHANGED consoleVars
  BY <1>1, <1>2, <1>4 DEF Shake, consoleVars, KickInv
<1>5. CASE Console \/ UNCHANGED allVars
  <2>1. kick' \in Users
    BY <1>5
       DEF Console, PrintUsers, PrintUsersReturn, PrintUsersFails, Enter,
           KickUser, KickUserFails, allVars, KickInv, consoleVars
  <2> QED
    BY <1>1, <1>5, <2>1
       DEF Console, PrintUsers, PrintUsersReturn, PrintUsersFails, Enter,
           KickUser, KickUserFails, allVars, vars
<1>6. CASE Rest
  <2>1. CASE Handler_KickUser
    <3>1. kick \in Users
      BY DEF KickInv
    <3>2. /\ IsRequests(Request(kicks, kick), KickSlots)
          /\ \A v \in Users, j \in KickSlots :
               Request(kicks, kick)[v][j] = "found" => kicks[v][j] = "found"
      BY <1>0, <3>1, RequestOps
    <3> QED
      BY <2>1, <3>2 DEF Handler_KickUser, KickInv, vars, IsRequests
  <2>2. CASE ~Handler_KickUser
    BY <1>1, <1>6, <2>2
       DEF Rest, Handler_GetUsers, GetUsers, Handler_GetUsersReturn, vars,
           consoleVars, KickInv
  <2> QED
    BY <2>1, <2>2
<1>7. ASSUME NEW u \in Users, NEW k \in KickSlots, HandleKick(u, k)
      PROVE  KickInv'
  BY <1>3, <1>7, KickedOps DEF HandleKick, KickedThrows
<1>8. CASE Strangers
  BY <1>2, <1>8 DEF Strangers, consoleVars
<1> QED
  BY <1>3, <1>4, <1>5, <1>6, <1>7, <1>8 DEF ChatNext

\* A step of the chat server is one of the client manager, or none: a kick that
\* finds its user closes the connection as the peer might, and one that throws
\* ends the process.
LEMMA ChatStep == KickInv /\ [ChatNext]_allVars => [Next]_vars
<1> SUFFICES ASSUME KickInv, [ChatNext]_allVars
             PROVE  [Next]_vars
  OBVIOUS
<1>1. CASE Step \/ Strangers
  BY <1>1 DEF Next, Strangers
<1>2. CASE Console \/ Rest \/ UNCHANGED allVars
  BY <1>2
     DEF Console, PrintUsers, PrintUsersReturn, PrintUsersFails, Enter,
         KickUser, KickUserFails, Rest, Handler_GetUsers, GetUsers,
         Handler_GetUsersReturn, Handler_KickUser, allVars
<1>3. ASSUME NEW u \in Users, NEW k \in KickSlots, HandleKick(u, k)
      PROVE  [Next]_vars
  BY <1>3, KickedOps DEF HandleKick, KickedThrows, Next, Step, EndsOtherwise
<1> QED
  BY <1>1, <1>2, <1>3 DEF ChatNext

\* The chat server implements the client manager, its console included.
THEOREM ChatIsClientMgr == ChatSpec => Spec
<1>1. ChatInit => Init
  BY DEF ChatInit
<1> QED
  BY <1>1, TypeInit, TypeStep, KickInit, KickStep, ChatStep, PTL
     DEF ChatSpec, Spec

-----------------------------------------------------------------------------
(* The answer to get_users.                                                *)

InAnswer == rest \in {"handled", "answered"}

\* While get_users is answered, the list does not change for the users who are
\* steady, and is right about them; the answer says what the list says.
SteadyInv ==
  /\ rest = "GET_USERS" \/ InAnswer =>
       \A u \in steady : u \in Users \ misled /\ ListSettled(u)
  /\ InAnswer =>
       \A u \in steady :
         /\ u \in DOMAIN p_users <=> u \in DOMAIN users
         /\ u \in DOMAIN users => p_users[u] = users[u]

\* What the client manager does with others, or for messages, leaves the entry
\* of a user who has settled.
LEMMA SettledStep ==
  ASSUME TypeOK, SessionInv, Step, running', NEW u \in Users \ misled,
         ListSettled(u), connected'[u] = connected[u]
  PROVE  /\ u \notin misled' /\ ListSettled(u)'
         /\ u \in DOMAIN users' <=> u \in DOMAIN users
         /\ u \in DOMAIN users => users'[u] = users[u]
<1>1. ASSUME NEW i \in DOMAIN log, Handler(i)
      PROVE  /\ u \notin misled' /\ ListSettled(u)'
             /\ u \in DOMAIN users' <=> u \in DOMAIN users
             /\ u \in DOMAIN users => users'[u] = users[u]
  <2>1. \E s \in ProgressStates : Advance(i, s)
    BY <1>1
       DEF Handler, ConnectionOpened, ConnectionOpenedUsers,
           ConnectionClosed, ConnectionClosedUsers, NewMessage,
           ProgressStates
  <2>2. log[i].user # u \/ NewMessage(i)
    BY <1>1
       DEF ListSettled, Handler, ConnectionOpened, ConnectionOpenedUsers,
           ConnectionClosed, ConnectionClosedUsers, At
  <2>3. log[i].user # u \/ log[i].event = "NEW_MESSAGE"
    BY <2>2 DEF NewMessage, At
  <2>4. ListSettled(u)'
    BY <2>1, <2>3, AdvanceOps DEF ListSettled
  <2>5. u \notin misled'
    BY <1>1, <2>2
       DEF Handler, ConnectionOpened, ConnectionOpenedUsers,
           ConnectionClosed, ConnectionClosedUsers, NewMessage, Invert
  <2>6. /\ u \in DOMAIN users' <=> u \in DOMAIN users
        /\ u \in DOMAIN users => users'[u] = users[u]
    BY <1>1, <2>2
       DEF Handler, ConnectionOpened, ConnectionOpenedUsers,
           ConnectionClosed, ConnectionClosedUsers, NewMessage,
           Insert, Assign, Erase
  <2> QED
    BY <2>4, <2>5, <2>6
<1>2. ASSUME NEW v \in Users, NEW e \in EventIds, Send(e, v),
             v # u \/ e = "NEW_MESSAGE"
      PROVE  ListSettled(u)'
  <2>1. \A i \in DOMAIN log' :
          \/ log'[i].user = v /\ log'[i].event = e
          \/ i \in DOMAIN log /\ log'[i] = log[i] /\ progress'[i] = progress[i]
    <3>1. /\ DOMAIN log' = DOMAIN log \cup {Len(log) + 1}
          /\ log'[Len(log) + 1] = [event |-> e, user |-> v]
          /\ \A i \in DOMAIN log :
               log'[i] = log[i] /\ progress'[i] = progress[i]
      BY <1>2, SendOps
    <3> QED
      BY <3>1
  <2> QED
    BY <1>2, <2>1 DEF ListSettled
<1>3. ASSUME NEW v \in Users,
             \/ OpenHandler(v) \/ MessageHandler(v) \/ CloseHandler(v)
             \/ PeerClose(v)
             \/ \E k \in Slots : DisconnectUser(v, k)
      PROVE  /\ u \notin misled' /\ users' = users /\ ListSettled(u)'
  <2>1. u \notin misled' /\ users' = users
    BY <1>3
       DEF OpenHandler, MessageHandler, CloseHandler, PeerClose,
           DisconnectUser, tableVars, orderVars
  <2>2. connected \in [Users -> BOOLEAN]
    BY DEF TypeOK
  <2>3. ASSUME UNCHANGED eventVars PROVE ListSettled(u)'
    BY <2>3 DEF ListSettled, eventVars
  <2>4. CASE OpenHandler(v)
    BY <1>2, <2>1, <2>2, <2>4 DEF OpenHandler, EventIds
  <2>5. CASE MessageHandler(v)
    BY <1>2, <2>1, <2>5 DEF MessageHandler, EventIds
  <2>6. CASE CloseHandler(v)
    BY <1>2, <2>1, <2>2, <2>6 DEF CloseHandler, EventIds, SessionInv
  <2>7. CASE PeerClose(v) \/ \E k \in Slots : DisconnectUser(v, k)
    BY <2>1, <2>3, <2>7 DEF PeerClose, DisconnectUser
  <2> QED
    BY <1>3, <2>4, <2>5, <2>6, <2>7
<1>4. CASE Cyclic \/ Tick
  BY <1>4
     DEF Cyclic, CyclicSnapshot, CyclicCheck, CyclicSleep, Tick, tableVars,
         eventVars, orderVars, ListSettled
<1>5. ~Ends
  BY DEF Ends
<1> QED
  BY <1>1, <1>3, <1>4, <1>5 DEF Step, HandleRequest, DisconnectUserThrows

\* Every step keeps it.
LEMMA SteadyStep ==
  TypeOK /\ SessionInv /\ SteadyInv /\ [ChatNext]_allVars => SteadyInv'
<1> SUFFICES ASSUME TypeOK, SessionInv, SteadyInv, [ChatNext]_allVars
             PROVE  SteadyInv'
  OBVIOUS
<1> USE DEF restVars, tableVars, eventVars, orderVars
<1>1. CASE Step /\ running' /\ Settle /\ UNCHANGED restVars
  <2>1. /\ rest' = rest /\ p_users' = p_users
        /\ \A u \in steady' : u \in steady /\ connected'[u] = connected[u]
    BY <1>1 DEF Settle
  <2>2. ASSUME NEW u \in steady', u \in Users \ misled, ListSettled(u)
        PROVE  /\ u \notin misled' /\ ListSettled(u)'
               /\ u \in DOMAIN users' <=> u \in DOMAIN users
               /\ u \in DOMAIN users => users'[u] = users[u]
    BY <1>1, <2>1, <2>2, SettledStep
  <2> QED
    BY <2>1, <2>2 DEF SteadyInv, InAnswer
<1>2. CASE /\ UNCHANGED <<users, misled, log, progress, steady, p_users>>
           /\ InAnswer' => InAnswer
           /\ rest' = "GET_USERS" => rest = "GET_USERS"
  BY <1>2 DEF SteadyInv, ListSettled, InAnswer
<1>3. CASE rest' \in {"idle", "requested"}
  BY <1>3 DEF SteadyInv, InAnswer
<1>4. CASE Handler_GetUsers
  BY <1>4 DEF Handler_GetUsers, SteadyInv, InAnswer, ListSettled, vars
<1>5. CASE GetUsers
  BY <1>5 DEF GetUsers, SteadyInv, InAnswer, ListSettled, vars
<1>6. CASE Console \/ Handler_GetUsersReturn \/ Handler_KickUser
  BY <1>2, <1>3, <1>6
     DEF Console, PrintUsers, PrintUsersReturn, PrintUsersFails, Enter,
         KickUser, KickUserFails, Handler_GetUsersReturn, Handler_KickUser,
         InAnswer, vars
<1>7. CASE UNCHANGED allVars
  BY <1>2, <1>7 DEF allVars, InAnswer, vars
<1>8. ASSUME NEW u \in Users, NEW k \in KickSlots, Kicked(u, k)
      PROVE  SteadyInv'
  BY <1>2, <1>8 DEF Kicked, InAnswer
<1>9. CASE ChatEnds
  BY <1>3, <1>9 DEF ChatEnds
<1>10. CASE Strangers
  BY <1>2, <1>10 DEF Strangers, StrangerComesOrGoes, InAnswer
<1> QED
  BY <1>1, <1>4, <1>5, <1>6, <1>7, <1>8, <1>9, <1>10
     DEF ChatNext, Rest, HandleKick, KickedThrows

\* The answer to get_users is right about everybody who neither joined nor left
\* while it was made, and had no late handler.
THEOREM AnswerRegular == ChatSpec => []AnswerIsRegular
<1>1. TypeOK /\ LogInv /\ EntryInv /\ TableInv /\ SteadyInv => AnswerIsRegular
  <2> SUFFICES ASSUME TypeOK, LogInv, EntryInv, TableInv, SteadyInv,
                      rest = "answered", NEW u \in steady
               PROVE  /\ u \in DOMAIN p_users <=> connected[u]
                      /\ u \in DOMAIN p_users =>
                           \A i \in DOMAIN log :
                             Opens(i, u) => i <= p_users[u]
    BY DEF AnswerIsRegular, Opens
  <2>1. /\ u \in Users \ misled
        /\ ListSettled(u)
        /\ u \in DOMAIN p_users <=> u \in DOMAIN users
        /\ u \in DOMAIN users => p_users[u] = users[u]
    BY DEF SteadyInv, InAnswer
  <2>2. \A i \in DOMAIN log :
          log[i].user = u /\ log[i].event # "NEW_MESSAGE"
            => progress[i] = "done"
    BY <2>1 DEF ListSettled
  <2>3. u \in DOMAIN users <=> connected[u]
    BY <2>1, <2>2, ListFollows DEF TableInv
  <2>4. u \in DOMAIN users =>
          \A i \in DOMAIN log : Opens(i, u) => i <= users[u]
    BY <2>1, <2>2, ListIsCurrent DEF EntryInv
  <2> QED
    BY <2>1, <2>3, <2>4
<1>2. ChatInit => Init /\ SteadyInv
  BY DEF ChatInit, SteadyInv, InAnswer
<1> QED
  BY <1>1, <1>2, TypeInit, TypeStep, SessionInit, SessionStep, LogInit,
     LogStep, EntryInit, EntryStep, TableInit, TableStep, SteadyStep, KickInit,
     KickStep, ChatStep, PTL
     DEF ChatSpec
=============================================================================
