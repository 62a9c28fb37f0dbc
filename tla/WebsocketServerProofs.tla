------------------------ MODULE WebsocketServerProofs ------------------------
(***************************************************************************)
(* Proofs about WebsocketServer, for any number of connections, names,     *)
(* messages and disconnect requests.                                       *)
(***************************************************************************)
EXTENDS WebsocketServer, SequenceTheorems, TLAPS

-----------------------------------------------------------------------------
(* The maps.                                                               *)

IsMap(m, U) == \E D \in SUBSET Handles : m \in [D -> U]

\* Insert and Erase keep a map a map; Insert adds its key and no other.
LEMMA MapOps ==
  ASSUME NEW U, NEW m, IsMap(m, U), NEW h \in Handles, NEW u \in U
  PROVE  IsMap(Insert(m, h, u), U)
<1>1. PICK D \in SUBSET Handles : m \in [D -> U]
  BY DEF IsMap
<1>2. Insert(m, h, u) \in [D \cup {h} -> U]
  BY <1>1 DEF Insert
<1> QED
  BY <1>2 DEF IsMap

\* What an erased map keeps.
LEMMA MapErase ==
  ASSUME NEW U, NEW m, IsMap(m, U), NEW h \in Handles
  PROVE  IsMap(Erase(m, h), U)
<1>1. PICK D \in SUBSET Handles : m \in [D -> U]
  BY DEF IsMap
<1>2. Erase(m, h) \in [D \ {h} -> U]
  BY <1>1 DEF Erase
<1> QED
  BY <1>2 DEF IsMap

\* Posting an event about a connection extends what was posted about it.
LEMMA PostType ==
  ASSUME posted \in [Handles -> Seq(Events)], NEW h \in Handles,
         NEW e \in EventIds, NEW u \in Names
  PROVE  Post(h, e, u) \in [Handles -> Seq(Events)]
<1>1. [event |-> e, user |-> u] \in Events
  BY DEF Events
<1>2. Append(posted[h], [event |-> e, user |-> u]) \in Seq(Events)
  BY <1>1
<1> QED
  BY <1>2 DEF Post

-----------------------------------------------------------------------------
(* The inductive invariant.                                                *)

\* Validation has let pass only connections that gave a name.
AcceptedNamed ==
  \A h \in Handles : session[h] = "accepted" => val_map[h] \in Usernames

\* The send loop runs over connections that are still in the map.
LoopInv ==
  /\ recipients \subseteq DOMAIN conn_user_map
  /\ message = NO_MESSAGE => recipients = {}

\* A name no two handshakes overlapped on has one claimant at most.
ClaimsUnique ==
  \A u \in Usernames \ overlapped :
    \A g, h \in Handles : Claims(g, u) /\ Claims(h, u) => g = h

NamesInv == ClaimsUnique /\ NamesMatchConnections

\* What has been posted about a connection, by the phase it is in.
HistoryInv ==
  \A h \in Handles :
    LET p == posted[h]
        n == Len(p)
    IN  /\ session[h] \in {"connecting", "accepted", "refused"} => n = 0
        /\ session[h] \in {"open", "closing"} =>
             /\ n >= 1
             /\ p[1].event = "CONNECTION_OPENED"
             /\ p[1].user = conn_user_map[h]
             /\ \A i \in 2 .. n :
                  p[i].user = p[1].user /\ p[i].event = "NEW_MESSAGE"
        /\ session[h] = "gone" =>
             \/ n = 1 /\ p[1].event = "CONNECTION_FAILED"
             \/ /\ n >= 2
                /\ p[1].event = "CONNECTION_OPENED"
                /\ \A i \in 2 .. n : p[i].user = p[1].user
                /\ \A i \in 2 .. n - 1 : p[i].event = "NEW_MESSAGE"
                /\ p[n].event = "CONNECTION_CLOSED"

\* What a connection has been sent, message by message.
BroadcastInv ==
  /\ message # NO_MESSAGE =>
       Len(broadcast) >= 1 /\ broadcast[Len(broadcast)] = message
  /\ \A h \in Handles :
       /\ joined[h] + Len(received[h]) <= Len(broadcast)
       /\ \A i \in 1 .. Len(received[h]) :
            received[h][i] = broadcast[joined[h] + i]
       /\ h \in DOMAIN conn_user_map =>
            joined[h] + Len(received[h]) =
              Len(broadcast) - (IF h \in recipients THEN 1 ELSE 0)
       /\ session[h] \in {"connecting", "accepted", "refused"} =>
            Len(received[h]) = 0

\* Whose handle a walk has copied is in the map, or has left it since.
WalkInv ==
  \A d \in Requests :
    /\ \A h \in left[d] : session[h] = "gone"
    /\ \A h \in found[d] : h \in DOMAIN conn_user_map \/ h \in left[d]
    /\ scan[d] # "found" => found[d] = {}

IInv ==
  /\ TypeOK /\ MapsMatchSessions /\ AcceptedNamed /\ LoopInv /\ NamesInv
  /\ WalkInv /\ ThrowsOnlyWhileLeaving /\ HistoryInv /\ BroadcastInv

\* Every step keeps the shape; the name of an accepted connection is not empty.
LEMMA TypeStep ==
  TypeOK /\ MapsMatchSessions /\ AcceptedNamed /\ LoopInv
    /\ [Next]_vars => TypeOK'
<1> SUFFICES ASSUME TypeOK, MapsMatchSessions, AcceptedNamed, LoopInv,
                    [Next]_vars
             PROVE  TypeOK'
  OBVIOUS
<1> USE DEF sessionVars, loopVars, scanVars, IoIdle, Running
<1>0. IsMap(val_map, Names) /\ IsMap(conn_user_map, Usernames)
  BY DEF TypeOK, IsMap
<1>1. ASSUME NEW h \in Handles, NEW u \in Names, ValidateHandler(h, u)
      PROVE  TypeOK'
  <2>1. IsMap(val_map', Names)
    BY <1>1, <1>0, MapOps DEF ValidateHandler
  <2> QED
    BY <1>1, <2>1
       DEF TypeOK, IsMap, ValidateHandler, Names, SessionStates, Accepts,
           GetConnectionUser
<1>2. ASSUME NEW h \in Handles, ValidateHandlerThrows(h) PROVE TypeOK'
  BY <1>2
     DEF TypeOK, Names, SessionStates, ScanStates, Crashes,
         ValidateHandlerThrows
<1>3. ASSUME NEW h \in Handles, OpenHandler(h) PROVE TypeOK'
  <2>1. Lookup(val_map, h) \in Usernames
    BY <1>3 DEF OpenHandler, Lookup, AcceptedNamed, MapsMatchSessions
  <2>2. IsMap(val_map', Names) /\ IsMap(conn_user_map', Usernames)
    BY <1>3, <1>0, <2>1, MapErase, MapOps DEF OpenHandler
  <2>3. posted' \in [Handles -> Seq(Events)]
    BY <1>3, <2>1, PostType DEF TypeOK, OpenHandler, EventIds, Names
  <2>4. /\ session' \in [Handles -> SessionStates]
        /\ scan' \in [Requests -> ScanStates]
    BY <1>3 DEF TypeOK, OpenHandler, SessionStates, ScanStates, Torn
  <2>5. joined' \in [Handles -> Nat] /\ usernames' \in SUBSET Usernames
    BY <1>3, <2>1 DEF TypeOK, OpenHandler
  <2> QED
    BY <1>3, <2>2, <2>3, <2>4, <2>5 DEF TypeOK, IsMap, OpenHandler
<1>4. ASSUME NEW h \in Handles, FailHandler(h) PROVE TypeOK'
  <2>1. Lookup(val_map, h) \in Names
    BY DEF TypeOK, Lookup, Names
  <2>2. IsMap(val_map', Names)
    BY <1>4, <1>0, MapErase DEF FailHandler
  <2>3. posted' \in [Handles -> Seq(Events)]
    BY <1>4, <2>1, PostType DEF TypeOK, FailHandler, EventIds
  <2> QED
    BY <1>4, <2>2, <2>3 DEF TypeOK, IsMap, FailHandler, SessionStates, Unclaim
<1>5. ASSUME NEW h \in Handles, NEW m \in Messages, MessageHandler(h, m)
      PROVE  TypeOK'
  <2>1. Lookup(conn_user_map, h) \in Names
    BY DEF TypeOK, Lookup, Names
  <2>2. posted' \in [Handles -> Seq(Events)]
    BY <1>5, <2>1, PostType DEF TypeOK, MessageHandler, EventIds
  <2>3. recipients' \in SUBSET Handles
    BY <1>5 DEF TypeOK, MessageHandler
  <2> QED
    BY <1>5, <2>2, <2>3 DEF TypeOK, MessageHandler
<1>6. ASSUME NEW h \in Handles, PeerClose(h) PROVE TypeOK'
  BY <1>6 DEF TypeOK, Names, SessionStates, ScanStates, Crashes, PeerClose
<1>7. ASSUME NEW h \in Handles, CloseHandler(h) PROVE TypeOK'
  <2>1. Lookup(conn_user_map, h) \in Names
    BY DEF TypeOK, Lookup, Names
  <2>2. IsMap(conn_user_map', Usernames)
    BY <1>7, <1>0, MapErase DEF CloseHandler
  <2>3. posted' \in [Handles -> Seq(Events)]
    BY <1>7, <2>1, PostType DEF TypeOK, CloseHandler, EventIds
  <2>4. /\ session' \in [Handles -> SessionStates]
        /\ scan' \in [Requests -> ScanStates]
        /\ left' \in [Requests -> SUBSET Handles]
    BY <1>7 DEF TypeOK, CloseHandler, SessionStates, ScanStates, Torn, Leaves
  <2> QED
    BY <1>7, <2>2, <2>3, <2>4 DEF TypeOK, IsMap, CloseHandler, Unclaim
<1>8. CASE MessageHandlerReturn
  BY <1>8
     DEF TypeOK, Names, SessionStates, ScanStates, Crashes,
         MessageHandlerReturn
<1>9. ASSUME NEW h \in Handles, SendNext(h) PROVE TypeOK'
  <2>1. message \in Messages
    BY <1>9 DEF TypeOK, LoopInv, SendNext
  <2>2. received' \in [Handles -> Seq(Messages)]
    BY <1>9, <2>1 DEF TypeOK, SendNext
  <2> QED
    BY <1>9, <2>2 DEF TypeOK, SendNext
<1>10. ASSUME NEW h \in Handles, SendThrows(h) PROVE TypeOK'
  BY <1>10 DEF TypeOK, Names, SessionStates, ScanStates, Crashes, SendThrows
<1>11. ASSUME NEW d \in Requests, NEW u \in Names, DisconnectUser(d, u)
       PROVE  TypeOK'
  BY <1>11
     DEF TypeOK, Names, SessionStates, ScanStates, Crashes, DisconnectUser
<1>12. ASSUME NEW d \in Requests, NEW h \in Handles, DisconnectUserFound(d, h)
       PROVE  TypeOK'
  BY <1>12
     DEF TypeOK, Names, SessionStates, ScanStates, Crashes,
         DisconnectUserFound, Matches
<1>13. ASSUME NEW d \in Requests, DisconnectUserMissed(d) PROVE TypeOK'
  BY <1>13
     DEF TypeOK, Names, SessionStates, ScanStates, Crashes,
         DisconnectUserMissed
<1>14. ASSUME NEW d \in Requests, DisconnectUserTorn(d) PROVE TypeOK'
  BY <1>14
     DEF TypeOK, Names, SessionStates, ScanStates, Crashes,
         DisconnectUserTorn
<1>15. CASE UNCHANGED vars
  BY <1>15 DEF TypeOK, Names, SessionStates, ScanStates, Crashes, vars
<1>16. ASSUME NEW d \in Requests, CloseConnection(d) PROVE TypeOK'
  BY <1>16
     DEF TypeOK, Names, SessionStates, ScanStates, Crashes, CloseConnection
<1>17. ASSUME NEW d \in Requests, CloseConnectionThrows(d) PROVE TypeOK'
  BY <1>17
     DEF TypeOK, Names, SessionStates, ScanStates, Crashes,
         CloseConnectionThrows
<1> QED
  BY <1>1, <1>2, <1>3, <1>4, <1>5, <1>6, <1>7, <1>8, <1>9, <1>10,
     <1>11, <1>12, <1>13, <1>14, <1>15, <1>16, <1>17
     DEF Next, Handler, SendLoop, DisconnectUserEnd

\* The maps follow the sessions.
LEMMA MapsStep ==
  TypeOK /\ MapsMatchSessions /\ [Next]_vars => MapsMatchSessions'
<1> SUFFICES ASSUME TypeOK, MapsMatchSessions,
                    [Next]_vars
             PROVE  MapsMatchSessions'
  OBVIOUS
<1> USE DEF sessionVars, loopVars, scanVars, IoIdle, Running
<1>1. ASSUME NEW h \in Handles, NEW u \in Names, ValidateHandler(h, u)
      PROVE  MapsMatchSessions'
  BY <1>1 DEF TypeOK, MapsMatchSessions, ValidateHandler, Insert
<1>2. ASSUME NEW h \in Handles, ValidateHandlerThrows(h)
      PROVE  MapsMatchSessions'
  BY <1>2 DEF TypeOK, MapsMatchSessions, ValidateHandlerThrows
<1>3. ASSUME NEW h \in Handles, OpenHandler(h) PROVE MapsMatchSessions'
  BY <1>3 DEF TypeOK, MapsMatchSessions, OpenHandler, Insert, Erase
<1>4. ASSUME NEW h \in Handles, FailHandler(h) PROVE MapsMatchSessions'
  BY <1>4 DEF TypeOK, MapsMatchSessions, FailHandler, Erase
<1>5. ASSUME NEW h \in Handles, NEW m \in Messages, MessageHandler(h, m)
      PROVE  MapsMatchSessions'
  BY <1>5 DEF TypeOK, MapsMatchSessions, MessageHandler
<1>6. ASSUME NEW h \in Handles, PeerClose(h) PROVE MapsMatchSessions'
  BY <1>6 DEF TypeOK, MapsMatchSessions, PeerClose
<1>7. ASSUME NEW h \in Handles, CloseHandler(h) PROVE MapsMatchSessions'
  BY <1>7 DEF TypeOK, MapsMatchSessions, CloseHandler, Erase
<1>8. CASE MessageHandlerReturn
  BY <1>8 DEF TypeOK, MapsMatchSessions, MessageHandlerReturn
<1>9. ASSUME NEW h \in Handles, SendNext(h) PROVE MapsMatchSessions'
  BY <1>9 DEF TypeOK, MapsMatchSessions, SendNext
<1>10. ASSUME NEW h \in Handles, SendThrows(h) PROVE MapsMatchSessions'
  BY <1>10 DEF TypeOK, MapsMatchSessions, SendThrows
<1>11. ASSUME NEW d \in Requests, NEW u \in Names, DisconnectUser(d, u)
       PROVE  MapsMatchSessions'
  BY <1>11 DEF TypeOK, MapsMatchSessions, DisconnectUser
<1>12. ASSUME NEW d \in Requests, NEW h \in Handles, DisconnectUserFound(d, h)
       PROVE  MapsMatchSessions'
  BY <1>12
     DEF TypeOK, MapsMatchSessions, DisconnectUserFound, CloseConnection,
         Matches
<1>13. ASSUME NEW d \in Requests, DisconnectUserMissed(d)
       PROVE  MapsMatchSessions'
  BY <1>13 DEF TypeOK, MapsMatchSessions, DisconnectUserMissed
<1>14. ASSUME NEW d \in Requests, DisconnectUserTorn(d)
       PROVE  MapsMatchSessions'
  BY <1>14 DEF TypeOK, MapsMatchSessions, DisconnectUserTorn
<1>15. CASE UNCHANGED vars
  BY <1>15 DEF TypeOK, MapsMatchSessions, vars
<1>16. ASSUME NEW d \in Requests, CloseConnection(d) PROVE MapsMatchSessions'
  BY <1>16 DEF TypeOK, MapsMatchSessions, CloseConnection
<1>17. ASSUME NEW d \in Requests, CloseConnectionThrows(d)
       PROVE  MapsMatchSessions'
  BY <1>17 DEF TypeOK, MapsMatchSessions, CloseConnectionThrows
<1> QED
  BY <1>1, <1>2, <1>3, <1>4, <1>5, <1>6, <1>7, <1>8, <1>9, <1>10,
     <1>11, <1>12, <1>13, <1>14, <1>15, <1>16, <1>17
     DEF Next, Handler, SendLoop, DisconnectUserEnd

\* A name is checked before it is accepted.
LEMMA NamedStep ==
  TypeOK /\ MapsMatchSessions /\ AcceptedNamed
    /\ [Next]_vars => AcceptedNamed'
<1> SUFFICES ASSUME TypeOK, MapsMatchSessions, AcceptedNamed,
                    [Next]_vars
             PROVE  AcceptedNamed'
  OBVIOUS
<1> USE DEF sessionVars, loopVars, scanVars, IoIdle, Running
<1>1. ASSUME NEW h \in Handles, NEW u \in Names, ValidateHandler(h, u)
      PROVE  AcceptedNamed'
  BY <1>1
     DEF TypeOK, MapsMatchSessions, AcceptedNamed, ValidateHandler, Insert,
         Names, Accepts, GetConnectionUser
<1>2. ASSUME NEW h \in Handles, ValidateHandlerThrows(h) PROVE AcceptedNamed'
  BY <1>2 DEF TypeOK, MapsMatchSessions, AcceptedNamed, ValidateHandlerThrows
<1>3. ASSUME NEW h \in Handles, OpenHandler(h) PROVE AcceptedNamed'
  BY <1>3 DEF TypeOK, MapsMatchSessions, AcceptedNamed, OpenHandler, Erase
<1>4. ASSUME NEW h \in Handles, FailHandler(h) PROVE AcceptedNamed'
  BY <1>4 DEF TypeOK, MapsMatchSessions, AcceptedNamed, FailHandler, Erase
<1>5. ASSUME NEW h \in Handles, NEW m \in Messages, MessageHandler(h, m)
      PROVE  AcceptedNamed'
  BY <1>5 DEF TypeOK, MapsMatchSessions, AcceptedNamed, MessageHandler
<1>6. ASSUME NEW h \in Handles, PeerClose(h) PROVE AcceptedNamed'
  BY <1>6 DEF TypeOK, MapsMatchSessions, AcceptedNamed, PeerClose
<1>7. ASSUME NEW h \in Handles, CloseHandler(h) PROVE AcceptedNamed'
  BY <1>7 DEF TypeOK, MapsMatchSessions, AcceptedNamed, CloseHandler
<1>8. CASE MessageHandlerReturn
  BY <1>8 DEF TypeOK, MapsMatchSessions, AcceptedNamed, MessageHandlerReturn
<1>9. ASSUME NEW h \in Handles, SendNext(h) PROVE AcceptedNamed'
  BY <1>9 DEF TypeOK, MapsMatchSessions, AcceptedNamed, SendNext
<1>10. ASSUME NEW h \in Handles, SendThrows(h) PROVE AcceptedNamed'
  BY <1>10 DEF TypeOK, MapsMatchSessions, AcceptedNamed, SendThrows
<1>11. ASSUME NEW d \in Requests, NEW u \in Names, DisconnectUser(d, u)
       PROVE  AcceptedNamed'
  BY <1>11 DEF TypeOK, MapsMatchSessions, AcceptedNamed, DisconnectUser
<1>12. ASSUME NEW d \in Requests, NEW h \in Handles, DisconnectUserFound(d, h)
       PROVE  AcceptedNamed'
  BY <1>12
     DEF TypeOK, MapsMatchSessions, AcceptedNamed, DisconnectUserFound
<1>13. ASSUME NEW d \in Requests, DisconnectUserMissed(d)
       PROVE  AcceptedNamed'
  BY <1>13 DEF TypeOK, MapsMatchSessions, AcceptedNamed, DisconnectUserMissed
<1>14. ASSUME NEW d \in Requests, DisconnectUserTorn(d) PROVE AcceptedNamed'
  BY <1>14 DEF TypeOK, MapsMatchSessions, AcceptedNamed, DisconnectUserTorn
<1>15. CASE UNCHANGED vars
  BY <1>15 DEF TypeOK, MapsMatchSessions, AcceptedNamed, vars
<1>16. ASSUME NEW d \in Requests, CloseConnection(d) PROVE AcceptedNamed'
  BY <1>16 DEF TypeOK, MapsMatchSessions, AcceptedNamed, CloseConnection
<1>17. ASSUME NEW d \in Requests, CloseConnectionThrows(d) PROVE AcceptedNamed'
  BY <1>17 DEF TypeOK, MapsMatchSessions, AcceptedNamed, CloseConnectionThrows
<1> QED
  BY <1>1, <1>2, <1>3, <1>4, <1>5, <1>6, <1>7, <1>8, <1>9, <1>10,
     <1>11, <1>12, <1>13, <1>14, <1>15, <1>16, <1>17
     DEF Next, Handler, SendLoop, DisconnectUserEnd

\* No connection enters or leaves the map while the loop runs.
LEMMA LoopStep ==
  TypeOK /\ MapsMatchSessions /\ LoopInv /\ [Next]_vars => LoopInv'
<1> SUFFICES ASSUME TypeOK, MapsMatchSessions, LoopInv,
                    [Next]_vars
             PROVE  LoopInv'
  OBVIOUS
<1> USE DEF sessionVars, loopVars, scanVars, IoIdle, Running
<1>1. ASSUME NEW h \in Handles, NEW u \in Names, ValidateHandler(h, u)
      PROVE  LoopInv'
  BY <1>1 DEF TypeOK, MapsMatchSessions, LoopInv, ValidateHandler
<1>2. ASSUME NEW h \in Handles, ValidateHandlerThrows(h) PROVE LoopInv'
  BY <1>2 DEF TypeOK, MapsMatchSessions, LoopInv, ValidateHandlerThrows
<1>3. ASSUME NEW h \in Handles, OpenHandler(h) PROVE LoopInv'
  BY <1>3 DEF TypeOK, MapsMatchSessions, LoopInv, OpenHandler, Insert
<1>4. ASSUME NEW h \in Handles, FailHandler(h) PROVE LoopInv'
  BY <1>4 DEF TypeOK, MapsMatchSessions, LoopInv, FailHandler
<1>5. ASSUME NEW h \in Handles, NEW m \in Messages, MessageHandler(h, m)
      PROVE  LoopInv'
  BY <1>5, WebsocketServerAssumption
     DEF TypeOK, MapsMatchSessions, LoopInv, MessageHandler
<1>6. ASSUME NEW h \in Handles, PeerClose(h) PROVE LoopInv'
  BY <1>6 DEF TypeOK, MapsMatchSessions, LoopInv, PeerClose
<1>7. ASSUME NEW h \in Handles, CloseHandler(h) PROVE LoopInv'
  BY <1>7 DEF TypeOK, MapsMatchSessions, LoopInv, CloseHandler
<1>8. CASE MessageHandlerReturn
  BY <1>8 DEF TypeOK, MapsMatchSessions, LoopInv, MessageHandlerReturn
<1>9. ASSUME NEW h \in Handles, SendNext(h) PROVE LoopInv'
  BY <1>9 DEF TypeOK, MapsMatchSessions, LoopInv, SendNext
<1>10. ASSUME NEW h \in Handles, SendThrows(h) PROVE LoopInv'
  BY <1>10 DEF TypeOK, MapsMatchSessions, LoopInv, SendThrows
<1>11. ASSUME NEW d \in Requests, NEW u \in Names, DisconnectUser(d, u)
       PROVE  LoopInv'
  BY <1>11 DEF TypeOK, MapsMatchSessions, LoopInv, DisconnectUser
<1>12. ASSUME NEW d \in Requests, NEW h \in Handles, DisconnectUserFound(d, h)
       PROVE  LoopInv'
  BY <1>12
     DEF TypeOK, MapsMatchSessions, LoopInv, DisconnectUserFound
<1>13. ASSUME NEW d \in Requests, DisconnectUserMissed(d) PROVE LoopInv'
  BY <1>13 DEF TypeOK, MapsMatchSessions, LoopInv, DisconnectUserMissed
<1>14. ASSUME NEW d \in Requests, DisconnectUserTorn(d) PROVE LoopInv'
  BY <1>14 DEF TypeOK, MapsMatchSessions, LoopInv, DisconnectUserTorn
<1>15. CASE UNCHANGED vars
  BY <1>15 DEF TypeOK, MapsMatchSessions, LoopInv, vars
<1>16. ASSUME NEW d \in Requests, CloseConnection(d) PROVE LoopInv'
  BY <1>16 DEF TypeOK, MapsMatchSessions, LoopInv, CloseConnection
<1>17. ASSUME NEW d \in Requests, CloseConnectionThrows(d) PROVE LoopInv'
  BY <1>17 DEF TypeOK, MapsMatchSessions, LoopInv, CloseConnectionThrows
<1> QED
  BY <1>1, <1>2, <1>3, <1>4, <1>5, <1>6, <1>7, <1>8, <1>9, <1>10,
     <1>11, <1>12, <1>13, <1>14, <1>15, <1>16, <1>17
     DEF Next, Handler, SendLoop, DisconnectUserEnd

\* A walk that has copied a handle keeps it until it ends, and sees who
\* leaves the map.
LEMMA WalkStep ==
  TypeOK /\ MapsMatchSessions /\ WalkInv /\ [Next]_vars => WalkInv'
<1> SUFFICES ASSUME TypeOK, MapsMatchSessions, WalkInv,
                    [Next]_vars
             PROVE  WalkInv'
  OBVIOUS
<1> USE DEF sessionVars, loopVars, scanVars, IoIdle, Running
<1>1. ASSUME NEW h \in Handles, NEW u \in Names, ValidateHandler(h, u)
      PROVE  WalkInv'
  BY <1>1 DEF TypeOK, MapsMatchSessions, WalkInv, ValidateHandler
<1>2. ASSUME NEW h \in Handles, ValidateHandlerThrows(h) PROVE WalkInv'
  BY <1>2 DEF WalkInv, ValidateHandlerThrows
<1>3. ASSUME NEW h \in Handles, OpenHandler(h) PROVE WalkInv'
  BY <1>3
     DEF TypeOK, MapsMatchSessions, WalkInv, OpenHandler, Insert, Torn
<1>4. ASSUME NEW h \in Handles, FailHandler(h) PROVE WalkInv'
  BY <1>4 DEF TypeOK, MapsMatchSessions, WalkInv, FailHandler
<1>5. ASSUME NEW h \in Handles, NEW m \in Messages, MessageHandler(h, m)
      PROVE  WalkInv'
  BY <1>5 DEF WalkInv, MessageHandler
<1>6. ASSUME NEW h \in Handles, PeerClose(h) PROVE WalkInv'
  BY <1>6 DEF TypeOK, MapsMatchSessions, WalkInv, PeerClose
<1>7. ASSUME NEW h \in Handles, CloseHandler(h) PROVE WalkInv'
  BY <1>7
     DEF TypeOK, MapsMatchSessions, WalkInv, CloseHandler, Erase, Torn,
         Leaves, ScanStates
<1>8. CASE MessageHandlerReturn
  BY <1>8 DEF WalkInv, MessageHandlerReturn
<1>9. ASSUME NEW h \in Handles, SendNext(h) PROVE WalkInv'
  BY <1>9 DEF WalkInv, SendNext
<1>10. ASSUME NEW h \in Handles, SendThrows(h) PROVE WalkInv'
  BY <1>10 DEF WalkInv, SendThrows
<1>11. ASSUME NEW d \in Requests, NEW u \in Names, DisconnectUser(d, u)
       PROVE  WalkInv'
  BY <1>11 DEF TypeOK, WalkInv, DisconnectUser
<1>12. ASSUME NEW d \in Requests, NEW h \in Handles, DisconnectUserFound(d, h)
       PROVE  WalkInv'
  BY <1>12 DEF TypeOK, WalkInv, DisconnectUserFound, Matches
<1>13. ASSUME NEW d \in Requests, DisconnectUserMissed(d) PROVE WalkInv'
  BY <1>13 DEF TypeOK, WalkInv, DisconnectUserMissed
<1>14. ASSUME NEW d \in Requests, DisconnectUserTorn(d) PROVE WalkInv'
  BY <1>14 DEF WalkInv, DisconnectUserTorn
<1>15. CASE UNCHANGED vars
  BY <1>15 DEF WalkInv, vars
<1>16. ASSUME NEW d \in Requests, CloseConnection(d) PROVE WalkInv'
  BY <1>16 DEF TypeOK, MapsMatchSessions, WalkInv, CloseConnection
<1>17. ASSUME NEW d \in Requests, CloseConnectionThrows(d) PROVE WalkInv'
  BY <1>17 DEF WalkInv, CloseConnectionThrows
<1> QED
  BY <1>1, <1>2, <1>3, <1>4, <1>5, <1>6, <1>7, <1>8, <1>9, <1>10,
     <1>11, <1>12, <1>13, <1>14, <1>15, <1>16, <1>17
     DEF Next, Handler, SendLoop, DisconnectUserEnd

\* Whom the loop reaches is in the map, open or closing; whom a walk has
\* copied is that, or has gone meanwhile.  No other step makes send or close
\* throw, and after one that does there is none.
LEMMA ThrowsStep ==
  TypeOK /\ MapsMatchSessions /\ LoopInv /\ WalkInv /\ ThrowsOnlyWhileLeaving
    /\ [Next]_vars => ThrowsOnlyWhileLeaving'
<1> SUFFICES ASSUME TypeOK, MapsMatchSessions, LoopInv, WalkInv,
                    ThrowsOnlyWhileLeaving, [Next]_vars
             PROVE  ThrowsOnlyWhileLeaving'
  OBVIOUS
<1> USE DEF sessionVars, loopVars, scanVars, IoIdle, Running
<1>1. ASSUME NEW h \in Handles, SendThrows(h) PROVE ThrowsOnlyWhileLeaving'
  BY <1>1 DEF MapsMatchSessions, LoopInv, ThrowsOnlyWhileLeaving, SendThrows
<1>2. ASSUME NEW d \in Requests, CloseConnectionThrows(d)
      PROVE  ThrowsOnlyWhileLeaving'
  <2>1. PICK h \in found[d] : session[h] # "open"
    BY <1>2 DEF CloseConnectionThrows
  <2>2. \/ session[h] = "closing" /\ h \in DOMAIN conn_user_map
        \/ session[h] = "gone" /\ h \in left[d]
    BY <2>1 DEF WalkInv, MapsMatchSessions
  <2>3. outcome' = "close" /\ UNCHANGED <<session, conn_user_map, found, left>>
    BY <1>2 DEF CloseConnectionThrows
  <2> QED
    BY <2>1, <2>2, <2>3 DEF ThrowsOnlyWhileLeaving
<1>3. CASE UNCHANGED vars
  BY <1>3 DEF ThrowsOnlyWhileLeaving, vars
<1>4. ASSUME outcome' \notin {"send", "close"} PROVE ThrowsOnlyWhileLeaving'
  BY <1>4 DEF ThrowsOnlyWhileLeaving
<1>5. ASSUME NEW h \in Handles, Handler(h) \/ CloseHandler(h)
      PROVE  outcome' \notin {"send", "close"}
  BY <1>5
     DEF Handler, ValidateHandler, ValidateHandlerThrows, OpenHandler,
         FailHandler, MessageHandler, PeerClose, CloseHandler
<1>6. ASSUME NEW h \in Handles, SendNext(h)
      PROVE  outcome' \notin {"send", "close"}
  BY <1>6 DEF SendNext
<1>7. CASE MessageHandlerReturn
  BY <1>4, <1>7 DEF MessageHandlerReturn
<1>8. ASSUME NEW d \in Requests,
             \/ \E u \in Names : DisconnectUser(d, u)
             \/ \E h \in Handles : DisconnectUserFound(d, h)
             \/ DisconnectUserMissed(d)
             \/ DisconnectUserTorn(d)
             \/ CloseConnection(d)
      PROVE  outcome' \notin {"send", "close"}
  BY <1>8
     DEF DisconnectUser, DisconnectUserFound, DisconnectUserMissed,
         DisconnectUserTorn, CloseConnection
<1> QED
  BY <1>1, <1>2, <1>3, <1>4, <1>5, <1>6, <1>7, <1>8
     DEF Next, SendLoop, DisconnectUserEnd

\* Names are claimed by validation, taken by opening, and given up at the end.
LEMMA NamesStep ==
  TypeOK /\ MapsMatchSessions /\ AcceptedNamed /\ NamesInv
    /\ [Next]_vars => NamesInv'
<1> SUFFICES ASSUME TypeOK, MapsMatchSessions, AcceptedNamed, NamesInv,
                    [Next]_vars
             PROVE  NamesInv'
  OBVIOUS
<1> USE DEF sessionVars, loopVars, scanVars, IoIdle, Running
<1>1. ASSUME NEW h \in Handles, NEW u \in Names, ValidateHandler(h, u)
      PROVE  NamesInv'
  BY <1>1
     DEF TypeOK, MapsMatchSessions, NamesInv, ClaimsUnique,
         NamesMatchConnections, Claims, Accepted, ValidateHandler, Insert,
         Accepts, GetConnectionUser
<1>2. ASSUME NEW h \in Handles, ValidateHandlerThrows(h) PROVE NamesInv'
  BY <1>2
     DEF TypeOK, MapsMatchSessions, NamesInv, ClaimsUnique,
         NamesMatchConnections, Claims, Accepted, ValidateHandlerThrows
<1>3. ASSUME NEW h \in Handles, OpenHandler(h) PROVE NamesInv'
  <2> DEFINE u == Lookup(val_map, h)
  <2>1. u \in Usernames /\ Accepted(h, u)
    BY <1>3 DEF OpenHandler, Lookup, AcceptedNamed, MapsMatchSessions, Accepted
  <2>2. /\ DOMAIN conn_user_map' = DOMAIN conn_user_map \cup {h}
        /\ h \notin DOMAIN conn_user_map
        /\ conn_user_map'[h] = u
        /\ \A g \in DOMAIN conn_user_map : conn_user_map'[g] = conn_user_map[g]
    BY <1>3 DEF OpenHandler, Insert, MapsMatchSessions
  <2>3. \A g \in Handles, x \in Usernames : Claims(g, x)' => Claims(g, x)
    BY <1>3, <2>1, <2>2
       DEF TypeOK, MapsMatchSessions, OpenHandler, Erase, Claims, Accepted
  <2>4. overlapped' = overlapped /\ usernames' = usernames \cup {u}
    BY <1>3 DEF OpenHandler
  <2>5. ClaimsUnique'
    BY <2>3, <2>4 DEF NamesInv, ClaimsUnique
  <2>6. NamesMatchConnections'
    BY <2>2, <2>4 DEF NamesInv, NamesMatchConnections
  <2> QED
    BY <2>5, <2>6 DEF NamesInv
<1>4. ASSUME NEW h \in Handles, FailHandler(h) PROVE NamesInv'
  BY <1>4
     DEF TypeOK, MapsMatchSessions, NamesInv, ClaimsUnique,
         NamesMatchConnections, Claims, Accepted, FailHandler, Erase,
         Unclaim, Lookup
<1>5. ASSUME NEW h \in Handles, NEW m \in Messages, MessageHandler(h, m)
      PROVE  NamesInv'
  BY <1>5
     DEF TypeOK, MapsMatchSessions, NamesInv, ClaimsUnique,
         NamesMatchConnections, Claims, Accepted, MessageHandler
<1>6. ASSUME NEW h \in Handles, PeerClose(h) PROVE NamesInv'
  BY <1>6
     DEF TypeOK, MapsMatchSessions, NamesInv, ClaimsUnique,
         NamesMatchConnections, Claims, Accepted, PeerClose
<1>7. ASSUME NEW h \in Handles, CloseHandler(h) PROVE NamesInv'
  <2> DEFINE u == conn_user_map[h]
  <2>1. /\ h \in DOMAIN conn_user_map
        /\ u \in Usernames
        /\ usernames' = usernames \ {u}
        /\ overlapped' = Unclaim(h, u)
    BY <1>7 DEF TypeOK, CloseHandler, MapsMatchSessions, Lookup
  <2>2. /\ DOMAIN conn_user_map' = DOMAIN conn_user_map \ {h}
        /\ \A g \in DOMAIN conn_user_map' :
             conn_user_map'[g] = conn_user_map[g]
    BY <1>7 DEF CloseHandler, Erase
  <2>3. \A g \in Handles, x \in Usernames :
          Claims(g, x)' => g # h /\ Claims(g, x)
    BY <1>7, <2>2 DEF TypeOK, CloseHandler, Claims, Accepted
  <2>4. ClaimsUnique'
    BY <2>1, <2>3 DEF TypeOK, NamesInv, ClaimsUnique, Unclaim
  <2>5. \A g \in DOMAIN conn_user_map' :
          conn_user_map'[g] \in usernames' \cup overlapped'
    <3> SUFFICES ASSUME NEW g \in DOMAIN conn_user_map'
                 PROVE  conn_user_map[g] \in usernames' \cup overlapped'
      BY <2>2
    <3>1. /\ g \in Handles /\ h \in Handles /\ g # h
          /\ conn_user_map[g] \in usernames \cup overlapped
          /\ conn_user_map[g] \in Usernames
      BY <2>1, <2>2 DEF TypeOK, NamesInv, NamesMatchConnections
    <3>2. Claims(g, conn_user_map[g]) /\ Claims(h, u)
      BY <2>1, <2>2 DEF Claims
    <3>3. CASE conn_user_map[g] = u
      BY <2>1, <3>1, <3>2, <3>3 DEF NamesInv, ClaimsUnique, Unclaim
    <3>4. CASE conn_user_map[g] # u
      BY <2>1, <3>1, <3>4 DEF Unclaim
    <3> QED
      BY <3>3, <3>4
  <2>6. usernames' \subseteq {conn_user_map'[g] : g \in DOMAIN conn_user_map'}
    BY <2>1, <2>2 DEF NamesInv, NamesMatchConnections
  <2> QED
    BY <2>4, <2>5, <2>6 DEF NamesInv, NamesMatchConnections
<1>8. CASE MessageHandlerReturn
  BY <1>8
     DEF TypeOK, MapsMatchSessions, NamesInv, ClaimsUnique,
         NamesMatchConnections, Claims, Accepted, MessageHandlerReturn
<1>9. ASSUME NEW h \in Handles, SendNext(h) PROVE NamesInv'
  BY <1>9
     DEF TypeOK, MapsMatchSessions, NamesInv, ClaimsUnique,
         NamesMatchConnections, Claims, Accepted, SendNext
<1>10. ASSUME NEW h \in Handles, SendThrows(h) PROVE NamesInv'
  BY <1>10
     DEF TypeOK, MapsMatchSessions, NamesInv, ClaimsUnique,
         NamesMatchConnections, Claims, Accepted, SendThrows
<1>11. ASSUME NEW d \in Requests, NEW u \in Names, DisconnectUser(d, u)
       PROVE  NamesInv'
  BY <1>11
     DEF TypeOK, MapsMatchSessions, NamesInv, ClaimsUnique,
         NamesMatchConnections, Claims, Accepted, DisconnectUser
<1>12. ASSUME NEW d \in Requests, NEW h \in Handles, DisconnectUserFound(d, h)
       PROVE  NamesInv'
  BY <1>12
     DEF TypeOK, MapsMatchSessions, NamesInv, ClaimsUnique,
         NamesMatchConnections, Claims, Accepted, DisconnectUserFound, Matches
<1>13. ASSUME NEW d \in Requests, DisconnectUserMissed(d) PROVE NamesInv'
  BY <1>13
     DEF TypeOK, MapsMatchSessions, NamesInv, ClaimsUnique,
         NamesMatchConnections, Claims, Accepted, DisconnectUserMissed
<1>14. ASSUME NEW d \in Requests, DisconnectUserTorn(d) PROVE NamesInv'
  BY <1>14
     DEF TypeOK, MapsMatchSessions, NamesInv, ClaimsUnique,
         NamesMatchConnections, Claims, Accepted, DisconnectUserTorn
<1>15. CASE UNCHANGED vars
  BY <1>15
     DEF TypeOK, MapsMatchSessions, NamesInv, ClaimsUnique,
         NamesMatchConnections, Claims, Accepted, vars
<1>16. ASSUME NEW d \in Requests, CloseConnection(d) PROVE NamesInv'
  BY <1>16
     DEF TypeOK, MapsMatchSessions, NamesInv, ClaimsUnique,
         NamesMatchConnections, Claims, Accepted, CloseConnection
<1>17. ASSUME NEW d \in Requests, CloseConnectionThrows(d) PROVE NamesInv'
  BY <1>17
     DEF TypeOK, MapsMatchSessions, NamesInv, ClaimsUnique,
         NamesMatchConnections, Claims, Accepted, CloseConnectionThrows
<1> QED
  BY <1>1, <1>2, <1>3, <1>4, <1>5, <1>6, <1>7, <1>8, <1>9, <1>10,
     <1>11, <1>12, <1>13, <1>14, <1>15, <1>16, <1>17
     DEF Next, Handler, SendLoop, DisconnectUserEnd

\* Each handler posts its event in its phase, with the name of its map.
LEMMA HistoryStep ==
  TypeOK /\ MapsMatchSessions /\ HistoryInv /\ [Next]_vars => HistoryInv'
<1> SUFFICES ASSUME TypeOK, MapsMatchSessions, HistoryInv,
                    [Next]_vars
             PROVE  HistoryInv'
  OBVIOUS
<1> USE DEF sessionVars, loopVars, scanVars, IoIdle, Running
<1>1. ASSUME NEW h \in Handles, NEW u \in Names, ValidateHandler(h, u)
      PROVE  HistoryInv'
  BY <1>1 DEF TypeOK, MapsMatchSessions, HistoryInv, ValidateHandler
<1>2. ASSUME NEW h \in Handles, ValidateHandlerThrows(h) PROVE HistoryInv'
  BY <1>2 DEF TypeOK, MapsMatchSessions, HistoryInv, ValidateHandlerThrows
<1>3. ASSUME NEW h \in Handles, OpenHandler(h) PROVE HistoryInv'
  BY <1>3 DEF TypeOK, MapsMatchSessions, HistoryInv, OpenHandler, Post, Insert
<1>4. ASSUME NEW h \in Handles, FailHandler(h) PROVE HistoryInv'
  BY <1>4 DEF TypeOK, MapsMatchSessions, HistoryInv, FailHandler, Post
<1>5. ASSUME NEW h \in Handles, NEW m \in Messages, MessageHandler(h, m)
      PROVE  HistoryInv'
  BY <1>5
     DEF TypeOK, MapsMatchSessions, HistoryInv, MessageHandler, Post, Lookup
<1>6. ASSUME NEW h \in Handles, PeerClose(h) PROVE HistoryInv'
  BY <1>6 DEF TypeOK, MapsMatchSessions, HistoryInv, PeerClose
<1>7. ASSUME NEW h \in Handles, CloseHandler(h) PROVE HistoryInv'
  BY <1>7
     DEF TypeOK, MapsMatchSessions, HistoryInv, CloseHandler, Post, Lookup,
         Erase
<1>8. CASE MessageHandlerReturn
  BY <1>8 DEF TypeOK, MapsMatchSessions, HistoryInv, MessageHandlerReturn
<1>9. ASSUME NEW h \in Handles, SendNext(h) PROVE HistoryInv'
  BY <1>9 DEF TypeOK, MapsMatchSessions, HistoryInv, SendNext
<1>10. ASSUME NEW h \in Handles, SendThrows(h) PROVE HistoryInv'
  BY <1>10 DEF TypeOK, MapsMatchSessions, HistoryInv, SendThrows
<1>11. ASSUME NEW d \in Requests, NEW u \in Names, DisconnectUser(d, u)
       PROVE  HistoryInv'
  BY <1>11 DEF TypeOK, MapsMatchSessions, HistoryInv, DisconnectUser
<1>12. ASSUME NEW d \in Requests, NEW h \in Handles, DisconnectUserFound(d, h)
       PROVE  HistoryInv'
  BY <1>12
     DEF TypeOK, MapsMatchSessions, HistoryInv, DisconnectUserFound
<1>13. ASSUME NEW d \in Requests, DisconnectUserMissed(d) PROVE HistoryInv'
  BY <1>13 DEF TypeOK, MapsMatchSessions, HistoryInv, DisconnectUserMissed
<1>14. ASSUME NEW d \in Requests, DisconnectUserTorn(d) PROVE HistoryInv'
  BY <1>14 DEF TypeOK, MapsMatchSessions, HistoryInv, DisconnectUserTorn
<1>15. CASE UNCHANGED vars
  BY <1>15 DEF TypeOK, MapsMatchSessions, HistoryInv, vars
<1>16. ASSUME NEW d \in Requests, CloseConnection(d) PROVE HistoryInv'
  BY <1>16 DEF TypeOK, MapsMatchSessions, HistoryInv, CloseConnection
<1>17. ASSUME NEW d \in Requests, CloseConnectionThrows(d) PROVE HistoryInv'
  BY <1>17 DEF TypeOK, MapsMatchSessions, HistoryInv, CloseConnectionThrows
<1> QED
  BY <1>1, <1>2, <1>3, <1>4, <1>5, <1>6, <1>7, <1>8, <1>9, <1>10,
     <1>11, <1>12, <1>13, <1>14, <1>15, <1>16, <1>17
     DEF Next, Handler, SendLoop, DisconnectUserEnd

\* The loop reaches everybody in the map before the next message is handled.
LEMMA BroadcastStep ==
  TypeOK /\ MapsMatchSessions /\ LoopInv /\ BroadcastInv
    /\ [Next]_vars => BroadcastInv'
<1> SUFFICES ASSUME TypeOK, MapsMatchSessions, LoopInv, BroadcastInv,
                    [Next]_vars
             PROVE  BroadcastInv'
  OBVIOUS
<1> USE DEF sessionVars, loopVars, scanVars, IoIdle, Running
<1>1. ASSUME NEW h \in Handles, NEW u \in Names, ValidateHandler(h, u)
      PROVE  BroadcastInv'
  BY <1>1 DEF TypeOK, MapsMatchSessions, BroadcastInv, ValidateHandler
<1>2. ASSUME NEW h \in Handles, ValidateHandlerThrows(h) PROVE BroadcastInv'
  BY <1>2 DEF TypeOK, MapsMatchSessions, BroadcastInv, ValidateHandlerThrows
<1>3. ASSUME NEW h \in Handles, OpenHandler(h) PROVE BroadcastInv'
  <2>1. /\ recipients' = {} /\ message' = NO_MESSAGE
        /\ received' = received /\ broadcast' = broadcast
        /\ Len(received[h]) = 0 /\ Len(broadcast) \in Nat
    BY <1>3 DEF TypeOK, LoopInv, BroadcastInv, OpenHandler
  <2>2. /\ joined'[h] = Len(broadcast)
        /\ \A g \in Handles \ {h} : joined'[g] = joined[g]
        /\ \A g \in Handles \ {h} : session'[g] = session[g]
        /\ session'[h] = "open"
    BY <1>3 DEF TypeOK, OpenHandler
  <2>3. DOMAIN conn_user_map' = DOMAIN conn_user_map \cup {h}
    BY <1>3 DEF OpenHandler, Insert
  <2>4. recipients = {}
    BY <1>3 DEF LoopInv, OpenHandler
  <2> QED
    BY <2>1, <2>2, <2>3, <2>4 DEF TypeOK, BroadcastInv
<1>4. ASSUME NEW h \in Handles, FailHandler(h) PROVE BroadcastInv'
  BY <1>4 DEF TypeOK, MapsMatchSessions, BroadcastInv, FailHandler
<1>5. ASSUME NEW h \in Handles, NEW m \in Messages, MessageHandler(h, m)
      PROVE  BroadcastInv'
  <2>1. /\ Len(broadcast') = Len(broadcast) + 1
        /\ broadcast'[Len(broadcast) + 1] = m
        /\ \A i \in 1 .. Len(broadcast) : broadcast'[i] = broadcast[i]
        /\ Len(broadcast) \in Nat
    BY <1>5 DEF TypeOK, MessageHandler
  <2>2. /\ recipients' = DOMAIN conn_user_map
        /\ recipients = {}
        /\ message' = m
        /\ UNCHANGED <<session, conn_user_map, received, joined>>
    BY <1>5 DEF TypeOK, MapsMatchSessions, LoopInv, MessageHandler
  <2>3. \A g \in Handles : Len(received[g]) \in Nat /\ joined[g] \in Nat
    BY DEF TypeOK
  <2>4. ASSUME NEW g \in Handles
        PROVE  /\ joined[g] + Len(received[g]) <= Len(broadcast')
               /\ \A i \in 1 .. Len(received[g]) :
                    received[g][i] = broadcast'[joined[g] + i]
    <3>1. joined[g] + Len(received[g]) <= Len(broadcast)
      BY DEF BroadcastInv
    <3>2. \A i \in 1 .. Len(received[g]) :
            joined[g] + i \in 1 .. Len(broadcast)
      BY <2>1, <2>3, <3>1
    <3>3. ASSUME NEW i \in 1 .. Len(received[g])
          PROVE  received[g][i] = broadcast'[joined[g] + i]
      <4>1. received[g][i] = broadcast[joined[g] + i]
        BY DEF BroadcastInv
      <4> QED
        BY <2>1, <3>2, <4>1
    <3>4. joined[g] + Len(received[g]) <= Len(broadcast')
      BY <2>1, <2>3, <3>1
    <3> QED
      BY <3>3, <3>4
  <2> QED
    BY <2>1, <2>2, <2>3, <2>4 DEF BroadcastInv
<1>6. ASSUME NEW h \in Handles, PeerClose(h) PROVE BroadcastInv'
  BY <1>6 DEF TypeOK, MapsMatchSessions, BroadcastInv, PeerClose
<1>7. ASSUME NEW h \in Handles, CloseHandler(h) PROVE BroadcastInv'
  BY <1>7
     DEF TypeOK, MapsMatchSessions, BroadcastInv, CloseHandler, Erase,
         LoopInv
<1>8. CASE MessageHandlerReturn
  BY <1>8 DEF TypeOK, MapsMatchSessions, BroadcastInv, MessageHandlerReturn
<1>9. ASSUME NEW h \in Handles, SendNext(h) PROVE BroadcastInv'
  <2>1. /\ h \in DOMAIN conn_user_map
        /\ message # NO_MESSAGE
        /\ message \in Messages
    BY <1>9 DEF TypeOK, LoopInv, SendNext
  <2>2. /\ Len(received'[h]) = Len(received[h]) + 1
        /\ received'[h][Len(received[h]) + 1] = message
        /\ \A i \in 1 .. Len(received[h]) : received'[h][i] = received[h][i]
        /\ \A g \in Handles \ {h} : received'[g] = received[g]
    BY <1>9, <2>1 DEF TypeOK, SendNext
  <2>3. /\ recipients' = recipients \ {h}
        /\ session[h] = "open"
        /\ UNCHANGED <<session, conn_user_map, message, broadcast, joined>>
    BY <1>9 DEF SendNext
  <2>4. /\ \A g \in Handles : Len(received[g]) \in Nat /\ joined[g] \in Nat
        /\ Len(broadcast) \in Nat
    BY DEF TypeOK
  <2>5. joined[h] + Len(received[h]) + 1 = Len(broadcast)
    BY <1>9, <2>1, <2>4 DEF SendNext, BroadcastInv
  <2>6. \A i \in 1 .. Len(received'[h]) :
          received'[h][i] = broadcast[joined[h] + i]
    <3> SUFFICES ASSUME NEW i \in 1 .. Len(received[h]) + 1
                 PROVE  received'[h][i] = broadcast[joined[h] + i]
      BY <2>2
    <3>1. CASE i \in 1 .. Len(received[h])
      BY <2>2, <3>1 DEF BroadcastInv
    <3>2. CASE i = Len(received[h]) + 1
      <4>1. broadcast[Len(broadcast)] = message
        BY <2>1 DEF BroadcastInv
      <4>2. joined[h] + i = Len(broadcast)
        BY <2>4, <2>5, <3>2
      <4> QED
        BY <2>2, <3>2, <4>1, <4>2
    <3> QED
      BY <2>4, <3>1, <3>2
  <2>7. ASSUME NEW g \in Handles \ {h}
        PROVE  /\ received'[g] = received[g]
               /\ g \in recipients' <=> g \in recipients
    BY <2>2, <2>3
  <2>8. h \notin recipients'
    BY <2>3
  <2>9. /\ joined[h] + Len(received'[h]) = Len(broadcast)
        /\ Len(received'[h]) \in Nat
    BY <2>2, <2>4, <2>5
  <2>10. message' # NO_MESSAGE =>
           Len(broadcast') >= 1 /\ broadcast'[Len(broadcast')] = message'
    BY <2>3 DEF BroadcastInv
  <2>11. ASSUME NEW g \in Handles
         PROVE  /\ joined'[g] + Len(received'[g]) <= Len(broadcast')
                /\ \A i \in 1 .. Len(received'[g]) :
                     received'[g][i] = broadcast'[joined'[g] + i]
                /\ g \in DOMAIN conn_user_map' =>
                     joined'[g] + Len(received'[g]) =
                       Len(broadcast') - (IF g \in recipients' THEN 1 ELSE 0)
                /\ session'[g] \in {"connecting", "accepted", "refused"} =>
                     Len(received'[g]) = 0
    <3>1. CASE g = h
      BY <2>3, <2>4, <2>6, <2>8, <2>9, <3>1
    <3>2. CASE g # h
      BY <2>3, <2>7, <3>2 DEF BroadcastInv
    <3> QED
      BY <3>1, <3>2
  <2> QED
    BY <2>10, <2>11 DEF BroadcastInv
<1>10. ASSUME NEW h \in Handles, SendThrows(h) PROVE BroadcastInv'
  BY <1>10 DEF TypeOK, MapsMatchSessions, BroadcastInv, SendThrows
<1>11. ASSUME NEW d \in Requests, NEW u \in Names, DisconnectUser(d, u)
       PROVE  BroadcastInv'
  BY <1>11 DEF TypeOK, MapsMatchSessions, BroadcastInv, DisconnectUser
<1>12. ASSUME NEW d \in Requests, NEW h \in Handles, DisconnectUserFound(d, h)
       PROVE  BroadcastInv'
  BY <1>12
     DEF TypeOK, MapsMatchSessions, BroadcastInv, DisconnectUserFound
<1>13. ASSUME NEW d \in Requests, DisconnectUserMissed(d) PROVE BroadcastInv'
  BY <1>13 DEF TypeOK, MapsMatchSessions, BroadcastInv, DisconnectUserMissed
<1>14. ASSUME NEW d \in Requests, DisconnectUserTorn(d) PROVE BroadcastInv'
  BY <1>14 DEF TypeOK, MapsMatchSessions, BroadcastInv, DisconnectUserTorn
<1>15. CASE UNCHANGED vars
  BY <1>15 DEF TypeOK, MapsMatchSessions, BroadcastInv, vars
<1>16. ASSUME NEW d \in Requests, CloseConnection(d) PROVE BroadcastInv'
  BY <1>16 DEF TypeOK, MapsMatchSessions, BroadcastInv, CloseConnection
<1>17. ASSUME NEW d \in Requests, CloseConnectionThrows(d) PROVE BroadcastInv'
  BY <1>17 DEF TypeOK, MapsMatchSessions, BroadcastInv, CloseConnectionThrows
<1> QED
  BY <1>1, <1>2, <1>3, <1>4, <1>5, <1>6, <1>7, <1>8, <1>9, <1>10,
     <1>11, <1>12, <1>13, <1>14, <1>15, <1>16, <1>17
     DEF Next, Handler, SendLoop, DisconnectUserEnd

-----------------------------------------------------------------------------
(* The invariants.                                                         *)

\* The inductive invariant holds at the start ...
LEMMA IInvInit == Init => IInv
<1> SUFFICES ASSUME Init PROVE IInv
  OBVIOUS
<1>1. val_map \in [{} -> Names] /\ conn_user_map \in [{} -> Usernames]
  BY DEF Init
<1>2. TypeOK
  <2>1. /\ \E D \in SUBSET Handles : val_map \in [D -> Names]
        /\ \E D \in SUBSET Handles : conn_user_map \in [D -> Usernames]
    BY <1>1
  <2>2. /\ session \in [Handles -> SessionStates]
        /\ usernames \in SUBSET Usernames
        /\ message \in Messages \cup {NO_MESSAGE}
        /\ recipients \in SUBSET Handles
        /\ scan \in [Requests -> ScanStates]
        /\ target \in [Requests -> Names]
        /\ found \in [Requests -> SUBSET Handles]
        /\ left \in [Requests -> SUBSET Handles]
        /\ outcome \in Crashes \cup {"running"}
        /\ overlapped \in SUBSET Usernames
    BY DEF Init, Names, SessionStates, ScanStates
  <2>3. /\ received \in [Handles -> Seq(Messages)]
        /\ posted \in [Handles -> Seq(Events)]
        /\ broadcast \in Seq(Messages)
        /\ joined \in [Handles -> Nat]
    BY DEF Init
  <2> QED
    BY <2>1, <2>2, <2>3 DEF TypeOK
<1>3. MapsMatchSessions /\ AcceptedNamed
  BY DEF Init, MapsMatchSessions, AcceptedNamed
<1>4. LoopInv /\ WalkInv /\ ThrowsOnlyWhileLeaving
  BY DEF Init, LoopInv, WalkInv, ThrowsOnlyWhileLeaving
<1>5. NamesInv
  BY DEF Init, NamesInv, NamesMatchConnections, ClaimsUnique, Claims, Accepted
<1>6. HistoryInv /\ BroadcastInv
  BY DEF Init, HistoryInv, BroadcastInv
<1> QED
  BY <1>2, <1>3, <1>4, <1>5, <1>6 DEF IInv

\* ... every step keeps it ...
LEMMA IInvStep == IInv /\ [Next]_vars => IInv'
BY TypeStep, MapsStep, NamedStep, LoopStep, WalkStep, ThrowsStep, NamesStep,
   HistoryStep, BroadcastStep DEF IInv

\* ... and so it always holds.
LEMMA Inductive == Spec => []IInv
BY IInvInit, IInvStep, PTL DEF Spec

\* No user without a name is ever connected.
THEOREM TypeCorrect == Spec => []TypeOK
<1>1. IInv => TypeOK
  BY DEF IInv
<1> QED
  BY <1>1, Inductive, PTL

\* Two connections have one name only if two handshakes claimed it at a time.
THEOREM NamesUnique == Spec => []UniqueNames
<1>1. IInv => UniqueNames
  BY DEF IInv, TypeOK, NamesInv, ClaimsUnique, Claims, UniqueNames
<1> QED
  BY <1>1, Inductive, PTL

\* The set of names in use and the map of connections tell the same, again
\* up to the names on which handshakes overlapped.
THEOREM NamesAgree == Spec => []NamesMatchConnections
<1>1. IInv => NamesMatchConnections
  BY DEF IInv, NamesInv
<1> QED
  BY <1>1, Inductive, PTL

\* No entry is missing when a handler looks it up, or left when it has gone.
THEOREM MapsExact == Spec => []MapsMatchSessions
<1>1. IInv => MapsMatchSessions
  BY DEF IInv
<1> QED
  BY <1>1, Inductive, PTL

\* The bus is told opened, messages, closed, or failed, of each connection.
THEOREM HistoryCorrect == Spec => []EventHistory
<1>1. IInv => EventHistory
  <2> SUFFICES ASSUME TypeOK, HistoryInv, NEW h \in Handles
               PROVE  LET p == posted[h]
                          n == Len(p)
                      IN  \/ p = <<>>
                          \/ n = 1 /\ p[1].event = "CONNECTION_FAILED"
                          \/ /\ p[1].event = "CONNECTION_OPENED"
                             /\ \A i \in 2 .. n :
                                  /\ p[i].user = p[1].user
                                  /\ \/ p[i].event = "NEW_MESSAGE"
                                     \/ /\ p[i].event = "CONNECTION_CLOSED"
                                        /\ i = n
                             /\ session[h] = "gone"
                                  <=> p[n].event = "CONNECTION_CLOSED"
    BY DEF IInv, EventHistory
  <2>1. /\ posted[h] \in Seq(Events)
        /\ session[h] \in SessionStates
    BY DEF TypeOK
  <2>2. CASE session[h] \in {"connecting", "accepted", "refused"}
    BY <2>1, <2>2 DEF HistoryInv
  <2>3. CASE session[h] \in {"open", "closing"}
    BY <2>1, <2>3 DEF HistoryInv
  <2>4. CASE session[h] = "gone"
    BY <2>1, <2>4 DEF HistoryInv
  <2> QED
    BY <2>1, <2>2, <2>3, <2>4 DEF SessionStates
<1> QED
  BY <1>1, Inductive, PTL

\* Everybody connected is sent every message, once and in one order.
THEOREM BroadcastCorrect == Spec => []BroadcastComplete
<1>1. IInv => BroadcastComplete
  <2> SUFFICES ASSUME TypeOK, BroadcastInv, NEW h \in Handles
               PROVE  received[h] = SubSeq(broadcast, joined[h] + 1,
                                           joined[h] + Len(received[h]))
    BY DEF IInv, BroadcastInv, BroadcastComplete
  <2> DEFINE r == received[h]
             s == SubSeq(broadcast, joined[h] + 1, joined[h] + Len(r))
  <2>1. /\ r \in Seq(Messages)
        /\ broadcast \in Seq(Messages)
        /\ joined[h] \in Nat
        /\ Len(r) \in Nat
        /\ joined[h] + Len(r) <= Len(broadcast)
    BY DEF TypeOK, BroadcastInv
  <2>2. \A i \in joined[h] + 1 .. joined[h] + Len(r) :
          broadcast[i] \in Messages
    BY <2>1
  <2>3. /\ s \in Seq(Messages)
        /\ Len(s) = Len(r)
        /\ \A i \in 1 .. Len(r) : s[i] = broadcast[joined[h] + i]
    <3> HIDE DEF r
    <3>1. joined[h] + 1 \in Int /\ joined[h] + Len(r) \in Int
      BY <2>1
    <3>2. /\ s \in Seq(Messages)
          /\ Len(s) = IF joined[h] + 1 <= joined[h] + Len(r)
                      THEN (joined[h] + Len(r)) - (joined[h] + 1) + 1 ELSE 0
          /\ \A i \in 1 .. (joined[h] + Len(r)) - (joined[h] + 1) + 1 :
               s[i] = broadcast[(joined[h] + 1) + i - 1]
      BY <2>2, <3>1, SubSeqProperties
    <3>3. (joined[h] + Len(r)) - (joined[h] + 1) + 1 = Len(r)
      BY <2>1
    <3>4. Len(s) = Len(r)
      <4> HIDE DEF s
      <4> QED
        BY <2>1, <3>2
    <3>5. ASSUME NEW i \in 1 .. Len(r) PROVE s[i] = broadcast[joined[h] + i]
      <4>1. (joined[h] + 1) + i - 1 = joined[h] + i
        BY <2>1
      <4> HIDE DEF s
      <4> QED
        BY <3>2, <3>3, <4>1
    <3> QED
      BY <3>2, <3>4, <3>5
  <2>4. \A i \in 1 .. Len(r) : r[i] = s[i]
    BY <2>3 DEF BroadcastInv
  <2> QED
    BY <2>1, <2>3, <2>4, SeqEqual
<1> QED
  BY <1>1, Inductive, PTL

\* An uncaught exception of send comes from a connection that is closing, one
\* of close from such a connection or from one that left during the walk.
THEOREM ThrowsWindow == Spec => []ThrowsOnlyWhileLeaving
<1>1. IInv => ThrowsOnlyWhileLeaving
  BY DEF IInv
<1> QED
  BY <1>1, Inductive, PTL

-----------------------------------------------------------------------------
(* The environment of the client manager.                                  *)

\* What OneAtATime says of one step.
OneAtATimeNow ==
  \A u \in Usernames \ overlapped :
    \/ NothingTold(u) /\ (Connected(u)' <=> Connected(u))
    \/ Told("CONNECTION_OPENED", u) /\ ~ Connected(u) /\ Connected(u)'
    \/ Told("NEW_MESSAGE", u) /\ Connected(u) /\ Connected(u)'
    \/ Told("CONNECTION_CLOSED", u) /\ Connected(u) /\ ~ Connected(u)'

\* A connection that opens under a name has claimed it until then, so that
\* nobody else has, and a name that is given up is nobody's.
LEMMA OneAtATimeStep == IInv /\ [Next]_vars => OneAtATimeNow
<1> SUFFICES ASSUME IInv, [Next]_vars, NEW u \in Usernames \ overlapped
             PROVE
    \/ Told("CONNECTION_OPENED", u) /\ ~ Connected(u) /\ Connected(u)'
    \/ Told("NEW_MESSAGE", u) /\ Connected(u) /\ Connected(u)'
    \/ Told("CONNECTION_CLOSED", u) /\ Connected(u) /\ ~ Connected(u)'
    \/ NothingTold(u) /\ (Connected(u)' <=> Connected(u))
  BY DEF OneAtATimeNow
<1> USE DEF sessionVars, loopVars, scanVars, IoIdle, Running
<1>1. TypeOK /\ MapsMatchSessions /\ AcceptedNamed /\ ClaimsUnique
  BY DEF IInv, NamesInv
<1>2. ASSUME UNCHANGED <<conn_user_map, posted>>
      PROVE  NothingTold(u) /\ (Connected(u)' <=> Connected(u))
  BY <1>2 DEF NothingTold, Connected
<1>3. \A g \in Handles, h \in Handles : Claims(g, u) /\ Claims(h, u) => g = h
  BY <1>1 DEF ClaimsUnique
<1>4. ASSUME NEW h \in Handles, OpenHandler(h)
      PROVE  \/ /\ Told("CONNECTION_OPENED", u)
                /\ ~ Connected(u) /\ Connected(u)'
             \/ NothingTold(u) /\ (Connected(u)' <=> Connected(u))
  <2> DEFINE v == Lookup(val_map, h)
  <2>1. v \in Usernames /\ Accepted(h, v)
    BY <1>1, <1>4
       DEF OpenHandler, Lookup, AcceptedNamed, MapsMatchSessions, Accepted
  <2>2. /\ DOMAIN conn_user_map' = DOMAIN conn_user_map \cup {h}
        /\ h \notin DOMAIN conn_user_map
        /\ conn_user_map'[h] = v
        /\ \A g \in DOMAIN conn_user_map : conn_user_map'[g] = conn_user_map[g]
    BY <1>1, <1>4 DEF OpenHandler, Insert, MapsMatchSessions
  <2>3. Told("CONNECTION_OPENED", v)
    BY <1>4 DEF OpenHandler, Told
  <2> HIDE DEF v
  <2>4. CASE v = u
    <3>1. ~ Connected(u)
      <4> SUFFICES ASSUME NEW g \in DOMAIN conn_user_map, conn_user_map[g] = u
                   PROVE  FALSE
        BY DEF Connected
      <4>1. g \in Handles
        BY <1>1 DEF MapsMatchSessions
      <4> QED
        BY <1>3, <2>1, <2>2, <2>4, <4>1 DEF Claims
    <3>2. Connected(u)'
      BY <2>2, <2>4 DEF Connected
    <3> QED
      BY <2>3, <2>4, <3>1, <3>2
  <2>5. CASE v # u
    <3>1. NothingTold(u)
      BY <2>1, <2>3, <2>5 DEF NothingTold, EventIds, Names
    <3>2. Connected(u)' <=> Connected(u)
      BY <2>2, <2>5 DEF Connected
    <3> QED
      BY <3>1, <3>2
  <2> QED
    BY <2>4, <2>5
<1>5. ASSUME NEW h \in Handles, CloseHandler(h)
      PROVE  \/ /\ Told("CONNECTION_CLOSED", u)
                /\ Connected(u) /\ ~ Connected(u)'
             \/ NothingTold(u) /\ (Connected(u)' <=> Connected(u))
  <2> DEFINE v == conn_user_map[h]
  <2>1. /\ h \in DOMAIN conn_user_map /\ v \in Usernames
        /\ Lookup(conn_user_map, h) = v
    BY <1>1, <1>5 DEF TypeOK, CloseHandler, MapsMatchSessions, Lookup
  <2>2. /\ DOMAIN conn_user_map' = DOMAIN conn_user_map \ {h}
        /\ \A g \in DOMAIN conn_user_map' :
             conn_user_map'[g] = conn_user_map[g]
    BY <1>5 DEF CloseHandler, Erase
  <2>3. Told("CONNECTION_CLOSED", v)
    BY <1>5, <2>1 DEF CloseHandler, Told
  <2>4. CASE v = u
    <3>1. Connected(u)
      BY <2>1, <2>4 DEF Connected
    <3>2. ~ Connected(u)'
      <4> SUFFICES ASSUME NEW g \in DOMAIN conn_user_map',
                          conn_user_map'[g] = u
                   PROVE  FALSE
        BY DEF Connected
      <4>1. /\ g \in Handles /\ g # h
            /\ g \in DOMAIN conn_user_map /\ conn_user_map[g] = u
        BY <1>1, <2>2 DEF MapsMatchSessions
      <4> QED
        BY <1>3, <1>5, <2>1, <2>4, <4>1 DEF Claims
    <3> QED
      BY <2>3, <2>4, <3>1, <3>2
  <2>5. CASE v # u
    <3>1. NothingTold(u)
      BY <2>1, <2>3, <2>5 DEF NothingTold, EventIds, Names
    <3>2. Connected(u)' <=> Connected(u)
      BY <2>2, <2>5 DEF Connected
    <3> QED
      BY <3>1, <3>2
  <2> QED
    BY <2>4, <2>5
<1>6. ASSUME NEW h \in Handles, NEW m \in Messages, MessageHandler(h, m)
      PROVE  \/ Told("NEW_MESSAGE", u) /\ Connected(u) /\ Connected(u)'
             \/ NothingTold(u) /\ (Connected(u)' <=> Connected(u))
  <2> DEFINE v == conn_user_map[h]
  <2>1. /\ h \in DOMAIN conn_user_map /\ v \in Usernames
        /\ Lookup(conn_user_map, h) = v
    BY <1>1, <1>6 DEF TypeOK, MessageHandler, MapsMatchSessions, Lookup
  <2>2. Told("NEW_MESSAGE", v) /\ conn_user_map' = conn_user_map
    BY <1>6, <2>1 DEF MessageHandler, Told
  <2>3. CASE v = u
    BY <2>1, <2>2, <2>3 DEF Connected
  <2>4. CASE v # u
    BY <2>1, <2>2, <2>4 DEF NothingTold, EventIds, Names, Connected
  <2> QED
    BY <2>3, <2>4
<1>7. ASSUME NEW h \in Handles, FailHandler(h)
      PROVE  NothingTold(u) /\ (Connected(u)' <=> Connected(u))
  <2>1. Lookup(val_map, h) \in Names
    BY <1>1 DEF TypeOK, Lookup, Names
  <2>2. Told("CONNECTION_FAILED", Lookup(val_map, h))
        /\ conn_user_map' = conn_user_map
    BY <1>7 DEF FailHandler, Told
  <2> QED
    BY <2>1, <2>2 DEF NothingTold, EventIds, Connected
<1>8. \A h \in Handles, x \in Names :
        ValidateHandler(h, x) => UNCHANGED <<conn_user_map, posted>>
  BY DEF ValidateHandler
<1>9. \A h \in Handles :
        ValidateHandlerThrows(h) \/ PeerClose(h) \/ SendNext(h)
          \/ SendThrows(h) => UNCHANGED <<conn_user_map, posted>>
  BY DEF ValidateHandlerThrows, PeerClose, SendNext, SendThrows
<1>10. MessageHandlerReturn => UNCHANGED <<conn_user_map, posted>>
  BY DEF MessageHandlerReturn
<1>11. \A d \in Requests, x \in Names :
         DisconnectUser(d, x) => UNCHANGED <<conn_user_map, posted>>
  BY DEF DisconnectUser
<1>12. \A d \in Requests :
         DisconnectUserEnd(d) => UNCHANGED <<conn_user_map, posted>>
  BY DEF DisconnectUserEnd, DisconnectUserFound, DisconnectUserMissed,
         DisconnectUserTorn, CloseConnection, CloseConnectionThrows
<1>13. UNCHANGED vars => UNCHANGED <<conn_user_map, posted>>
  BY DEF vars
<1> QED
  BY <1>2, <1>4, <1>5, <1>6, <1>7, <1>8, <1>9, <1>10, <1>11, <1>12, <1>13
     DEF Next, Handler, SendLoop

\* At the start nobody is there, and from then on the client manager is told
\* of one connection of a name at a time.
THEOREM ToldOneAtATime ==
  Spec => (\A u \in Usernames : ~ Connected(u)) /\ OneAtATime
<1>1. Init => \A u \in Usernames : ~ Connected(u)
  BY DEF Init, Connected
<1>2. Spec => [][OneAtATimeNow]_vars
  BY OneAtATimeStep, Inductive, PTL DEF Spec
<1> QED
  BY <1>1, <1>2, PTL DEF Spec, OneAtATime, OneAtATimeNow
=============================================================================
