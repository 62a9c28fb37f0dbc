--------------------------- MODULE WebsocketServer ---------------------------
(***************************************************************************)
(* The websocket server (websocket_server.cpp): who is connected under     *)
(* which name, what is broadcast to them, and how they are disconnected.   *)
(*                                                                         *)
(* Threads.  websocketpp calls the five handlers from the one thread that  *)
(* runs srv.run(), so a handler is one action; the send loop of            *)
(* MessageHandler alone is split into its sends, because DisconnectUser,   *)
(* which the event bus calls on threads of its own, acts on the same       *)
(* sessions meanwhile.  DisconnectUser walks conn_user_map without its     *)
(* mutex and closes the connection by a copy of its handle: the map may    *)
(* change under the walk, which then has every outcome a torn walk can     *)
(* have, and the connection may have gone before it is closed.             *)
(*                                                                         *)
(* External.  A session is what websocketpp knows of a connection; it      *)
(* calls validate once, then open or fail, and close once after open.  Its *)
(* functions send and close throw for a session that is not open, or has   *)
(* gone, and nobody catches: the process ends.                             *)
(***************************************************************************)
EXTENDS Naturals, Sequences

CONSTANTS
  Handles,    \* connection handles; one stands for one connection
  Usernames,  \* the nonempty values of the Username header
  NO_NAME,    \* the empty one, also that of a default-constructed User
  Messages,   \* the messages that may arrive, each once
  NO_MESSAGE, \* no send loop is running
  Requests    \* the DISCONNECT_USER events that may be handled, each once

ASSUME WebsocketServerAssumption ==
  /\ NO_NAME \notin Usernames
  /\ NO_MESSAGE \notin Messages

VARIABLES
  session,       \* external: handle -> the state of its websocketpp session
  val_map,       \* handle -> user, between validate and open or fail
  conn_user_map, \* handle -> user, between open and close
  usernames,     \* the names in use
  message,       \* the message the send loop is sending
  recipients,    \* the handles it has still to send it to
  received,      \* handle -> what has been sent to it
  scan,          \* request -> where its thread is
  target,        \* request -> the name to disconnect
  found,         \* request -> the handle it has copied, as a set of one
  outcome,       \* "running", or what ended the process
  posted,        \* history: handle -> the events sent about it
  broadcast,     \* history: the messages in the order they were handled
  joined,        \* history: handle -> how many of them it was too late for
  overlapped,    \* history: the names that two handshakes claimed at a time
  left           \* history: request -> who left the map since its walk began

sessionVars == <<session, val_map, conn_user_map, usernames>>
loopVars == <<message, recipients, received, broadcast>>
scanVars == <<scan, target, found, left>>
vars ==
  <<sessionVars, loopVars, scanVars, outcome, posted, joined, overlapped>>

Names == Usernames \cup {NO_NAME}

SessionStates ==
  {"connecting", "accepted", "refused", "open", "closing", "gone"}

EventIds == {"CONNECTION_OPENED", "NEW_MESSAGE", "CONNECTION_CLOSED",
             "CONNECTION_FAILED"}

Events == [event : EventIds, user : Names]

ScanStates == {"none", "scanning", "raced", "found", "done"}

\* What ends the process: an exception of send, of close or of
\* remote_endpoint, or a torn walk.
Crashes == {"send", "close", "remote_endpoint", "walk"}

\* Definitions with _mutant in their name are plausible bugs in the definition
\* that follows them; no specification uses them.

\* std::map: operator[], insert and erase.  A User is its name: names alone
\* decide which users are equal (user.cpp:67-82).
Lookup(m, h) == IF h \in DOMAIN m THEN m[h] ELSE NO_NAME

Insert(m, h, u) ==
  [x \in DOMAIN m \cup {h} |-> IF x \in DOMAIN m THEN m[x] ELSE u]

Erase(m, h) == [x \in DOMAIN m \ {h} |-> m[x]]

Post(h, e, u) == [posted EXCEPT ![h] = Append(@, [event |-> e, user |-> u])]

\* GetConnectionUser returns RET_OK: the request has a Username header.
GetConnectionUser_mutant(u) == TRUE
GetConnectionUser(u) == u # NO_NAME

\* The condition of ValidateHandler: a name was given and is not in use.
Accepts_mutant(u) == GetConnectionUser(u)
Accepts(u) == GetConnectionUser(u) /\ u \notin usernames

\* h has passed validation as u and is not open yet; h is that, or is u.
Accepted(h, u) == session[h] = "accepted" /\ val_map[h] = u
Claims(h, u) ==
  Accepted(h, u) \/ (h \in DOMAIN conn_user_map /\ conn_user_map[h] = u)

\* h gives up its claim on u.  When nobody else has one, the name is clean.
Unclaim(h, u) ==
  IF \E g \in Handles \ {h} : Claims(g, u) THEN overlapped
                                           ELSE overlapped \ {u}

\* A walk over conn_user_map that is under way when the map changes is torn.
Torn == [d \in Requests |-> IF scan[d] = "scanning" THEN "raced" ELSE scan[d]]

\* The walks that have not ended see h leave.
Leaves(h) ==
  [d \in Requests |->
     IF scan[d] \in {"none", "done"} THEN left[d] ELSE left[d] \cup {h}]

-----------------------------------------------------------------------------
Init ==
  /\ session = [h \in Handles |-> "connecting"]
  /\ val_map = [h \in {} |-> NO_NAME]
  /\ conn_user_map = [h \in {} |-> NO_NAME]
  /\ usernames = {}
  /\ message = NO_MESSAGE
  /\ recipients = {}
  /\ received = [h \in Handles |-> <<>>]
  /\ scan = [d \in Requests |-> "none"]
  /\ target = [d \in Requests |-> NO_NAME]
  /\ found = [d \in Requests |-> {}]
  /\ left = [d \in Requests |-> {}]
  /\ outcome = "running"
  /\ posted = [h \in Handles |-> <<>>]
  /\ broadcast = <<>>
  /\ joined = [h \in Handles |-> 0]
  /\ overlapped = {}

Running == outcome = "running"

\* The thread of srv.run() is between two handlers.
IoIdle == Running /\ message = NO_MESSAGE

-----------------------------------------------------------------------------
(* Handlers.                                                               *)

ValidateHandler(h, u) ==
  /\ IoIdle
  /\ session[h] = "connecting"
  /\ session' =
       [session EXCEPT ![h] = IF Accepts(u) THEN "accepted" ELSE "refused"]
  /\ val_map' = Insert(val_map, h, u)
  /\ overlapped' = IF Accepts(u) /\ \E g \in Handles : Accepted(g, u)
                   THEN overlapped \cup {u} ELSE overlapped
  /\ UNCHANGED <<conn_user_map, usernames, loopVars, scanVars, outcome, posted,
                 joined>>

\* The socket is no longer connected when its address is asked for.
ValidateHandlerThrows(h) ==
  /\ IoIdle
  /\ session[h] = "connecting"
  /\ outcome' = "remote_endpoint"
  /\ UNCHANGED <<sessionVars, loopVars, scanVars, posted, joined, overlapped>>

OpenHandler(h) ==
  LET u == Lookup(val_map, h) IN
  /\ IoIdle
  /\ session[h] = "accepted"
  /\ session' = [session EXCEPT ![h] = "open"]
  /\ val_map' = Erase(val_map, h)
  /\ conn_user_map' = Insert(conn_user_map, h, u)
  /\ usernames' = usernames \cup {u}
  /\ posted' = Post(h, "CONNECTION_OPENED", u)
  /\ scan' = Torn
  /\ joined' = [joined EXCEPT ![h] = Len(broadcast)]
  /\ UNCHANGED <<loopVars, target, found, left, outcome, overlapped>>

\* A handshake that was refused, broke off, or was none: the last posts a
\* default-constructed user.
FailHandler(h) ==
  LET u == Lookup(val_map, h) IN
  /\ IoIdle
  /\ session[h] \in {"connecting", "accepted", "refused"}
  /\ session' = [session EXCEPT ![h] = "gone"]
  /\ val_map' = Erase(val_map, h)
  /\ posted' = Post(h, "CONNECTION_FAILED", u)
  /\ overlapped' = Unclaim(h, u)
  /\ UNCHANGED <<conn_user_map, usernames, loopVars, scanVars, outcome,
                 joined>>

CloseHandler_mutant_entry(h) ==  \* the entry stays
  LET u == Lookup(conn_user_map, h) IN
  /\ IoIdle
  /\ session[h] = "closing"
  /\ session' = [session EXCEPT ![h] = "gone"]
  /\ usernames' = usernames \ {u}
  /\ posted' = Post(h, "CONNECTION_CLOSED", u)
  /\ overlapped' = Unclaim(h, u)
  /\ UNCHANGED <<val_map, conn_user_map, loopVars, scanVars, outcome, joined>>

CloseHandler_mutant_name(h) ==  \* the name stays in use
  LET u == Lookup(conn_user_map, h) IN
  /\ IoIdle
  /\ session[h] = "closing"
  /\ session' = [session EXCEPT ![h] = "gone"]
  /\ conn_user_map' = Erase(conn_user_map, h)
  /\ posted' = Post(h, "CONNECTION_CLOSED", u)
  /\ scan' = Torn
  /\ left' = Leaves(h)
  /\ overlapped' = Unclaim(h, u)
  /\ UNCHANGED <<val_map, usernames, loopVars, target, found, outcome, joined>>

CloseHandler_mutant_order(h) ==  \* erased before it is read
  LET u == Lookup(Erase(conn_user_map, h), h) IN
  /\ IoIdle
  /\ session[h] = "closing"
  /\ session' = [session EXCEPT ![h] = "gone"]
  /\ conn_user_map' = Erase(conn_user_map, h)
  /\ usernames' = usernames \ {u}
  /\ posted' = Post(h, "CONNECTION_CLOSED", u)
  /\ scan' = Torn
  /\ left' = Leaves(h)
  /\ overlapped' = Unclaim(h, u)
  /\ UNCHANGED <<val_map, loopVars, target, found, outcome, joined>>

CloseHandler(h) ==
  LET u == Lookup(conn_user_map, h) IN
  /\ IoIdle
  /\ session[h] = "closing"
  /\ session' = [session EXCEPT ![h] = "gone"]
  /\ conn_user_map' = Erase(conn_user_map, h)
  /\ usernames' = usernames \ {u}
  /\ posted' = Post(h, "CONNECTION_CLOSED", u)
  /\ scan' = Torn
  /\ left' = Leaves(h)
  /\ overlapped' = Unclaim(h, u)
  /\ UNCHANGED <<val_map, loopVars, target, found, outcome, joined>>

\* MessageHandler up to its loop: it posts the message and sends it to the
\* handles of a snapshot, in which operator[] has looked the sender up.
MessageHandler(h, m) ==
  /\ IoIdle
  /\ session[h] = "open"
  /\ \A i \in 1 .. Len(broadcast) : broadcast[i] # m
  /\ message' = m
  /\ recipients' = DOMAIN conn_user_map \cup {h}
  /\ broadcast' = Append(broadcast, m)
  /\ posted' = Post(h, "NEW_MESSAGE", Lookup(conn_user_map, h))
  /\ UNCHANGED <<sessionVars, received, scanVars, outcome, joined, overlapped>>

SendNext_mutant(h) ==  \* the iterator does not advance
  /\ Running
  /\ h \in recipients
  /\ session[h] = "open"
  /\ received' = [received EXCEPT ![h] = Append(@, message)]
  /\ UNCHANGED <<sessionVars, message, recipients, broadcast, scanVars,
                 outcome, posted, joined, overlapped>>

\* One turn of the loop.
SendNext(h) ==
  /\ Running
  /\ h \in recipients
  /\ session[h] = "open"
  /\ received' = [received EXCEPT ![h] = Append(@, message)]
  /\ recipients' = recipients \ {h}
  /\ UNCHANGED <<sessionVars, message, broadcast, scanVars, outcome, posted,
                 joined, overlapped>>

SendThrows(h) ==
  /\ Running
  /\ h \in recipients
  /\ session[h] # "open"
  /\ outcome' = "send"
  /\ UNCHANGED <<sessionVars, loopVars, scanVars, posted, joined, overlapped>>

MessageHandlerReturn ==
  /\ Running
  /\ message # NO_MESSAGE
  /\ recipients = {}
  /\ message' = NO_MESSAGE
  /\ UNCHANGED <<sessionVars, recipients, received, broadcast, scanVars,
                 outcome, posted, joined, overlapped>>

\* External: the peer closes or the connection breaks.  From now on send and
\* close throw; the close handler is still to come.
PeerClose(h) ==
  /\ IoIdle
  /\ session[h] = "open"
  /\ session' = [session EXCEPT ![h] = "closing"]
  /\ UNCHANGED <<val_map, conn_user_map, usernames, loopVars, scanVars,
                 outcome, posted, joined, overlapped>>

-----------------------------------------------------------------------------
(* Events from the bus, on threads of the bus.                             *)

\* The console may name anybody, even nobody.
DisconnectUser(d, u) ==
  /\ Running
  /\ scan[d] = "none"
  /\ scan' = [scan EXCEPT ![d] = "scanning"]
  /\ target' = [target EXCEPT ![d] = u]
  /\ UNCHANGED <<sessionVars, loopVars, found, left, outcome, posted, joined,
                 overlapped>>

Matches(u) == {h \in DOMAIN conn_user_map : conn_user_map[h] = u}

DisconnectUserFound_mutant(d, h) ==  \* found, and not closed
  /\ Running
  /\ scan[d] \in {"scanning", "raced"}
  /\ h \in Matches(target[d])
  /\ scan' = [scan EXCEPT ![d] = "done"]
  /\ target' = [target EXCEPT ![d] = NO_NAME]
  /\ left' = [left EXCEPT ![d] = {}]
  /\ UNCHANGED <<sessionVars, loopVars, found, outcome, posted, joined,
                 overlapped>>

\* The walk meets an entry of that name, any one of them, and copies its
\* handle: nothing keeps the connection there until it is closed.  A torn
\* walk may also meet an entry that has been freed.
DisconnectUserFound(d, h) ==
  /\ Running
  /\ \/ scan[d] \in {"scanning", "raced"} /\ h \in Matches(target[d])
     \/ scan[d] = "raced" /\ h \in left[d]
  /\ scan' = [scan EXCEPT ![d] = "found"]
  /\ found' = [found EXCEPT ![d] = {h}]
  /\ UNCHANGED <<sessionVars, loopVars, target, left, outcome, posted, joined,
                 overlapped>>

\* The walk meets none: there is none, or a torn walk went past it.
DisconnectUserMissed(d) ==
  /\ Running
  /\ \/ scan[d] = "scanning" /\ Matches(target[d]) = {}
     \/ scan[d] = "raced"
  /\ scan' = [scan EXCEPT ![d] = "done"]
  /\ target' = [target EXCEPT ![d] = NO_NAME]
  /\ left' = [left EXCEPT ![d] = {}]
  /\ UNCHANGED <<sessionVars, loopVars, found, outcome, posted, joined,
                 overlapped>>

\* A torn walk may also follow a freed node.
DisconnectUserTorn(d) ==
  /\ Running
  /\ scan[d] = "raced"
  /\ outcome' = "walk"
  /\ UNCHANGED <<sessionVars, loopVars, scanVars, posted, joined, overlapped>>

\* The connection of the handle is closed.
CloseConnection(d) ==
  /\ Running
  /\ scan[d] = "found"
  /\ \A h \in found[d] : session[h] = "open"
  /\ session' = [h \in Handles |->
                   IF h \in found[d] THEN "closing" ELSE session[h]]
  /\ scan' = [scan EXCEPT ![d] = "done"]
  /\ found' = [found EXCEPT ![d] = {}]
  /\ target' = [target EXCEPT ![d] = NO_NAME]
  /\ left' = [left EXCEPT ![d] = {}]
  /\ UNCHANGED <<val_map, conn_user_map, usernames, loopVars, outcome, posted,
                 joined, overlapped>>

\* It is being closed already, or its handle has expired.
CloseConnectionThrows(d) ==
  /\ Running
  /\ \E h \in found[d] : session[h] # "open"
  /\ outcome' = "close"
  /\ UNCHANGED <<sessionVars, loopVars, scanVars, posted, joined, overlapped>>

-----------------------------------------------------------------------------
Handler(h) ==
  \/ \E u \in Names : ValidateHandler(h, u)
  \/ ValidateHandlerThrows(h)
  \/ OpenHandler(h)
  \/ FailHandler(h)
  \/ \E m \in Messages : MessageHandler(h, m)
  \/ PeerClose(h)

SendLoop ==
  \/ MessageHandlerReturn
  \/ \E h \in Handles : SendNext(h) \/ SendThrows(h)

DisconnectUserEnd(d) ==
  \/ \E h \in Handles : DisconnectUserFound(d, h)
  \/ DisconnectUserMissed(d)
  \/ DisconnectUserTorn(d)
  \/ CloseConnection(d)
  \/ CloseConnectionThrows(d)

Next ==
  \/ \E h \in Handles : Handler(h) \/ CloseHandler(h)
  \/ SendLoop
  \/ \E d \in Requests :
       (\E u \in Names : DisconnectUser(d, u)) \/ DisconnectUserEnd(d)

Spec == Init /\ [][Next]_vars

\* The threads run; websocketpp ends a closing session by itself, after a
\* timeout if the peer does not answer.  Peers are obliged to nothing.
Fairness ==
  /\ WF_vars(SendLoop)
  /\ \A h \in Handles : WF_vars(CloseHandler(h))
  /\ \A d \in Requests : WF_vars(DisconnectUserEnd(d))

FairSpec == Spec /\ Fairness

-----------------------------------------------------------------------------
(* Properties.                                                             *)

(***************************************************************************)
(* The shape of the state.  No user without a name is ever connected: the  *)
(* default-constructed User stays out of conn_user_map and usernames.      *)
(***************************************************************************)
TypeOK ==
  /\ session \in [Handles -> SessionStates]
  /\ \E D \in SUBSET Handles : val_map \in [D -> Names]
  /\ \E D \in SUBSET Handles : conn_user_map \in [D -> Usernames]
  /\ usernames \in SUBSET Usernames
  /\ message \in Messages \cup {NO_MESSAGE}
  /\ recipients \in SUBSET Handles
  /\ received \in [Handles -> Seq(Messages)]
  /\ scan \in [Requests -> ScanStates]
  /\ target \in [Requests -> Names]
  /\ found \in [Requests -> SUBSET Handles]
  /\ left \in [Requests -> SUBSET Handles]
  /\ outcome \in Crashes \cup {"running"}
  /\ posted \in [Handles -> Seq(Events)]
  /\ broadcast \in Seq(Messages)
  /\ joined \in [Handles -> Nat]
  /\ overlapped \in SUBSET Usernames

(***************************************************************************)
(* One connection per name.  The check of ValidateHandler and the insert   *)
(* of OpenHandler are two calls of websocketpp: this holds for each name   *)
(* that no two handshakes claimed at the same time since it was last free. *)
(***************************************************************************)
UniqueNames ==
  \A g, h \in DOMAIN conn_user_map :
    g # h /\ conn_user_map[g] = conn_user_map[h] =>
      conn_user_map[g] \in overlapped

(***************************************************************************)
(* usernames, which decides who may join, and conn_user_map, which decides *)
(* who is there, have mutexes of their own.  A name in use belongs to a    *)
(* connection, always; a connection's name is in use, unless handshakes    *)
(* overlapped: then the first of two to leave frees the name of the other. *)
(***************************************************************************)
NamesMatchConnections ==
  LET connected == {conn_user_map[h] : h \in DOMAIN conn_user_map} IN
  /\ usernames \subseteq connected
  /\ connected \subseteq usernames \cup overlapped

(***************************************************************************)
(* Nothing of a connection is left when it has gone, and nothing that the  *)
(* handlers look up with operator[] is missing: each map holds exactly the *)
(* sessions of its phase.                                                  *)
(***************************************************************************)
MapsMatchSessions ==
  /\ DOMAIN val_map = {h \in Handles : session[h] \in {"accepted", "refused"}}
  /\ DOMAIN conn_user_map =
       {h \in Handles : session[h] \in {"open", "closing"}}

(***************************************************************************)
(* What the bus is told about a connection: opened, messages and closed,   *)
(* in this order and under one name, or failed and nothing else.           *)
(***************************************************************************)
EventHistory ==
  \A h \in Handles :
    LET p == posted[h]
        n == Len(p)
    IN  \/ p = <<>>
        \/ n = 1 /\ p[1].event = "CONNECTION_FAILED"
        \/ /\ p[1].event = "CONNECTION_OPENED"
           /\ \A i \in 2 .. n :
                /\ p[i].user = p[1].user
                /\ p[i].event = "NEW_MESSAGE"
                     \/ (p[i].event = "CONNECTION_CLOSED" /\ i = n)
           /\ session[h] = "gone" <=> p[n].event = "CONNECTION_CLOSED"

(***************************************************************************)
(* Every connection is sent every message that is handled while it is      *)
(* connected, once, in the order in which the bus is told of them: what it *)
(* has received is a part of broadcast that begins where it joined and     *)
(* ends, as long as it is there, where the send loop is.                   *)
(***************************************************************************)
BroadcastComplete ==
  \A h \in Handles :
    /\ received[h] =
         SubSeq(broadcast, joined[h] + 1, joined[h] + Len(received[h]))
    /\ h \in DOMAIN conn_user_map =>
         joined[h] + Len(received[h]) =
           Len(broadcast) - (IF h \in recipients THEN 1 ELSE 0)

(***************************************************************************)
(* When the process ends because send or close threw.  send throws for a   *)
(* connection that is between the end of its session and its close handler *)
(* and never for one that was forgotten: the snapshot of MessageHandler    *)
(* does not outlive its entries.  The handle that DisconnectUser has       *)
(* copied may: close throws for such a connection too, and for one that    *)
(* was forgotten, if that was during this very walk.                       *)
(***************************************************************************)
ThrowsOnlyWhileLeaving ==
  /\ outcome = "send" =>
       \E h \in recipients \cap DOMAIN conn_user_map : session[h] = "closing"
  /\ outcome = "close" =>
       \E d \in Requests : \E h \in found[d] :
         \/ session[h] = "closing" /\ h \in DOMAIN conn_user_map
         \/ session[h] = "gone" /\ h \in left[d]

Connected(u) == \E h \in DOMAIN conn_user_map : conn_user_map[h] = u

\* The step tells the bus of e, about a connection under the name u.
Told(e, u) == \E h \in Handles : posted' = Post(h, e, u)

\* It tells nothing of u, but perhaps that a handshake has failed, which
\* nobody subscribes to.
NothingTold(u) ==
  \/ UNCHANGED posted
  \/ \E e \in EventIds, v \in Names :
       Told(e, v) /\ (v # u \/ e = "CONNECTION_FAILED")

(***************************************************************************)
(* What the client manager, which knows names and no connections, is told  *)
(* of a name, over all connections that have it one after the other: it    *)
(* is opened only when there is none, speaks and is closed only when there *)
(* is one, and is there until it is closed.  These are the guards and the  *)
(* effects of OpenHandler, MessageHandler and CloseHandler in ClientMgr.   *)
(* It is so for each name that no two handshakes claimed at once.          *)
(***************************************************************************)
OneAtATime == [][
  \A u \in Usernames \ overlapped :
    \/ NothingTold(u) /\ (Connected(u)' <=> Connected(u))
    \/ Told("CONNECTION_OPENED", u) /\ ~ Connected(u) /\ Connected(u)'
    \/ Told("NEW_MESSAGE", u) /\ Connected(u) /\ Connected(u)'
    \/ Told("CONNECTION_CLOSED", u) /\ Connected(u) /\ ~ Connected(u)'
  ]_vars

(***************************************************************************)
(* Who is to be disconnected, by the timeout or from the console, leaves,  *)
(* if no other connection came or went during the walk, and the process    *)
(* did not end.                                                            *)
(***************************************************************************)
DisconnectedLeave ==
  \A d \in Requests, h \in Handles :
    (/\ scan[d] = "scanning"
     /\ h \in Matches(target[d])
     /\ target[d] \notin overlapped)
      ~> (session[h] = "gone" \/ scan[d] = "raced" \/ ~Running)
=============================================================================
