------------------------------ MODULE ClientMgr ------------------------------
(***************************************************************************)
(* The client manager (client_mgr.cpp): who is listed as connected, and    *)
(* who has been silent for too long and is to be disconnected.             *)
(*                                                                         *)
(* Events.  The bus handles every event on a thread of its own (EventBus:  *)
(* CyclicEmit), so the handlers of events that were sent one after the     *)
(* other run in any order and at the same time.  ConnectionOpened and      *)
(* ConnectionClosed lock the mutexes of their two tables in turn: each is  *)
(* two actions, and other handlers may come between them.                  *)
(*                                                                         *)
(* Connections.  What the websocket server sends about a name is what      *)
(* WebsocketServer shows: opened, messages, closed, in this order          *)
(* (EventHistory), and one connection of a name at a time (OneAtATime, for *)
(* a name that no two handshakes claimed at once).  Its DisconnectUser is  *)
(* there too, step by step: the walk over conn_user_map, which other       *)
(* connections may tear, the close, which throws for a connection that is  *)
(* closing or has gone, and the close handler that follows.                *)
(*                                                                         *)
(* Time.  A table holds, for a time stamp, the seconds that have passed    *)
(* since, counted up to Timeout: the code only ever asks whether Timeout   *)
(* has passed.                                                             *)
(***************************************************************************)
EXTENDS Naturals, Sequences

CONSTANTS
  Users,       \* the user names
  Timeout,     \* timeout, in seconds
  MaxJoins,    \* bound: how many connections are opened
  MaxMessages, \* bound: how many messages are sent
  MaxRequests  \* bound: how many requests about one user are under way at once

ASSUME ClientMgrAssumption ==
  /\ Timeout \in Nat \ {0}
  /\ MaxJoins \in Nat
  /\ MaxMessages \in Nat
  /\ MaxRequests \in Nat

VARIABLES
  user_timeouts, \* user -> seconds since the last event that was handled
  users,         \* listed user -> the event whose User, address and all, it is
  snapshot,      \* what the sweep of Cyclic has still to look at
  cyclic,        \* where the thread of Cyclic is
  log,           \* the events in the order they were sent
  progress,      \* what the handler of each has done
  connected,     \* user -> is there a connection of that name in the map?
  closing,       \* the users whose session has ended; its handler is to come
  running,       \* has the process not ended?
  requests,      \* user -> where its DISCONNECT_USER events are
  idle,          \* history: user -> seconds since it last joined or spoke
  inverted,      \* history: users whose events were handled out of order
  misled,        \* history: the same for the list, until it is empty of them
  raced          \* history: users whose activity the sweep could not see

tableVars == <<user_timeouts, users>>
sweepVars == <<snapshot, cyclic>>
eventVars == <<log, progress>>
orderVars == <<inverted, misled>>
sessionVars == <<connected, closing, running>>
vars == <<tableVars, sweepVars, eventVars, sessionVars, requests, idle,
          orderVars, raced>>

EventIds == {"CONNECTION_OPENED", "NEW_MESSAGE", "CONNECTION_CLOSED"}
Events == [event : EventIds, user : Users]

\* A handler has not begun, has left the first of its two tables, has returned.
ProgressStates == {"sent", "user_timeouts", "done"}

\* Room for the requests about one user.
Slots == 1 .. MaxRequests

\* A DISCONNECT_USER event: there is none, it is in the queue, its walk is
\* under way, the map has changed under the walk, the walk has found a handle,
\* the connection of that handle has gone.
RequestStates == {"none", "sent", "scanning", "torn", "found", "expired"}

Ages == 0 .. Timeout

\* Definitions with _mutant in their name are plausible bugs in the definition
\* that follows them; no specification uses them.

\* std::map: operator[] =, insert (which changes nothing that is there), erase.
Assign(m, u, val) ==
  [x \in DOMAIN m \cup {u} |-> IF x = u THEN val ELSE m[x]]

Insert(m, u, i) == IF u \in DOMAIN m THEN m ELSE Assign(m, u, i)

Erase(m, u) == [x \in DOMAIN m \ {u} |-> m[x]]

\* A map without entries.
Nobody == [u \in {} |-> 0]

\* The map m, one second later.
Older(m) == [u \in DOMAIN m |-> IF m[u] < Timeout THEN m[u] + 1 ELSE m[u]]

Send(e, u) ==
  /\ log' = Append(log, [event |-> e, user |-> u])
  /\ progress' = Append(progress, "sent")

\* The handler of event i is for e, and is at the point s.
At(i, e, s) == log[i].event = e /\ progress[i] = s

Advance(i, s) == progress' = [progress EXCEPT ![i] = s] /\ UNCHANGED log

\* One more request about u, if the bound allows it.
Request(r, u) ==
  LET free == {k \in DOMAIN r[u] : r[u][k] = "none"}
  IN  IF free = {} THEN r
      ELSE [r EXCEPT ![u][CHOOSE k \in free : TRUE] = "sent"]

Requested(u) == \E k \in Slots : requests[u][k] # "none"

\* What becomes of the walks of the requests r when the map changes.
Shaken(r) ==
  [u \in Users |-> [k \in DOMAIN r[u] |->
     IF r[u][k] = "scanning" THEN "torn"
     ELSE IF r[u][k] = "found" /\ ~connected'[u] THEN "expired"
     ELSE r[u][k]]]

Handled(u) ==
  \A i \in DOMAIN log : log[i].user = u => progress[i] = "done"

\* u has joined or spoken, and the handler of that has not run yet.
ActivityPending(u) ==
  \E i \in DOMAIN log :
    /\ log[i].user = u
    /\ log[i].event # "CONNECTION_CLOSED"
    /\ progress[i] = "sent"

\* Of two events, one opens a connection or speaks, the other one closes.
Opposed(i, j) ==
  (log[i].event = "CONNECTION_CLOSED") # (log[j].event = "CONNECTION_CLOSED")

\* History: the handler of i comes to a table when that of a later event that
\* has the opposite effect on it has been there.
Outrun(i, table) ==
  \E j \in DOMAIN log :
    /\ j > i
    /\ log[j].user = log[i].user
    /\ Opposed(i, j)
    /\ IF table = "users"
       THEN progress[j] = "done" /\ log[j].event # "NEW_MESSAGE"
       ELSE progress[j] # "sent"

Invert(i, table) ==
  LET late == IF Outrun(i, table) THEN {log[i].user} ELSE {}
  IN  /\ inverted' = inverted \cup late
      /\ misled' = IF table = "users" THEN misled \cup late ELSE misled

-----------------------------------------------------------------------------
Init ==
  /\ running = TRUE
  /\ user_timeouts = Nobody
  /\ users = Nobody
  /\ snapshot = Nobody
  /\ cyclic = "ready"
  /\ log = <<>>
  /\ progress = <<>>
  /\ connected = [u \in Users |-> FALSE]
  /\ closing = {}
  /\ requests = [u \in Users |-> [k \in Slots |-> "none"]]
  /\ idle = [u \in Users |-> 0]
  /\ inverted = {}
  /\ misled = {}
  /\ raced = {}

-----------------------------------------------------------------------------
(* Handlers.                                                               *)

ConnectionOpened_mutant(i) ==  \* the time it ends at, not that it begins at
  /\ At(i, "CONNECTION_OPENED", "sent")
  /\ user_timeouts' = Assign(user_timeouts, log[i].user, 0 - Timeout)
  /\ Advance(i, "user_timeouts")
  /\ Invert(i, "user_timeouts")
  /\ UNCHANGED <<users, sweepVars, sessionVars, requests, idle, raced>>

ConnectionOpened_mutant_forgets(i) ==  \* only a message starts the clock
  /\ At(i, "CONNECTION_OPENED", "sent")
  /\ Advance(i, "user_timeouts")
  /\ Invert(i, "user_timeouts")
  /\ UNCHANGED <<tableVars, sweepVars, sessionVars, requests, idle, raced>>

ConnectionOpened(i) ==
  /\ At(i, "CONNECTION_OPENED", "sent")
  /\ user_timeouts' = Assign(user_timeouts, log[i].user, 0)
  /\ Advance(i, "user_timeouts")
  /\ Invert(i, "user_timeouts")
  /\ UNCHANGED <<users, sweepVars, sessionVars, requests, idle, raced>>

ConnectionOpenedUsers(i) ==
  /\ At(i, "CONNECTION_OPENED", "user_timeouts")
  /\ users' = Insert(users, log[i].user, i)
  /\ Advance(i, "done")
  /\ Invert(i, "users")
  /\ UNCHANGED <<user_timeouts, sweepVars, sessionVars, requests, idle, raced>>

ConnectionClosed_mutant(i) ==  \* the clock of a user who left runs on
  /\ At(i, "CONNECTION_CLOSED", "sent")
  /\ Advance(i, "user_timeouts")
  /\ Invert(i, "user_timeouts")
  /\ UNCHANGED <<tableVars, sweepVars, sessionVars, requests, idle, raced>>

ConnectionClosed(i) ==
  /\ At(i, "CONNECTION_CLOSED", "sent")
  /\ user_timeouts' = Erase(user_timeouts, log[i].user)
  /\ Advance(i, "user_timeouts")
  /\ Invert(i, "user_timeouts")
  /\ UNCHANGED <<users, sweepVars, sessionVars, requests, idle, raced>>

ConnectionClosedUsers_mutant(i) ==  \* the next insert is to replace the entry
  /\ At(i, "CONNECTION_CLOSED", "user_timeouts")
  /\ Advance(i, "done")
  /\ Invert(i, "users")
  /\ UNCHANGED <<tableVars, sweepVars, sessionVars, requests, idle, raced>>

ConnectionClosedUsers(i) ==
  /\ At(i, "CONNECTION_CLOSED", "user_timeouts")
  /\ users' = Erase(users, log[i].user)
  /\ Advance(i, "done")
  /\ Invert(i, "users")
  /\ UNCHANGED <<user_timeouts, sweepVars, sessionVars, requests, idle, raced>>

\* operator[] makes the entry anew when it is not there.
NewMessage(i) ==
  /\ At(i, "NEW_MESSAGE", "sent")
  /\ user_timeouts' = Assign(user_timeouts, log[i].user, 0)
  /\ Advance(i, "done")
  /\ Invert(i, "user_timeouts")
  /\ UNCHANGED <<users, sweepVars, sessionVars, requests, idle, raced>>

-----------------------------------------------------------------------------
(* The sweep, once a second.                                               *)

\* A copy of the table, taken under its mutex; the sweep looks at nothing else.
CyclicSnapshot ==
  /\ cyclic = "ready"
  /\ snapshot' = user_timeouts
  /\ cyclic' = "sweeping"
  /\ raced' = {u \in Users :
                 ActivityPending(u) \/ (u \in raced /\ Requested(u))}
  /\ UNCHANGED <<tableVars, eventVars, sessionVars, requests, idle, orderVars>>

CyclicCheck_mutant(u) ==  \* a second early
  /\ cyclic = "sweeping"
  /\ u \in DOMAIN snapshot
  /\ requests' =
       IF snapshot[u] + 1 >= Timeout THEN Request(requests, u) ELSE requests
  /\ snapshot' = Erase(snapshot, u)
  /\ UNCHANGED <<tableVars, cyclic, eventVars, sessionVars, idle, orderVars,
                 raced>>

\* One turn of the loop.
CyclicCheck(u) ==
  /\ cyclic = "sweeping"
  /\ u \in DOMAIN snapshot
  /\ requests' =
       IF snapshot[u] >= Timeout THEN Request(requests, u) ELSE requests
  /\ snapshot' = Erase(snapshot, u)
  /\ UNCHANGED <<tableVars, cyclic, eventVars, sessionVars, idle, orderVars,
                 raced>>

CyclicSleep ==
  /\ cyclic = "sweeping"
  /\ DOMAIN snapshot = {}
  /\ cyclic' = "sleeping"
  /\ UNCHANGED <<tableVars, snapshot, eventVars, sessionVars, requests, idle,
                 orderVars, raced>>

\* A second passes, and ends the sleep.
Tick ==
  /\ running
  /\ user_timeouts' = Older(user_timeouts)
  /\ snapshot' = Older(snapshot)
  /\ idle' = Older(idle)
  /\ cyclic' = IF cyclic = "sleeping" THEN "ready" ELSE cyclic
  /\ UNCHANGED <<users, eventVars, sessionVars, requests, orderVars, raced>>

-----------------------------------------------------------------------------
(* The websocket server.                                                   *)

Sent(e) == Len(SelectSeq(log, LAMBDA x : x.event = e))

\* Joining or speaking.  The sweep that is under way, and the requests that
\* are, do not know of it.
Acts(u) ==
  /\ running
  /\ idle' = [idle EXCEPT ![u] = 0]
  /\ raced' = IF u \in DOMAIN snapshot \/ Requested(u)
              THEN raced \cup {u} ELSE raced

\* A user who joins when all its events have been handled starts afresh, in the
\* list too if it is not in there.
OpenHandler(u) ==
  /\ Sent("CONNECTION_OPENED") < MaxJoins
  /\ ~connected[u]
  /\ Acts(u)
  /\ connected' = [connected EXCEPT ![u] = TRUE]
  /\ requests' = Shaken(requests)
  /\ Send("CONNECTION_OPENED", u)
  /\ inverted' = IF Handled(u) THEN inverted \ {u} ELSE inverted
  /\ misled' = IF Handled(u) /\ u \notin DOMAIN users
               THEN misled \ {u} ELSE misled
  /\ UNCHANGED <<tableVars, sweepVars, closing, running>>

MessageHandler(u) ==
  /\ Sent("NEW_MESSAGE") < MaxMessages
  /\ connected[u]
  /\ u \notin closing
  /\ Acts(u)
  /\ Send("NEW_MESSAGE", u)
  /\ UNCHANGED <<tableVars, sweepVars, sessionVars, requests, orderVars>>

\* External: the peer closes, the connection breaks, or it is kicked.
PeerClose(u) ==
  /\ running
  /\ connected[u]
  /\ u \notin closing
  /\ closing' = closing \cup {u}
  /\ UNCHANGED <<tableVars, sweepVars, eventVars, connected, running, requests,
                 idle, orderVars, raced>>

CloseHandler(u) ==
  /\ running
  /\ u \in closing
  /\ closing' = closing \ {u}
  /\ connected' = [connected EXCEPT ![u] = FALSE]
  /\ requests' = Shaken(requests)
  /\ Send("CONNECTION_CLOSED", u)
  /\ UNCHANGED <<tableVars, sweepVars, running, idle, orderVars, raced>>

\* What the thread of a request about u does next, from state s to state t.
\* The walk begins; it meets the entry of u, or none.  A torn walk may do
\* either.
Walk(u, s, t) ==
  \/ s = "sent" /\ t = "scanning"
  \/ s \in {"scanning", "torn"} /\ connected[u] /\ t = "found"
  \/ s = "scanning" /\ ~connected[u] /\ t = "none"
  \/ s = "torn" /\ t = "none"

\* The connection that was found is closed.
CloseConnection(u, s, t) ==
  /\ s = "found" /\ t = "none"
  /\ u \notin closing
  /\ closing' = closing \cup {u}

\* It is closing or has gone, and close throws; or a torn walk met an entry
\* that has been freed, or followed it.
CloseConnectionThrows(u, s) ==
  \/ s \in {"torn", "expired"}
  \/ s = "found" /\ u \in closing

\* The k-th of the requests r about u is handled.
Disconnect(r, u, k) ==
  \E t \in RequestStates :
    /\ \/ Walk(u, r[u][k], t) /\ UNCHANGED closing
       \/ CloseConnection(u, r[u][k], t)
    /\ r' = [r EXCEPT ![u][k] = t]

\* Nobody catches what close throws: the process ends, its connections break,
\* and nothing of its state is kept.
Ends ==
  /\ running' = FALSE
  /\ user_timeouts' = Nobody
  /\ users' = Nobody
  /\ snapshot' = Nobody
  /\ cyclic' = "ready"
  /\ log' = <<>>
  /\ progress' = <<>>
  /\ connected' = [u \in Users |-> FALSE]
  /\ closing' = {}
  /\ requests' = [u \in Users |-> [k \in Slots |-> "none"]]
  /\ idle' = [u \in Users |-> 0]
  /\ inverted' = {}
  /\ misled' = {}
  /\ raced' = {}

\* A DISCONNECT_USER event of the sweep.
DisconnectUser(u, k) ==
  /\ running
  /\ Disconnect(requests, u, k)
  /\ UNCHANGED <<tableVars, sweepVars, eventVars, connected, running, idle,
                 orderVars, raced>>

DisconnectUserThrows(u, k) ==
  /\ running
  /\ CloseConnectionThrows(u, requests[u][k])
  /\ Ends

\* Somebody else, of whom nothing is asked here, joins or leaves: the map that
\* is walked changes.
StrangerComesOrGoes ==
  /\ running
  /\ UNCHANGED <<tableVars, sweepVars, eventVars, sessionVars, idle, orderVars,
                 raced>>
  /\ requests' = Shaken(requests)

\* A request that is not of the sweep throws.
EndsOtherwise == running /\ Ends

-----------------------------------------------------------------------------
Handler(i) ==
  /\ running
  /\ \/ ConnectionOpened(i) \/ ConnectionOpenedUsers(i)
     \/ ConnectionClosed(i) \/ ConnectionClosedUsers(i)
     \/ NewMessage(i)

Cyclic ==
  /\ running
  /\ CyclicSnapshot \/ (\E u \in Users : CyclicCheck(u)) \/ CyclicSleep

HandleRequest(u, k) == DisconnectUser(u, k) \/ DisconnectUserThrows(u, k)

Step ==
  \/ \E i \in DOMAIN log : Handler(i)
  \/ Cyclic
  \/ Tick
  \/ \E u \in Users :
       \/ OpenHandler(u) \/ MessageHandler(u)
       \/ PeerClose(u) \/ CloseHandler(u)
       \/ \E k \in Slots : HandleRequest(u, k)

Next == Step \/ StrangerComesOrGoes \/ EndsOtherwise

Spec == Init /\ [][Next]_vars

\* What ends a session or a request.
Ending ==
  \E u \in Users :
    CloseHandler(u) \/ \E k \in Slots : HandleRequest(u, k)

\* The rest of a walk that nothing has torn.
Scans(u, k) == requests[u][k] = "scanning" /\ DisconnectUser(u, k)

\* Threads run, time passes, websocketpp ends a closing session by itself; no
\* user is obliged to anything.  It is enough that some handler of the bus runs
\* when one can, some step of a request or of a close, and the sweep or the
\* clock; and that strangers do not come or go in the middle of every walk.
Fairness ==
  /\ WF_vars(\E i \in DOMAIN log : Handler(i))
  /\ WF_vars(Ending)
  /\ WF_vars(Cyclic \/ Tick)
  /\ \A u \in Users, k \in Slots : SF_vars(Scans(u, k))

FairSpec == Spec /\ Fairness

-----------------------------------------------------------------------------
(* Properties.                                                             *)

\* The shape of the state.
TypeOK ==
  /\ \E D \in SUBSET Users : user_timeouts \in [D -> Ages]
  /\ \E D \in SUBSET Users : users \in [D -> DOMAIN log]
  /\ \E D \in SUBSET Users : snapshot \in [D -> Ages]
  /\ cyclic \in {"ready", "sweeping", "sleeping"}
  /\ log \in Seq(Events)
  /\ progress \in Seq(ProgressStates)
  /\ Len(progress) = Len(log)
  /\ connected \in [Users -> BOOLEAN]
  /\ closing \in SUBSET Users
  /\ running \in BOOLEAN
  /\ requests \in [Users -> [Slots -> RequestStates]]
  /\ idle \in [Users -> Ages]
  /\ inverted \in SUBSET Users
  /\ misled \in SUBSET Users
  /\ raced \in SUBSET Users

(***************************************************************************)
(* The list of users and the table of their clocks, two tables under two   *)
(* mutexes, are right once all events of a user have been handled: it is   *)
(* in both when it is connected, and in none otherwise.  This holds for    *)
(* each user none of whose handlers was outrun by that of a later event in *)
(* one of the tables, since it last joined with all its events handled: a  *)
(* ghost that a late handler leaves behind does not survive that.          *)
(***************************************************************************)
TablesFollowConnections ==
  \A u \in Users \ inverted :
    Handled(u) =>
      /\ u \in DOMAIN users <=> connected[u]
      /\ u \in DOMAIN user_timeouts <=> connected[u]

(***************************************************************************)
(* Once all events of a user have been handled, the list has the address   *)
(* and the time of joining of its last connection, not those of one that   *)
(* is gone.  This holds for each user none of whose handlers was outrun in *)
(* the list since it last joined with all its events handled and was not   *)
(* listed: set::insert never replaces the entry of a ghost, and so joining *)
(* again heals who is listed, but not what is said of them.                *)
(***************************************************************************)
ListedIsCurrent ==
  \A u \in DOMAIN users \ misled :
    Handled(u) =>
      \A i \in DOMAIN log :
        log[i] = [event |-> "CONNECTION_OPENED", user |-> u] => i <= users[u]

(***************************************************************************)
(* Nobody is disconnected for silence who has joined or spoken within the  *)
(* timeout, unless the sweep could not see that: it took its copy before   *)
(* the handler ran, or the user acted after the copy was taken and before  *)
(* the request was handled, perhaps under a new connection.                *)
(***************************************************************************)
OnlyIdleCondemned ==
  \A u \in Users \ raced : Requested(u) /\ connected[u] => idle[u] = Timeout

(***************************************************************************)
(* Who has stopped to speak, as everybody has when MaxMessages is reached, *)
(* is disconnected, if its handlers were not outrun and the process does   *)
(* not end.  Both exceptions are real: when CONNECTION_CLOSED of a         *)
(* connection is handled after CONNECTION_OPENED of the next, the user has *)
(* no clock, and stays; and the sweep, which repeats its request until the *)
(* clock is erased, may come to a connection that is closing already.  A   *)
(* walk that missed the user is no exception: the sweep repeats it.        *)
(***************************************************************************)
IdleLeaves ==
  \A u \in Users :
    connected[u] ~> (~connected[u] \/ u \in inverted \/ ~running)
=============================================================================
