------------------------------ MODULE Startup ------------------------------
(***************************************************************************)
(* main.cpp: the components are constructed one after the other on one     *)
(* thread, each adding and subscribing a receiver on the bus, and are then *)
(* started, each with threads that send events from then on.  The          *)
(* dispatcher of the bus runs before all of them.                          *)
(*                                                                         *)
(* The registry and the map of the bus are those of EventBus, one call at  *)
(* a time: nobody else registers.                                          *)
(***************************************************************************)
EXTENDS Naturals, Sequences

Components ==
  {"client_mgr", "logger", "db_manager", "ws_server", "rest_server"}

EventIds == {"CONNECTION_OPENED", "CONNECTION_CLOSED", "CONNECTION_FAILED",
             "NEW_MESSAGE", "GET_USERS", "DISCONNECT_USER"}

VARIABLES
  main,             \* the call of main that is next
  event_receivers,  \* the bus: receiver id -> component
  event_map,        \* the bus: event -> ids of the receivers subscribed to it
  receiver_id,      \* component -> the id it was constructed with
  running,          \* the components that were started
  joined,           \* has the websocket server told of a connection?
  sent_to           \* history: event -> the ids it was sent to, each time

busVars == <<event_receivers, event_map>>
vars == <<main, busVars, receiver_id, running, joined, sent_to>>

\* What each constructor subscribes to, in its order.  The REST server only
\* sends, and has no receiver.
Subscriptions(c) ==
  CASE c = "client_mgr" -> <<"CONNECTION_OPENED", "CONNECTION_CLOSED",
                             "NEW_MESSAGE", "GET_USERS">>
    [] c \in {"logger", "db_manager"} -> <<"NEW_MESSAGE">>
    [] c = "ws_server" -> <<"DISCONNECT_USER">>
    [] c = "rest_server" -> <<>>

\* What the threads of each send.  The sweep of the client manager has somebody
\* to disconnect only after a connection.
Sends(c) ==
  CASE c = "client_mgr" -> IF joined THEN {"DISCONNECT_USER"} ELSE {}
    [] c = "ws_server" -> {"CONNECTION_OPENED", "CONNECTION_CLOSED",
                           "CONNECTION_FAILED", "NEW_MESSAGE"}
    [] c = "rest_server" -> {"GET_USERS", "DISCONNECT_USER"}
    [] c \in {"logger", "db_manager"} -> {}

\* The calls of main, those of the constructors on the bus included.
Call(f, c, id, e) == [call |-> f, of |-> c, id |-> id, event |-> e]
Run(c) == <<Call("run", c, 0, "none")>>
Construct(c, id) ==
  <<Call("AddReceiver", c, id, "none")>>
    \o [i \in DOMAIN Subscriptions(c) |->
          Call("Subscribe", c, id, Subscriptions(c)[i])]

Main_mutant ==  \* the websocket server listens as soon as there is one
  Construct("client_mgr", 0) \o Construct("ws_server", 3) \o Run("ws_server")
    \o Construct("logger", 1) \o Construct("db_manager", 2)
    \o Run("client_mgr") \o Run("logger") \o Run("rest_server")

Main_mutant_id ==  \* receiver_id++
  Construct("client_mgr", 0) \o Construct("logger", 0)
    \o Construct("db_manager", 1) \o Construct("ws_server", 2)
    \o Run("client_mgr") \o Run("logger") \o Run("ws_server")
    \o Run("rest_server")

Main ==
  Construct("client_mgr", 0) \o Construct("logger", 1)
    \o Construct("db_manager", 2) \o Construct("ws_server", 3)
    \o Run("client_mgr") \o Run("logger") \o Run("ws_server")
    \o Run("rest_server")

-----------------------------------------------------------------------------
Init ==
  /\ main = 1
  /\ event_receivers = [id \in {} |-> "none"]
  /\ event_map = [e \in EventIds |-> {}]
  /\ receiver_id = [c \in {} |-> 0]
  /\ running = {}
  /\ joined = FALSE
  /\ sent_to = [e \in EventIds |-> {}]

-----------------------------------------------------------------------------
Calls(f, c) ==
  /\ main \in DOMAIN Main
  /\ Main[main].call = f
  /\ Main[main].of = c
  /\ main' = main + 1

\* The registry m with c under id.  An id that is taken is refused, and nobody
\* looks at the return code.
Register(m, id, c) ==
  IF id \in DOMAIN m
  THEN m
  ELSE [i \in DOMAIN m \cup {id} |-> IF i = id THEN c ELSE m[i]]

AddReceiver(c) ==
  /\ Calls("AddReceiver", c)
  /\ event_receivers' = Register(event_receivers, Main[main].id, c)
  /\ receiver_id' = [x \in DOMAIN receiver_id \cup {c} |->
                       IF x = c THEN Main[main].id ELSE receiver_id[x]]
  /\ UNCHANGED <<event_map, running, joined, sent_to>>

Subscribe(c) ==
  /\ Calls("Subscribe", c)
  /\ event_map' = [event_map EXCEPT ![Main[main].event] =
                                      @ \cup {Main[main].id}]
  /\ UNCHANGED <<event_receivers, receiver_id, running, joined, sent_to>>

Start(c) ==
  /\ Calls("run", c)
  /\ running' = running \cup {c}
  /\ UNCHANGED <<busVars, receiver_id, joined, sent_to>>

\* A thread of c sends e, and the bus hands it to who is subscribed by now.
Send(c, e) ==
  /\ c \in running
  /\ e \in Sends(c)
  /\ sent_to' = [sent_to EXCEPT ![e] = @ \cup {event_map[e]}]
  /\ joined' = (joined \/ e = "CONNECTION_OPENED")
  /\ UNCHANGED <<main, busVars, receiver_id, running>>

Next ==
  \/ \E c \in Components :
       AddReceiver(c) \/ Subscribe(c) \/ Start(c)
  \/ \E c \in Components, e \in EventIds : Send(c, e)

Spec == Init /\ [][Next]_vars

-----------------------------------------------------------------------------
(* Properties.                                                             *)

(***************************************************************************)
(* No event comes too early: whoever will ever be subscribed to an event   *)
(* was when it was first sent.                                             *)
(***************************************************************************)
NobodyMissesEvents ==
  \A e \in EventIds : \A ids \in sent_to[e] : ids = event_map[e]

(***************************************************************************)
(* Each component that has a receiver is the one that its id stands for in *)
(* the registry, so that it, and nobody else, is called for what it has    *)
(* subscribed to: AddReceiver is never refused.                            *)
(***************************************************************************)
ReceiversAreTheirOwners ==
  /\ \A c \in DOMAIN receiver_id : event_receivers[receiver_id[c]] = c
  /\ \A e \in EventIds : \A id \in event_map[e] :
       /\ id \in DOMAIN event_receivers
       /\ \E i \in DOMAIN Subscriptions(event_receivers[id]) :
            Subscriptions(event_receivers[id])[i] = e
=============================================================================
