----------------------------- MODULE ChatServer -----------------------------
(***************************************************************************)
(* The client manager as the administrator meets it: the REST server       *)
(* (rest_server.cpp) answers get_users with a synchronous event and        *)
(* kick_user with an asynchronous one, and the console (console_app.cpp)   *)
(* lists the users, asks for a name and has it kicked, in turn.            *)
(*                                                                         *)
(* A kick names a user, and is handled when the bus comes to it, by the    *)
(* same walk over the connections as a request of the sweep: who is closed *)
(* is whoever has the name by then, and a walk that misses it is not       *)
(* repeated.  A POST fails when the server cannot be reached, or its       *)
(* answer is lost; an answer to kick_user that is lost makes no            *)
(* difference, as KickUser drops the return code.                          *)
(***************************************************************************)
EXTENDS ClientMgr

CONSTANT
  MaxKicks  \* bound: kick_user requests about one user that are not handled

ASSUME ChatServerAssumption == MaxKicks \in Nat \ {0}

VARIABLES
  console,  \* where ConsoleApp::Run is
  kick,     \* the name that was typed
  rest,     \* where Handler_GetUsers is
  p_users,  \* what it has got from the bus
  kicks,    \* user -> where the DISCONNECT_USER events of kick_user are
  steady    \* history: users without change since get_users came in, until
            \* it is answered

consoleVars == <<console, kick>>
restVars == <<rest, p_users>>
allVars == <<vars, consoleVars, restVars, kicks, steady>>

\* The handlers of u that change the list have all returned.
ListSettled(u) ==
  \A i \in DOMAIN log :
    log[i].user = u /\ log[i].event # "NEW_MESSAGE" => progress[i] = "done"

\* A user who joins or leaves while get_users is answered may be in the answer
\* or not.
Settle == steady' = {u \in steady : connected'[u] = connected[u]}

\* Walks for kicks are torn by whoever joins or leaves, as all walks are.
Shake == kicks' = IF connected' = connected THEN kicks ELSE Shaken(kicks)

KickSlots == 1 .. MaxKicks

NoKicks == [u \in Users |-> [k \in KickSlots |-> "none"]]

-----------------------------------------------------------------------------
ChatInit ==
  /\ Init
  /\ console = "run"
  /\ kick \in Users
  /\ rest = "idle"
  /\ p_users = Nobody
  /\ kicks = NoKicks
  /\ steady = {}

-----------------------------------------------------------------------------
(* The console.                                                            *)

\* POST /get_users.
PrintUsers ==
  /\ console \in {"run", "kick_failed"}
  /\ console' = "get_users"
  /\ rest' = "requested"
  /\ UNCHANGED <<vars, kick, p_users, kicks, steady>>

\* The answer is here.
PrintUsersReturn ==
  /\ console = "get_users"
  /\ rest = "answered"
  /\ console' = IF DOMAIN p_users = {} THEN "enter" ELSE "prompt"
  /\ rest' = "idle"
  /\ p_users' = Nobody
  /\ steady' = {}
  /\ UNCHANGED <<vars, kick, kicks>>

\* RET_NOT_OK.  What the handler still does for this request has no effect.
PrintUsersFails ==
  /\ console = "get_users"
  /\ console' = "enter"
  /\ rest' = "idle"
  /\ p_users' = Nobody
  /\ steady' = {}
  /\ UNCHANGED <<vars, kick, kicks>>

Enter ==
  /\ console = "enter"
  /\ console' = "run"
  /\ UNCHANGED <<vars, kick, restVars, kicks, steady>>

\* A name, listed or not; or nothing but blanks.
KickUser ==
  /\ console = "prompt"
  /\ \/ \E u \in Users :
          /\ \E k \in KickSlots : kicks[u][k] = "none"
          /\ kick' = u
          /\ console' = "kick_user"
     \/ kick' = kick /\ console' = "run"
  /\ UNCHANGED <<vars, restVars, kicks, steady>>

KickUserFails ==
  /\ console = "kick_user"
  /\ console' = "kick_failed"
  /\ UNCHANGED <<vars, kick, restVars, kicks, steady>>

-----------------------------------------------------------------------------
(* The REST server, and the events it sends.                               *)

\* SendSync: the callback runs on a thread of its own.
Handler_GetUsers ==
  /\ rest = "requested"
  /\ rest' = "GET_USERS"
  /\ steady' = {u \in Users \ misled : ListSettled(u)}
  /\ UNCHANGED <<vars, consoleVars, p_users, kicks>>

GetUsers ==
  /\ rest = "GET_USERS"
  /\ p_users' = users
  /\ rest' = "handled"
  /\ UNCHANGED <<vars, consoleVars, kicks, steady>>

Handler_GetUsersReturn_mutant ==  \* SendAsync: does not wait
  /\ rest \in {"GET_USERS", "handled"}
  /\ rest' = "answered"
  /\ UNCHANGED <<vars, consoleVars, p_users, kicks, steady>>

Handler_GetUsersReturn ==
  /\ rest = "handled"
  /\ rest' = "answered"
  /\ UNCHANGED <<vars, consoleVars, p_users, kicks, steady>>

Handler_KickUser_mutant ==  \* says OK, with an empty username
  /\ console = "kick_user"
  /\ console' = "run"
  /\ UNCHANGED <<vars, kick, restVars, kicks, steady>>

Handler_KickUser ==
  /\ console = "kick_user"
  /\ console' = "run"
  /\ kicks' = Request(kicks, kick)
  /\ UNCHANGED <<vars, kick, restVars, steady>>

\* A DISCONNECT_USER event of a kick.
Kicked(u, k) ==
  /\ running
  /\ Disconnect(kicks, u, k)
  /\ UNCHANGED <<tableVars, sweepVars, eventVars, connected, running, requests,
                 idle, orderVars, raced, consoleVars, restVars, steady>>

\* The process ends: nobody answers any more, and who asked is told so.
ChatEnds ==
  /\ rest' = "idle"
  /\ p_users' = Nobody
  /\ kicks' = NoKicks
  /\ steady' = {}
  /\ UNCHANGED consoleVars

KickedThrows(u, k) ==
  /\ running
  /\ CloseConnectionThrows(u, kicks[u][k])
  /\ Ends
  /\ ChatEnds

\* A stranger tears the walks of the sweep and those of kicks.
Strangers ==
  /\ StrangerComesOrGoes
  /\ kicks' = Shaken(kicks)
  /\ UNCHANGED <<consoleVars, restVars, steady>>

-----------------------------------------------------------------------------
\* The console is a process of its own, and outlives the server.
Console == PrintUsers \/ PrintUsersReturn \/ PrintUsersFails \/ Enter
           \/ KickUser \/ KickUserFails

Rest ==
  /\ running
  /\ \/ Handler_GetUsers \/ GetUsers \/ Handler_GetUsersReturn
     \/ Handler_KickUser

HandleKick(u, k) == Kicked(u, k) \/ KickedThrows(u, k)

ChatNext ==
  \/ /\ Step
     /\ IF running'
        THEN Settle /\ Shake /\ UNCHANGED <<consoleVars, restVars>>
        ELSE ChatEnds
  \/ Console
  \/ Rest
  \/ \E u \in Users, k \in KickSlots : HandleKick(u, k)
  \/ Strangers

ChatSpec == ChatInit /\ [][ChatNext]_allVars

\* The threads of the server run; the administrator is obliged to nothing.
ChatFairSpec ==
  /\ ChatSpec
  /\ WF_allVars(Rest)
  /\ \A u \in Users : WF_vars(CloseHandler(u))
  /\ \A u \in Users, k \in KickSlots : WF_allVars(HandleKick(u, k))

-----------------------------------------------------------------------------
(* Properties.                                                             *)

(***************************************************************************)
(* The answer to get_users is a list that was true while it was made:      *)
(* whoever neither joined nor left since the request came in, and had been *)
(* taken note of by then, is in it when connected, with the address and    *)
(* time of joining of that connection, and is not in it otherwise.  Others *)
(* may be in it or not; and who was misled may be in it as a ghost.        *)
(***************************************************************************)
AnswerIsRegular ==
  rest = "answered" =>
    \A u \in steady :
      /\ u \in DOMAIN p_users <=> connected[u]
      /\ u \in DOMAIN p_users =>
           \A i \in DOMAIN log :
             log[i] = [event |-> "CONNECTION_OPENED", user |-> u]
               => i <= p_users[u]

(***************************************************************************)
(* The name that is kicked is without a connection at some time after it   *)
(* was typed, with these exceptions, of which the console shows no sign:   *)
(* the server was not reached, it ended, or somebody joined or left while  *)
(* DisconnectUser walked over the connections, which may then miss the     *)
(* user, and is not repeated.                                              *)
(***************************************************************************)
KickedLeave ==
  \A u \in Users :
    (console = "kick_user" /\ kick = u)
      ~> (\/ ~connected[u]
          \/ console = "kick_failed"
          \/ ~running
          \/ \E k \in KickSlots : kicks[u][k] = "torn")
=============================================================================
