----------------------------- MODULE ChatClient -----------------------------
(***************************************************************************)
(* The chat client (ChatUI.py, WebsocketWrapper.py): a window that asks    *)
(* for a name while there is no connection, and a box to type messages in. *)
(*                                                                         *)
(* Each Join starts a thread that runs run_forever of the one WebSocketApp *)
(* with the one header.  The window stays until the connection is open, so *)
(* a second Join may follow the first, with another name.                  *)
(*                                                                         *)
(* websocket-client is external: run_forever raises when the app has a     *)
(* socket, and otherwise makes one (taken as one step here), reads the     *)
(* header when it connects, and calls on_open, or on_error when that       *)
(* fails; it gives the socket up and calls on_close in the end, of a       *)
(* failure too.  So is Dear PyGui: an alias can be created once, and the   *)
(* modal window takes no input for the chat box.  It calls the buttons one *)
(* after the other on one thread; websocket-client calls back on its own.  *)
(* So the writes of a Join, and those of an on_open, are steps of their    *)
(* own, between which the threads of earlier Joins read and write.         *)
(***************************************************************************)
EXTENDS Naturals

CONSTANTS
  Names,     \* what may be typed as a user name
  Joins      \* the presses of Join; each starts a thread

ASSUME ChatClientAssumption == {"none", ""} \cap (Names \cup Joins) = {}

VARIABLES
  username,     \* ChatUI.username, what _WsOnOpen displays
  header,       \* WebSocketApp.header
  sock,         \* the thread that has the socket, or "none"
  thread,       \* join -> where its thread is
  connected_as, \* join -> the name it has told the server
  displayed,    \* UsernameText
  window,       \* is USER_WINDOW there?
  peer,         \* does the server hold the connection?
  chat_box,     \* what becomes of the last text that was typed
  crossed,      \* history: a Join was at username when the header was read,
                \* or came after that and before the name was displayed
  late          \* history: an _on_close came when the next was connected

connVars == <<username, header, sock, thread, connected_as, peer>>
uiVars == <<displayed, window>>
historyVars == <<crossed, late>>
vars == <<connVars, uiVars, chat_box, historyVars>>

NoName == "none"

Init ==
  /\ username = NoName
  /\ header = NoName
  /\ sock = "none"
  /\ thread = [j \in Joins |-> "unused"]
  /\ connected_as = [j \in Joins |-> NoName]
  /\ displayed = NoName
  /\ window = TRUE
  /\ peer = FALSE
  /\ chat_box = "empty"
  /\ crossed = FALSE
  /\ late = FALSE

-----------------------------------------------------------------------------
(* The log-in window.                                                      *)

To(j, s) == thread' = [thread EXCEPT ![j] = s]

\* Dear PyGui's thread is in the callback of this Join.
Joining == \E i \in Joins : thread[i] \in {"username", "header"}

\* Enter in the input, or Join.
SetUsernameOpenWsConnection(j, name) ==
  /\ window
  /\ ~Joining
  /\ thread[j] = "unused"
  /\ username' = name
  /\ To(j, "username")
  /\ crossed' = (crossed \/ \E i \in Joins : thread[i] = "opening")
  /\ UNCHANGED <<header, sock, connected_as, peer, uiVars, chat_box, late>>

SetUsernameHeader(j) ==
  /\ thread[j] = "username"
  /\ header' = username
  /\ To(j, "header")
  /\ UNCHANGED <<username, sock, connected_as, peer, uiVars, chat_box,
                 historyVars>>

\* The thread is started.
StartRun(j) ==
  /\ thread[j] = "header"
  /\ To(j, "run")
  /\ UNCHANGED <<username, header, sock, connected_as, peer, uiVars, chat_box,
                 historyVars>>

\* The window is created unless there is one.
ShowInitWindow == window' = TRUE

-----------------------------------------------------------------------------
(* The thread of join j.                                                   *)

\* run_forever: somebody has the socket.
RunRaises(j) ==
  /\ thread[j] = "run"
  /\ sock # "none"
  /\ To(j, "ended")
  /\ UNCHANGED <<username, header, sock, connected_as, peer, uiVars, chat_box,
                 historyVars>>

Run_mutant(j) ==  \* an app, and a socket, for each Join
  /\ thread[j] = "run"
  /\ sock' = j
  /\ To(j, "connecting")
  /\ UNCHANGED <<username, header, connected_as, peer, uiVars, chat_box,
                 historyVars>>

Run(j) ==
  /\ thread[j] = "run"
  /\ sock = "none"
  /\ sock' = j
  /\ To(j, "connecting")
  /\ UNCHANGED <<username, header, connected_as, peer, uiVars, chat_box,
                 historyVars>>

Connect(j) ==
  /\ thread[j] = "connecting"
  /\ connected_as' = [connected_as EXCEPT ![j] = header]
  /\ To(j, "opening")
  /\ peer' = TRUE
  /\ crossed' = (\E i \in Joins : thread[i] = "username")
  /\ UNCHANGED <<username, header, sock, uiVars, chat_box, late>>

\* The server is not there, or does not want this name.
ConnectFails(j) ==
  /\ thread[j] = "connecting"
  /\ To(j, "failed")
  /\ UNCHANGED <<username, header, sock, connected_as, peer, uiVars, chat_box,
                 historyVars>>

WsOnOpen_mutant(j) ==  \* the name is shown when it is typed, not here
  /\ thread[j] = "opening"
  /\ To(j, "shown")
  /\ UNCHANGED <<username, header, sock, connected_as, peer, uiVars, chat_box,
                 historyVars>>

WsOnOpen(j) ==
  /\ thread[j] = "opening"
  /\ displayed' = username
  /\ To(j, "shown")
  /\ UNCHANGED <<username, header, sock, connected_as, peer, window, chat_box,
                 historyVars>>

WsOnOpenDelete_mutant(j) ==  \* the window is deleted in on_close
  /\ thread[j] = "shown"
  /\ late' = FALSE
  /\ To(j, "open")
  /\ UNCHANGED <<username, header, sock, connected_as, peer, uiVars, chat_box,
                 crossed>>

\* The window is deleted.
WsOnOpenDelete(j) ==
  /\ thread[j] = "shown"
  /\ window' = FALSE
  /\ late' = FALSE
  /\ To(j, "open")
  /\ UNCHANGED <<username, header, sock, connected_as, peer, displayed,
                 chat_box, crossed>>

\* The server closes, or is gone.
PeerClose ==
  /\ peer
  /\ peer' = FALSE
  /\ UNCHANGED <<username, header, sock, thread, connected_as, uiVars,
                 chat_box, historyVars>>

\* The thread sees it.
ReadFails(j) ==
  /\ thread[j] = "open"
  /\ ~peer
  /\ To(j, "failed")
  /\ UNCHANGED <<username, header, sock, connected_as, peer, uiVars, chat_box,
                 historyVars>>

\* on_error, if it is one.
WsOnError(j) ==
  /\ thread[j] = "failed"
  /\ \/ ShowInitWindow
     \/ UNCHANGED window
  /\ To(j, "closing")
  /\ UNCHANGED <<username, header, sock, connected_as, peer, displayed,
                 chat_box, historyVars>>

\* The socket is given up, and then on_close is called.
GiveUp(j) ==
  /\ thread[j] = "closing"
  /\ sock' = "none"
  /\ To(j, "closed")
  /\ UNCHANGED <<username, header, connected_as, peer, uiVars, chat_box,
                 historyVars>>

WsOnClose_mutant(j) ==  \* only errors bring the window back
  /\ thread[j] = "closed"
  /\ To(j, "ended")
  /\ UNCHANGED <<username, header, sock, connected_as, peer, uiVars, chat_box,
                 historyVars>>

WsOnClose(j) ==
  /\ thread[j] = "closed"
  /\ ShowInitWindow
  /\ To(j, "ended")
  /\ late' = (late \/ \E i \in Joins : thread[i] = "open")
  /\ UNCHANGED <<username, header, sock, connected_as, peer, displayed,
                 chat_box, crossed>>

-----------------------------------------------------------------------------
(* The chat box.                                                           *)

\* The box is cleared first.
ChatBoxCallback ==
  /\ ~window
  /\ chat_box # "cleared"
  /\ chat_box' = "cleared"
  /\ UNCHANGED <<connVars, uiVars, historyVars>>

\* WebSocketApp.send raises without a socket, or on one that is closed.
Send ==
  /\ chat_box = "cleared"
  /\ chat_box' = IF sock # "none" /\ peer THEN "sent" ELSE "lost"
  /\ UNCHANGED <<connVars, uiVars, historyVars>>

-----------------------------------------------------------------------------
Thread(j) ==
  \/ RunRaises(j) \/ Run(j) \/ Connect(j) \/ ConnectFails(j) \/ WsOnOpen(j)
  \/ WsOnOpenDelete(j) \/ ReadFails(j) \/ WsOnError(j) \/ GiveUp(j)
  \/ WsOnClose(j)

Next ==
  \/ \E j \in Joins, name \in Names : SetUsernameOpenWsConnection(j, name)
  \/ \E j \in Joins : SetUsernameHeader(j) \/ StartRun(j) \/ Thread(j)
  \/ PeerClose
  \/ ChatBoxCallback
  \/ Send

Spec == Init /\ [][Next]_vars

\* Threads run.
FairSpec == Spec /\ \A j \in Joins : WF_vars(Thread(j))

-----------------------------------------------------------------------------
(* Properties.                                                             *)

\* The shape of the state.
TypeOK ==
  /\ {username, header, displayed} \subseteq Names \cup {NoName}
  /\ sock \in Joins \cup {"none"}
  /\ thread \in [Joins -> {"unused", "username", "header", "run", "connecting",
                           "opening", "shown", "open", "failed", "closing",
                           "closed", "ended"}]
  /\ connected_as \in [Joins -> Names \cup {NoName}]
  /\ \A j \in Joins : thread[j] \in {"opening", "shown", "open"} =>
                        sock = j /\ connected_as[j] # NoName
  /\ {window, peer, crossed, late} \subseteq BOOLEAN
  /\ chat_box \in {"empty", "cleared", "sent", "lost"}

(***************************************************************************)
(* The name on the screen is the one the server knows the user by, unless  *)
(* a Join had written the name and not yet the header when the header was  *)
(* read, or came after that and before the name was put on the screen: it  *)
(* stays in reach for so long.                                             *)
(***************************************************************************)
NameShown ==
  \A j \in Joins :
    thread[j] \in {"shown", "open"} /\ ~crossed => displayed = connected_as[j]

(***************************************************************************)
(* When no thread is on its way anywhere, the log-in window is there if    *)
(* there is no connection, and is not if there is one, unless the on_close *)
(* of the last connection came after the on_open of this one: the modal    *)
(* window is then in front of a chat that is connected.                    *)
(***************************************************************************)
WindowFollowsConnection ==
  (\A j \in Joins : thread[j] \in {"unused", "open", "ended"}) =>
    \/ window <=> ~\E j \in Joins : thread[j] = "open"
    \/ late /\ window

(***************************************************************************)
(* Who has lost the connection, or could not get one, is asked for a name  *)
(* again.                                                                  *)
(***************************************************************************)
AskedAgain ==
  \A j \in Joins :
    (thread[j] \in {"connecting", "open"} /\ ~peer) ~> (window \/ peer)
=============================================================================
