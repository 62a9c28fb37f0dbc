-------------------------- MODULE ChatClientProofs --------------------------
(***************************************************************************)
(* Proofs about ChatClient, for any number of names and of presses of      *)
(* Join.                                                                   *)
(***************************************************************************)
EXTENDS ChatClient, TLAPS

ThreadStates == {"unused", "username", "header", "run", "connecting",
                 "opening", "shown", "open", "failed", "closing", "closed",
                 "ended"}

\* The thread has the socket.
Holding == {"connecting", "opening", "shown", "open", "failed", "closing"}

\* The connection is made, and may be on the screen.
Opened == {"opening", "shown", "open"}

\* TypeOK without its flags; all threads that should have the socket have it;
\* one Join at most is in the callback, and there is a name in the header once
\* it wrote it.  Name and header differ between its two writes only.
ConnInv ==
  /\ (\A j \in Joins : thread[j] # "username") => username = header
  /\ {username, header, displayed} \subseteq Names \cup {NoName}
  /\ sock \in Joins \cup {"none"}
  /\ thread \in [Joins -> ThreadStates]
  /\ connected_as \in [Joins -> Names \cup {NoName}]
  /\ \A j \in Joins :
       /\ thread[j] \in Holding => sock = j
       /\ thread[j] # "unused" => username \in Names
       /\ thread[j] \notin {"unused", "username"} => header \in Names
       /\ thread[j] \in Opened => connected_as[j] \in Names
  /\ \A i, j \in Joins :
       {thread[i], thread[j]} \subseteq {"username", "header"} => i = j

FlagsInv ==
  /\ window \in BOOLEAN
  /\ peer \in BOOLEAN
  /\ crossed \in BOOLEAN
  /\ late \in BOOLEAN
  /\ chat_box \in {"empty", "cleared", "sent", "lost"}

\* The name that is shown is that of the header of the connection, or is going
\* to be, unless another one was typed in between.
NameInv ==
  \A j \in Joins :
    ~crossed =>
      /\ thread[j] = "opening" => connected_as[j] = username
      /\ thread[j] \in {"shown", "open"} => connected_as[j] = displayed

\* The window is gone while a connection is open, or on its way out.
WindowInv ==
  /\ (\E j \in Joins : thread[j] = "open") => ~window \/ late
  /\ window \/ \E j \in Joins : thread[j] \in {"open", "failed", "closing",
                                              "closed"}

\* No name, and no thread, is "none".
LEMMA Nones == "none" \notin Joins /\ NoName \notin Names
BY ChatClientAssumption DEF NoName

\* A step of the user interface, or of the server, and no thread's.
Others == PeerClose \/ ChatBoxCallback \/ Send

-----------------------------------------------------------------------------
\* Every step of a thread keeps who has the socket, and the names.
LEMMA ConnStep == ConnInv /\ [Next]_vars => ConnInv'
<1> SUFFICES ASSUME ConnInv, [Next]_vars
             PROVE  ConnInv'
  OBVIOUS
<1> USE Nones DEF ConnInv, ThreadStates, Holding, Opened, uiVars
<1>1. ASSUME NEW j \in Joins, NEW name \in Names,
             SetUsernameOpenWsConnection(j, name)
      PROVE  ConnInv'
  <2>0. \A i \in Joins : thread[i] \notin {"username", "header"}
    BY <1>1 DEF SetUsernameOpenWsConnection, Joining
  <2> QED
    BY <1>1, <2>0 DEF SetUsernameOpenWsConnection, To
<1>12. ASSUME NEW j \in Joins, SetUsernameHeader(j) PROVE ConnInv'
  BY <1>12 DEF SetUsernameHeader, To
<1>13. ASSUME NEW j \in Joins, StartRun(j) PROVE ConnInv'
  BY <1>13 DEF StartRun, To
<1>14. ASSUME NEW j \in Joins, WsOnOpenDelete(j) PROVE ConnInv'
  BY <1>14 DEF WsOnOpenDelete, To
<1>2. ASSUME NEW j \in Joins, RunRaises(j) PROVE ConnInv'
  BY <1>2 DEF RunRaises, To
<1>3. ASSUME NEW j \in Joins, Run(j) PROVE ConnInv'
  BY <1>3 DEF Run, To
<1>4. ASSUME NEW j \in Joins, Connect(j) PROVE ConnInv'
  BY <1>4 DEF Connect, To
<1>5. ASSUME NEW j \in Joins, ConnectFails(j) PROVE ConnInv'
  BY <1>5 DEF ConnectFails, To
<1>6. ASSUME NEW j \in Joins, WsOnOpen(j) PROVE ConnInv'
  BY <1>6 DEF WsOnOpen, To
<1>7. ASSUME NEW j \in Joins, ReadFails(j) PROVE ConnInv'
  BY <1>7 DEF ReadFails, To
<1>8. ASSUME NEW j \in Joins, WsOnError(j) PROVE ConnInv'
  BY <1>8 DEF WsOnError, To
<1>9. ASSUME NEW j \in Joins, GiveUp(j) PROVE ConnInv'
  BY <1>9 DEF GiveUp, To
<1>10. ASSUME NEW j \in Joins, WsOnClose(j) PROVE ConnInv'
  BY <1>10 DEF WsOnClose, To
<1>11. CASE Others \/ UNCHANGED vars
  BY <1>11 DEF Others, PeerClose, ChatBoxCallback, Send, connVars, vars
<1> QED
  BY <1>1, <1>2, <1>3, <1>4, <1>5, <1>6, <1>7, <1>8, <1>9, <1>10, <1>11,
     <1>12, <1>13, <1>14
     DEF Next, Thread, Others

\* Flags stay flags.
LEMMA FlagsStep == FlagsInv /\ [Next]_vars => FlagsInv'
<1> SUFFICES ASSUME FlagsInv, [Next]_vars
             PROVE  FlagsInv'
  OBVIOUS
<1> USE DEF FlagsInv, connVars, uiVars, historyVars
<1>1. ASSUME NEW j \in Joins, NEW name \in Names,
             SetUsernameOpenWsConnection(j, name)
      PROVE  FlagsInv'
  BY <1>1 DEF SetUsernameOpenWsConnection
<1>2. ASSUME NEW j \in Joins,
             SetUsernameHeader(j) \/ StartRun(j) \/ RunRaises(j) \/ Run(j)
               \/ ConnectFails(j) \/ ReadFails(j) \/ GiveUp(j)
      PROVE  FlagsInv'
  BY <1>2 DEF SetUsernameHeader, StartRun, RunRaises, Run, ConnectFails,
              ReadFails, GiveUp
<1>3. ASSUME NEW j \in Joins,
             Connect(j) \/ WsOnOpen(j) \/ WsOnOpenDelete(j)
      PROVE  FlagsInv'
  BY <1>3 DEF Connect, WsOnOpen, WsOnOpenDelete
<1>4. ASSUME NEW j \in Joins, WsOnError(j) \/ WsOnClose(j) PROVE FlagsInv'
  BY <1>4 DEF WsOnError, WsOnClose, ShowInitWindow
<1>5. CASE Others \/ UNCHANGED vars
  BY <1>5 DEF Others, PeerClose, ChatBoxCallback, Send, vars
<1> QED
  BY <1>1, <1>2, <1>3, <1>4, <1>5 DEF Next, Thread, Others

\* At the beginning.
LEMMA ConnInit == Init => ConnInv /\ FlagsInv
BY DEF Init, ConnInv, FlagsInv, ThreadStates, Holding, Opened

\* The two together are the type invariant.
LEMMA ConnType == ConnInv /\ FlagsInv => TypeOK
BY Nones DEF ConnInv, FlagsInv, ThreadStates, Holding, Opened, TypeOK

\* The state keeps its shape; a thread whose connection is open, or about to
\* be, has the socket and a name.
THEOREM TypeCorrect == Spec => []TypeOK
BY ConnInit, ConnStep, FlagsStep, ConnType, PTL DEF Spec

-----------------------------------------------------------------------------
\* Of two threads one has the socket.
LEMMA OneHolds ==
  ASSUME ConnInv, NEW i \in Joins, NEW j \in Joins,
         thread[i] \in Holding, thread[j] \in Holding
  PROVE  i = j
BY DEF ConnInv

\* Every step keeps the name.
LEMMA NameStep == ConnInv /\ NameInv /\ [Next]_vars => NameInv'
<1> SUFFICES ASSUME ConnInv, NameInv, [Next]_vars
             PROVE  NameInv'
  OBVIOUS
<1>0. thread \in [Joins -> ThreadStates]
  BY DEF ConnInv
<1> USE DEF NameInv, uiVars, historyVars
<1>1. ASSUME NEW j \in Joins, NEW name \in Names,
             SetUsernameOpenWsConnection(j, name)
      PROVE  NameInv'
  BY <1>0, <1>1 DEF SetUsernameOpenWsConnection, To
<1>2. ASSUME NEW j \in Joins, NEW s \in ThreadStates, To(j, s),
             s = "open" => thread[j] = "shown", s \notin {"opening", "shown"},
             UNCHANGED <<username, connected_as, displayed, crossed>>
      PROVE  NameInv'
  BY <1>0, <1>2 DEF To
<1>3. ASSUME NEW j \in Joins, Connect(j) PROVE NameInv'
  <2>1. \A i \in Joins \ {j} : thread[i] \notin {"opening", "shown", "open"}
    BY <1>3, OneHolds DEF Connect, Holding
  <2>2. ~crossed' => connected_as' = [connected_as EXCEPT ![j] = username]
    BY <1>3 DEF Connect, ConnInv
  <2> QED
    BY <1>0, <1>3, <2>1, <2>2 DEF Connect, To, ConnInv
<1>4. ASSUME NEW j \in Joins, WsOnOpen(j) PROVE NameInv'
  <2>1. \A i \in Joins \ {j} : thread[i] \notin {"opening", "shown", "open"}
    BY <1>4, OneHolds DEF WsOnOpen, Holding
  <2> QED
    BY <1>0, <1>4, <2>1 DEF WsOnOpen, To
<1>5. ASSUME NEW j \in Joins, Thread(j), ~Connect(j), ~WsOnOpen(j)
      PROVE  NameInv'
  BY <1>2, <1>5
     DEF Thread, RunRaises, Run, ConnectFails, WsOnOpenDelete, ReadFails,
         WsOnError, GiveUp, WsOnClose, ThreadStates
<1>7. ASSUME NEW j \in Joins, SetUsernameHeader(j) \/ StartRun(j)
      PROVE  NameInv'
  BY <1>2, <1>7 DEF SetUsernameHeader, StartRun, ThreadStates
<1>6. CASE Others \/ UNCHANGED vars
  BY <1>6 DEF Others, PeerClose, ChatBoxCallback, Send, connVars, vars
<1> QED
  BY <1>1, <1>3, <1>4, <1>5, <1>6, <1>7 DEF Next, Others

\* The name on the screen is the one the server knows, unless a Join was
\* between its two writes when the header was read, or came before the name was
\* displayed.
THEOREM NameCorrect == Spec => []NameShown
<1>1. Init => NameInv
  BY DEF Init, NameInv
<1>2. NameInv => NameShown
  BY DEF NameInv, NameShown
<1> QED
  BY <1>1, <1>2, ConnInit, ConnStep, NameStep, PTL DEF Spec

-----------------------------------------------------------------------------
\* Every step keeps the window.
LEMMA WindowStep == ConnInv /\ WindowInv /\ [Next]_vars => WindowInv'
<1> SUFFICES ASSUME ConnInv, WindowInv, [Next]_vars
             PROVE  WindowInv'
  OBVIOUS
<1>0. thread \in [Joins -> ThreadStates]
  BY DEF ConnInv
<1> USE DEF WindowInv, uiVars, historyVars
<1>1. ASSUME NEW j \in Joins, NEW s \in ThreadStates, To(j, s),
             s # "open", window' = window, late' = late,
             thread[j] \in {"open", "failed", "closing", "closed"}
               => s \in {"failed", "closing", "closed"}
      PROVE  WindowInv'
  BY <1>0, <1>1 DEF To
<1>2. ASSUME NEW j \in Joins, WsOnOpenDelete(j) PROVE WindowInv'
  BY <1>0, <1>2 DEF WsOnOpenDelete, To
<1>3. ASSUME NEW j \in Joins, WsOnError(j) PROVE WindowInv'
  <2>1. \A i \in Joins : thread[i] # "open"
    BY <1>3, OneHolds DEF WsOnError, Holding
  <2>2. \A i \in Joins : thread'[i] # "open"
    BY <1>0, <1>3, <2>1 DEF WsOnError, To
  <2>3. thread'[j] = "closing"
    BY <1>0, <1>3 DEF WsOnError, To
  <2> QED
    BY <2>2, <2>3
<1>4. ASSUME NEW j \in Joins, WsOnClose(j) PROVE WindowInv'
  <2>1. window'
    BY <1>4 DEF WsOnClose, ShowInitWindow
  <2>2. \A i \in Joins : thread'[i] = "open" => thread[i] = "open"
    BY <1>0, <1>4 DEF WsOnClose, To
  <2>3. (\E i \in Joins : thread'[i] = "open") => late'
    BY <1>4, <2>2 DEF WsOnClose
  <2> QED
    BY <2>1, <2>3
<1>5. ASSUME NEW j \in Joins, NEW name \in Names,
             SetUsernameOpenWsConnection(j, name)
      PROVE  WindowInv'
  BY <1>1, <1>5 DEF SetUsernameOpenWsConnection, ThreadStates
<1>6. ASSUME NEW j \in Joins, Thread(j), ~WsOnOpenDelete(j), ~WsOnError(j),
             ~WsOnClose(j)
      PROVE  WindowInv'
  BY <1>1, <1>6
     DEF Thread, RunRaises, Run, Connect, ConnectFails, WsOnOpen, ReadFails,
         GiveUp, ThreadStates
<1>8. ASSUME NEW j \in Joins, SetUsernameHeader(j) \/ StartRun(j)
      PROVE  WindowInv'
  BY <1>1, <1>8 DEF SetUsernameHeader, StartRun, ThreadStates
<1>7. CASE Others \/ UNCHANGED vars
  BY <1>7 DEF Others, PeerClose, ChatBoxCallback, Send, connVars, vars
<1> QED
  BY <1>2, <1>3, <1>4, <1>5, <1>6, <1>7, <1>8 DEF Next, Others

\* The log-in window is there when no thread is on its way and nothing is
\* connected, and only then, up to an on_close that came late.
THEOREM WindowCorrect == Spec => []WindowFollowsConnection
<1>1. Init => WindowInv
  BY DEF Init, WindowInv
<1>2. WindowInv => WindowFollowsConnection
  BY DEF WindowInv, WindowFollowsConnection
<1> QED
  BY <1>1, <1>2, ConnInit, ConnStep, WindowStep, PTL DEF Spec
=============================================================================
