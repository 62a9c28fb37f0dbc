----------------------------- MODULE DbManager -----------------------------
(***************************************************************************)
(* The database manager (db_manager.cpp, db_wrapper.cpp): every message is *)
(* a row of one table of an SQLite file.                                   *)
(*                                                                         *)
(* The file, and so the table and its rows, outlive the process.  A new    *)
(* process finds the table and takes SQLite's complaint about that for     *)
(* success.  What SQLite may do: refuse to open the file; fail a statement *)
(* (the file is locked, the disk is full).  Handlers of several messages   *)
(* use the one connection at the same time, statement by statement.        *)
(*                                                                         *)
(* The values of a row are put between apostrophes as they are.  One with  *)
(* an apostrophe of its own makes another text of the statement, and what  *)
(* SQLite makes of that depends on the value: mostly an error, but it may  *)
(* be one or several valid statements, about the row, the table or others. *)
(*                                                                         *)
(* On a connection that did not open, sqlite3_exec fails without setting   *)
(* err_msg, which the code has not initialised and goes on to use: that is *)
(* undefined, and here ends the process or goes unnoticed.                 *)
(***************************************************************************)
EXTENDS Naturals, Sequences

CONSTANTS
  Messages,    \* the messages; each is sent once
  Quoted,      \* those with an apostrophe in one of their values
  Other,       \* a row that is none of the messages
  MaxFaults,   \* bound: statements that fail
  MaxRestarts  \* bound: restarts of the process

ASSUME DbManagerAssumption ==
  /\ Quoted \subseteq Messages
  /\ Other \notin Messages
  /\ {MaxFaults, MaxRestarts} \subseteq Nat

VARIABLES
  table,     \* is there a table in the file?
  rows,      \* its rows
  process,   \* where the process is
  db,        \* the connection: "open" or "unopened"
  handlers,  \* message -> what its handler has done
  foreign,   \* history: has a statement run that was none of the code's?
  faults, restarts

fileVars == <<table, rows>>
vars == <<fileVars, process, db, handlers, foreign, faults, restarts>>

RET_OK == "RET_OK"
RET_NOT_OK == "RET_NOT_OK"

-----------------------------------------------------------------------------
Init ==
  /\ table = FALSE
  /\ rows = <<>>
  /\ process = "main"
  /\ db = "unopened"
  /\ handlers = [m \in Messages |-> "unsent"]
  /\ foreign = FALSE
  /\ faults = 0
  /\ restarts = 0

-----------------------------------------------------------------------------
(* The constructor.                                                        *)

\* sqlite3_open, whose result is ignored.
Open ==
  /\ process = "main"
  /\ process' = "CreateTable"
  /\ db' \in {"open", "unopened"}
  /\ UNCHANGED <<fileVars, handlers, foreign, faults, restarts>>

Fault == faults < MaxFaults /\ faults' = faults + 1

\* Its result is ignored, too; then the manager subscribes to NEW_MESSAGE.
CreateTable ==
  /\ process = "CreateTable"
  /\ db = "open"
  /\ \/ table' = TRUE /\ UNCHANGED faults
     \/ Fault /\ UNCHANGED table
  /\ process' = "subscribed"
  /\ UNCHANGED <<rows, db, handlers, foreign, restarts>>

\* std::string(err_msg), sqlite3_free(err_msg).
CreateTableUnopened ==
  /\ process = "CreateTable"
  /\ db = "unopened"
  /\ process' \in {"subscribed", "aborted"}
  /\ UNCHANGED <<fileVars, db, handlers, foreign, faults, restarts>>

-----------------------------------------------------------------------------
(* Handlers.                                                               *)

Send(m) ==
  /\ process = "subscribed"
  /\ handlers[m] = "unsent"
  /\ handlers' = [handlers EXCEPT ![m] = "NewMessage"]
  /\ UNCHANGED <<fileVars, process, db, foreign, faults, restarts>>

At(m, s) == process = "subscribed" /\ handlers[m] = s

\* The return code of sqlite3_exec.
Return(m, rc) == handlers' = [handlers EXCEPT ![m] = rc]

InsertRow_mutant(m) ==  \* a statement that fails is tried again
  /\ At(m, "NewMessage")
  /\ db = "open"
  /\ \/ /\ table
        /\ rows' = Append(rows, m)
        /\ \/ Return(m, "SQLITE_OK") /\ UNCHANGED faults
           \/ UNCHANGED handlers /\ Fault
     \/ ~table /\ Return(m, "SQLITE_ERROR") /\ UNCHANGED <<rows, faults>>
  /\ UNCHANGED <<table, process, db, foreign, restarts>>

InsertRow_mutant_values(m) ==  \* the values are left out
  /\ At(m, "NewMessage")
  /\ db = "open"
  /\ table
  /\ rows' = Append(rows, <<>>)
  /\ Return(m, "SQLITE_OK")
  /\ UNCHANGED <<table, process, db, foreign, faults, restarts>>

\* The statement that the code has written is executed.
InsertRow(m) ==
  /\ At(m, "NewMessage")
  /\ db = "open"
  /\ \/ /\ table /\ m \notin Quoted
        /\ rows' = Append(rows, m)
        /\ Return(m, "SQLITE_OK")
        /\ UNCHANGED faults
     \/ /\ \/ (~table \/ m \in Quoted) /\ UNCHANGED faults
           \/ Fault
        /\ Return(m, "SQLITE_ERROR")
        /\ UNCHANGED rows
  /\ UNCHANGED <<table, process, db, foreign, restarts>>

Rows == Messages \cup {Other}

\* What statements of another text may make of the file: the rows stay, or get
\* another one, or none is left, with their table or without it.
OtherFile ==
  /\ table' \in BOOLEAN
  /\ rows' \in {<<>>} \cup IF table' THEN {rows, Append(rows, Other)} ELSE {}

\* The statement has become another one, or several, which need not all be
\* executed.
InsertRowForeign(m) ==
  /\ At(m, "NewMessage")
  /\ db = "open"
  /\ m \in Quoted
  /\ OtherFile
  /\ \E rc \in {"SQLITE_OK", "SQLITE_ERROR"} : Return(m, rc)
  /\ foreign' = TRUE
  /\ UNCHANGED <<process, db, faults, restarts>>

\* sqlite3_free(err_msg).
InsertRowUnopened(m) ==
  /\ At(m, "NewMessage")
  /\ db = "unopened"
  /\ \/ Return(m, "SQLITE_ERROR") /\ UNCHANGED process
     \/ process' = "aborted" /\ UNCHANGED handlers
  /\ UNCHANGED <<fileVars, db, foreign, faults, restarts>>

InsertRowReturn(m) ==
  /\ \/ At(m, "SQLITE_OK") /\ Return(m, RET_OK)
     \/ At(m, "SQLITE_ERROR") /\ Return(m, RET_NOT_OK)
  /\ UNCHANGED <<fileVars, process, db, foreign, faults, restarts>>

\* The process has ended, at any point, and starts again.  Messages on their
\* way are gone.
Restart ==
  /\ restarts < MaxRestarts
  /\ restarts' = restarts + 1
  /\ process' = "main"
  /\ db' = "unopened"
  /\ handlers' = [m \in Messages |->
                    IF handlers[m] \in {"unsent", RET_OK, RET_NOT_OK}
                    THEN handlers[m] ELSE "gone"]
  /\ UNCHANGED <<fileVars, foreign, faults>>

-----------------------------------------------------------------------------
Next ==
  \/ Open \/ CreateTable \/ CreateTableUnopened
  \/ \E m \in Messages :
       \/ Send(m) \/ InsertRowReturn(m)
       \/ InsertRow(m) \/ InsertRowForeign(m) \/ InsertRowUnopened(m)
  \/ Restart

Spec == Init /\ [][Next]_vars

-----------------------------------------------------------------------------
(* Properties.                                                             *)

\* The shape of the state.
TypeOK ==
  /\ table \in BOOLEAN
  /\ rows \in Seq(Rows)
  /\ process \in {"main", "CreateTable", "subscribed", "aborted"}
  /\ db \in {"open", "unopened"}
  /\ handlers \in [Messages -> {"unsent", "NewMessage", "SQLITE_OK",
                                "SQLITE_ERROR", RET_OK, RET_NOT_OK, "gone"}]
  /\ foreign \in BOOLEAN
  /\ faults \in 0 .. MaxFaults
  /\ restarts \in 0 .. MaxRestarts

Stored(m) == \E i \in DOMAIN rows : rows[i] = m

(***************************************************************************)
(* The return code of InsertRow, which nobody reads, would tell the truth: *)
(* RET_OK for the messages that are in the table, those of earlier         *)
(* processes included, and RET_NOT_OK for those that are not.  Of a        *)
(* message whose process ended in between it is unknown.  No message is in *)
(* there twice.  All this until the apostrophes of a message make another  *)
(* statement than the code's of its row: from then on nothing is known of  *)
(* the table.                                                              *)
(***************************************************************************)
ReturnsTellWhatIsStored ==
  ~foreign =>
    /\ \A m \in Messages :
         /\ handlers[m] = RET_OK => Stored(m)
         /\ handlers[m] \in {RET_NOT_OK, "unsent", "NewMessage"} => ~Stored(m)
    /\ \A i, j \in DOMAIN rows : rows[i] = rows[j] => i = j
=============================================================================
