------------------------------- MODULE Logger -------------------------------
(***************************************************************************)
(* The logger (logger.cpp, file_handler.cpp): every message is appended to *)
(* a file that is named after the hour, and a thread renames it by         *)
(* sleeping from hour to hour.                                             *)
(*                                                                         *)
(* Time is in ticks, of which an hour has HourLen (the code's is of 3600   *)
(* seconds).  An hour stands for the whole name: year, month, day and hour *)
(* are read from the same struct tm.  The hours that the thread sleeps for *)
(* are those of time(nullptr), which are UTC's, and the hour in the name   *)
(* is localtime's: where local time is not a whole number of hours off,    *)
(* the two do not begin at the same time.                                  *)
(*                                                                         *)
(* localtime.  It returns a buffer that all threads share, and is called   *)
(* without a mutex: by the logger for the name, and by Message::GetDate    *)
(* for the date of a message, here under the logger's mutex and elsewhere, *)
(* in the websocket server and the database manager, under none.  What     *)
(* the logger reads from the buffer is what the last call has left there.  *)
(*                                                                         *)
(* Files.  Opening one may fail, for want of descriptors say, once to      *)
(* append and again to write, and the second truncates.  Writing to a file *)
(* that did open may fail, too, after some of the text or before, and      *)
(* nobody asks.  The process may be started again; files stay.             *)
(***************************************************************************)
EXTENDS Naturals, Sequences, SequencesExt

CONSTANTS
  Messages,    \* the messages; each is sent once
  NoName,      \* the empty name the logger starts with
  HourLen,     \* HOUR_S
  Offset,      \* ticks by which the hours of local time begin before UTC's
  MaxTime,     \* bound: the last tick
  MaxLate,     \* bound: ticks the logger's thread is late, in total
  MaxFaults,   \* bound: messages that are not appended
  MaxRestarts  \* bound: restarts of the process

ASSUME LoggerAssumption ==
  /\ HourLen \in Nat \ {0}
  /\ Offset \in 0 .. HourLen - 1
  /\ {MaxTime, MaxLate, MaxFaults, MaxRestarts} \subseteq Nat
  /\ HourLen <= MaxTime + 1
  /\ "logger" \notin Messages

VARIABLES
  now,              \* time(nullptr)
  cyclic,           \* where the logger's thread is
  sleep_time,       \* how long it sleeps next
  wake,             \* when it wakes up
  tm,               \* localtime's buffer: the hour, and who has it from there
  current_log_file, \* the hour the file is named after
  backlog_files,    \* the names of all files
  mtx,              \* the message whose handler has the mutex, or "free"
  handlers,         \* message -> what its handler has done
  stamp,            \* message -> when it was made
  files,            \* hour -> the messages in the file of this name, and parts
  faults, restarts, \* how many of them there were
  late,             \* history: ticks the thread was awake or overdue
  borrowed,         \* history: the name is from somebody else's localtime
  owed              \* history: hour -> messages appended since the last fault

cyclicVars == <<cyclic, sleep_time, wake, late>>
nameVars == <<current_log_file, backlog_files, borrowed>>
fileVars == <<files, owed, faults>>
messageVars == <<mtx, handlers, stamp>>
vars == <<now, cyclicVars, tm, nameVars, messageVars, fileVars, restarts>>

\* The hour of local time.  A whole number of hours more would add to all.
Hour(t) == (t + Offset) \div HourLen
Hours == 0 .. Hour(MaxTime)

-----------------------------------------------------------------------------
Init ==
  /\ now \in 0 .. HourLen - 1
  /\ cyclic = "run"
  /\ sleep_time = 0
  /\ wake = 0
  /\ tm = [hour |-> 0, by |-> NoName]
  /\ current_log_file = NoName
  /\ backlog_files = {}
  /\ mtx = "free"
  /\ handlers = [m \in Messages |-> "unsent"]
  /\ stamp = [m \in Messages |-> 0]
  /\ files = [h \in {} |-> <<>>]
  /\ faults = 0
  /\ restarts = 0
  /\ late = 0
  /\ borrowed = FALSE
  /\ owed = [h \in Hours |-> <<>>]

-----------------------------------------------------------------------------
(* The thread.                                                             *)

InitCycle_mutant ==  \* the first hour is a full one
  /\ cyclic = "run"
  /\ sleep_time' = HourLen
  /\ cyclic' = "SetCurrentLogName"
  /\ UNCHANGED <<now, wake, late, tm, nameVars, messageVars, fileVars,
                 restarts>>

InitCycle_mutant_sign ==  \* from the last full hour, not to the next
  /\ cyclic = "run"
  /\ sleep_time' = HourLen + (now % HourLen) + 1
  /\ cyclic' = "SetCurrentLogName"
  /\ UNCHANGED <<now, wake, late, tm, nameVars, messageVars, fileVars,
                 restarts>>

InitCycle ==
  /\ cyclic = "run"
  /\ sleep_time' = HourLen - (now % HourLen) + 1
  /\ cyclic' = "SetCurrentLogName"
  /\ UNCHANGED <<now, wake, late, tm, nameVars, messageVars, fileVars,
                 restarts>>

Localtime(t, who) == tm' = [hour |-> Hour(t), by |-> who]

SetCurrentLogName ==
  /\ cyclic = "SetCurrentLogName"
  /\ Localtime(now, "logger")
  /\ cyclic' = "localtime"
  /\ UNCHANGED <<now, sleep_time, wake, late, nameVars, messageVars, fileVars,
                 restarts>>

\* Under the mutex, which is taken after localtime.
SetCurrentLogNameLocked ==
  /\ cyclic = "localtime"
  /\ mtx = "free"
  /\ current_log_file' = tm.hour
  /\ backlog_files' = backlog_files \cup {tm.hour}
  /\ borrowed' = (tm.by # "logger")
  /\ cyclic' = "named"
  /\ UNCHANGED <<now, sleep_time, wake, late, tm, messageVars, fileVars,
                 restarts>>

Sleep ==
  /\ cyclic = "named"
  /\ wake' = now + sleep_time
  /\ sleep_time' = HourLen
  /\ cyclic' = "asleep"
  /\ UNCHANGED <<now, late, tm, nameVars, messageVars, fileVars, restarts>>

Cyclic ==
  /\ cyclic = "asleep"
  /\ now >= wake
  /\ cyclic' = "SetCurrentLogName"
  /\ UNCHANGED <<now, sleep_time, wake, late, tm, nameVars, messageVars,
                 fileVars, restarts>>

\* The thread is awake, or should be.
Overdue == cyclic # "run" /\ (cyclic = "asleep" => now >= wake)

Tick ==
  /\ now < MaxTime
  /\ Overdue => late < MaxLate
  /\ now' = now + 1
  /\ late' = IF Overdue THEN late + 1 ELSE late
  /\ UNCHANGED <<cyclic, sleep_time, wake, tm, nameVars, messageVars,
                 fileVars, restarts>>

-----------------------------------------------------------------------------
(* Messages.                                                               *)

Send(m) ==
  /\ handlers[m] = "unsent"
  /\ handlers' = [handlers EXCEPT ![m] = "sent"]
  /\ stamp' = [stamp EXCEPT ![m] = now]
  /\ UNCHANGED <<now, cyclicVars, tm, nameVars, mtx, fileVars, restarts>>

\* In another component.
GetDate(m) ==
  /\ handlers[m] # "unsent"
  /\ Localtime(stamp[m], m)
  /\ UNCHANGED <<now, cyclicVars, nameVars, messageVars, fileVars, restarts>>

\* Up to ToString, which asks for the date.
NewMessage(m) ==
  /\ handlers[m] = "sent"
  /\ mtx = "free"
  /\ mtx' = m
  /\ handlers' = [handlers EXCEPT ![m] = "ToString"]
  /\ Localtime(stamp[m], m)
  /\ UNCHANGED <<now, cyclicVars, nameVars, stamp, fileVars, restarts>>

\* What a write leaves in a file that fails in the middle.
Part == "part"
Lines == Messages \cup {Part}

\* The content of f, or nothing.
Content(f) == IF f \in DOMAIN files THEN files[f] ELSE <<>>

PutFile(f, content) ==
  files' = [x \in DOMAIN files \cup {f} |->
              IF x = f THEN content ELSE files[x]]

\* std::ios::app, and std::ios::out.
FileAppend(f, m) == PutFile(f, Append(Content(f), m))
FileWrite(f, m) == PutFile(f, <<m>>)

FileAppendOrWrite_mutant(f, m) ==  \* the write first
  IF f = NoName
  THEN UNCHANGED fileVars
  ELSE /\ FileWrite(f, m)
       /\ owed' = [owed EXCEPT ![f] = Append(@, m)]
       /\ UNCHANGED faults

\* Without a name the path is that of the directory, which opens for neither.
\* A fault: the file does not open to append, and then it opens to write, or
\* it does not; or it opens, to append or to write, and of the text nothing is
\* written, or a part.
FileAppendOrWrite(f, m) ==
  \/ /\ f = NoName
     /\ UNCHANGED fileVars
  \/ /\ f # NoName
     /\ FileAppend(f, m)
     /\ owed' = [owed EXCEPT ![f] = Append(@, m)]
     /\ UNCHANGED faults
  \/ /\ f # NoName
     /\ faults < MaxFaults
     /\ faults' = faults + 1
     /\ \/ FileWrite(f, m) /\ owed' = [owed EXCEPT ![f] = <<m>>]
        \/ UNCHANGED files /\ owed' = [owed EXCEPT ![f] = <<>>]
        \/ /\ \E before \in {Content(f), <<>>} :
                PutFile(f, before) \/ PutFile(f, Append(before, Part))
           /\ owed' = [owed EXCEPT ![f] = <<>>]

NewMessageWrite(m) ==
  /\ mtx = m
  /\ FileAppendOrWrite(current_log_file, m)
  /\ handlers' = [handlers EXCEPT ![m] = "done"]
  /\ mtx' = "free"
  /\ UNCHANGED <<now, cyclicVars, tm, nameVars, stamp, restarts>>

-----------------------------------------------------------------------------
\* What FileGetFiles finds in the directory.
FileGetFiles == DOMAIN files

\* The process ends at any point and is started again: the constructor.
\* Messages on their way are gone.
Restart ==
  /\ restarts < MaxRestarts
  /\ restarts' = restarts + 1
  /\ backlog_files' = FileGetFiles
  /\ current_log_file' = NoName
  /\ borrowed' = FALSE
  /\ cyclic' = "run"
  /\ sleep_time' = 0
  /\ wake' = 0
  /\ late' = 0
  /\ tm' = [hour |-> 0, by |-> NoName]
  /\ mtx' = "free"
  /\ handlers' = [m \in Messages |->
                    IF handlers[m] = "unsent" THEN "unsent" ELSE "done"]
  /\ UNCHANGED <<now, stamp, fileVars>>

-----------------------------------------------------------------------------
Thread == InitCycle \/ SetCurrentLogName \/ SetCurrentLogNameLocked \/ Sleep
          \/ Cyclic

Next ==
  \/ Thread
  \/ Tick
  \/ \E m \in Messages :
       Send(m) \/ GetDate(m) \/ NewMessage(m) \/ NewMessageWrite(m)
  \/ Restart

Spec == Init /\ [][Next]_vars

-----------------------------------------------------------------------------
(* Properties.                                                             *)

\* The shape of the state.
TypeOK ==
  /\ now \in 0 .. MaxTime
  /\ cyclic \in {"run", "SetCurrentLogName", "localtime", "named", "asleep"}
  /\ sleep_time \in 0 .. HourLen + 1
  /\ wake \in 0 .. MaxTime + HourLen + 1
  /\ tm \in [hour : Hours, by : Messages \cup {"logger", NoName}]
  /\ current_log_file \in Hours \cup {NoName}
  /\ backlog_files \in SUBSET Hours
  /\ mtx \in Messages \cup {"free"}
  /\ handlers \in [Messages -> {"unsent", "sent", "ToString", "done"}]
  /\ stamp \in [Messages -> 0 .. MaxTime]
  /\ DOMAIN files \subseteq Hours
  /\ \A h \in DOMAIN files : files[h] \in Seq(Lines)
  /\ faults \in 0 .. MaxFaults
  /\ restarts \in 0 .. MaxRestarts
  /\ late \in 0 .. MaxLate
  /\ borrowed \in BOOLEAN
  /\ owed \in [Hours -> Seq(Lines)]

(***************************************************************************)
(* A file ends with all messages that were handled under its name since    *)
(* the last one that was not appended, in the order they were handled,     *)
(* whatever other files suffered and however often the process was started *)
(* again.  Without a fault that is every message of the file.              *)
(***************************************************************************)
TailKept == \A h \in Hours : IsSuffix(owed[h], Content(h))

(***************************************************************************)
(* The file is named after the hour it is, except in the first ticks of an *)
(* hour: one, one for each tick that the thread has been late since the    *)
(* process started, for it sleeps full hours and never looks at the clock  *)
(* again, and those that the hour of local time begins before that of UTC, *)
(* by which it sleeps: half of each hour in some zones.  That holds of     *)
(* each name that was made of the logger's own localtime.  A name that is  *)
(* from somebody else's is the hour of that message, and may stay for an   *)
(* hour.                                                                   *)
(***************************************************************************)
NameFollowsHour ==
  /\ current_log_file # NoName
  /\ ~borrowed
  /\ (now + Offset) % HourLen > Offset + late + 1
  => current_log_file = Hour(now)
=============================================================================
