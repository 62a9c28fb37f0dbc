---------------------------- MODULE LoggerProofs ----------------------------
(***************************************************************************)
(* Proofs about Logger, for an hour and a run of any length, and for any   *)
(* number of messages, faults and restarts.                                *)
(***************************************************************************)
EXTENDS Logger, TLAPS

-----------------------------------------------------------------------------
(* Suffixes.                                                               *)

\* A suffix, element by element.
LEMMA Suffix ==
  ASSUME NEW S, NEW s \in Seq(S), NEW t \in Seq(S)
  PROVE  IsSuffix(s, t) <=>
           /\ Len(s) <= Len(t)
           /\ \A i \in 1 .. Len(s) : s[i] = t[Len(t) - Len(s) + i]
<1> DEFINE r == Reverse(s)  q == Reverse(t)
<1>1. /\ r \in Seq(S) /\ Len(r) = Len(s)
      /\ \A i \in 1 .. Len(s) : r[i] = s[Len(s) - i + 1]
  BY DEF Reverse
<1>2. /\ q \in Seq(S) /\ Len(q) = Len(t)
      /\ \A i \in 1 .. Len(t) : q[i] = t[Len(t) - i + 1]
  BY DEF Reverse
<1>3. IsSuffix(s, t) <=> IsPrefix(r, q)
  BY DEF IsSuffix
<1> HIDE DEF r, q
<1>4. IsPrefix(r, q) <=> /\ Len(s) <= Len(t)
                         /\ \A i \in 1 .. Len(s) : r[i] = q[i]
  <2>0. Len(s) \in Nat /\ Len(t) \in Nat
    OBVIOUS
  <2>1. SubSeq(r, 1, Len(r)) = r
    BY <1>1
  <2>2. ASSUME Len(s) <= Len(t)
        PROVE  /\ SubSeq(q, 1, Len(r)) \in Seq(S)
               /\ Len(SubSeq(q, 1, Len(r))) = Len(r)
               /\ \A i \in 1 .. Len(r) : SubSeq(q, 1, Len(r))[i] = q[i]
    BY <1>1, <1>2, <2>0, <2>2
  <2> QED
    BY <1>1, <1>2, <2>0, <2>1, <2>2 DEF IsPrefix
<1>5. ASSUME Len(s) <= Len(t)
      PROVE  (\A i \in 1 .. Len(s) : r[i] = q[i]) <=>
               \A i \in 1 .. Len(s) : s[i] = t[Len(t) - Len(s) + i]
  <2>1. ASSUME NEW i \in 1 .. Len(s), \A j \in 1 .. Len(s) : r[j] = q[j]
        PROVE  s[i] = t[Len(t) - Len(s) + i]
    <3>1. Len(s) - i + 1 \in 1 .. Len(s) /\ Len(s) - i + 1 \in 1 .. Len(t)
      BY <1>5
    <3>2. r[Len(s) - i + 1] = q[Len(s) - i + 1]
      BY <2>1, <3>1
    <3>3. /\ Len(s) - (Len(s) - i + 1) + 1 = i
          /\ Len(t) - (Len(s) - i + 1) + 1 = Len(t) - Len(s) + i
      OBVIOUS
    <3> QED
      BY <1>1, <1>2, <3>1, <3>2, <3>3
  <2>2. ASSUME NEW i \in 1 .. Len(s),
               \A j \in 1 .. Len(s) : s[j] = t[Len(t) - Len(s) + j]
        PROVE  r[i] = q[i]
    <3>1. Len(s) - i + 1 \in 1 .. Len(s) /\ i \in 1 .. Len(t)
      BY <1>5
    <3>2. s[Len(s) - i + 1] = t[Len(t) - Len(s) + (Len(s) - i + 1)]
      BY <2>2, <3>1
    <3>3. Len(t) - Len(s) + (Len(s) - i + 1) = Len(t) - i + 1
      OBVIOUS
    <3> QED
      BY <1>1, <1>2, <3>1, <3>2, <3>3
  <2> QED
    BY <2>1, <2>2
<1> QED
  BY <1>3, <1>4, <1>5

\* What is appended to both leaves a suffix one.
LEMMA SuffixAppend ==
  ASSUME NEW S, NEW s \in Seq(S), NEW t \in Seq(S), NEW m \in S,
         IsSuffix(s, t)
  PROVE  IsSuffix(Append(s, m), Append(t, m))
<1>1. /\ Len(s) <= Len(t)
      /\ \A i \in 1 .. Len(s) : s[i] = t[Len(t) - Len(s) + i]
  BY Suffix
<1>2. Append(s, m) \in Seq(S) /\ Append(t, m) \in Seq(S)
  OBVIOUS
<1>3. Len(Append(s, m)) = Len(s) + 1 /\ Len(Append(t, m)) = Len(t) + 1
  OBVIOUS
<1>4. ASSUME NEW i \in 1 .. Len(s) + 1
      PROVE  Append(s, m)[i]
               = Append(t, m)[Len(t) + 1 - (Len(s) + 1) + i]
  <2>1. Len(t) + 1 - (Len(s) + 1) + i = Len(t) - Len(s) + i
    OBVIOUS
  <2>2. CASE i = Len(s) + 1
    <3>1. Len(t) - Len(s) + i = Len(t) + 1
      BY <2>2
    <3> QED
      BY <2>1, <2>2, <3>1
  <2>3. CASE i \in 1 .. Len(s)
    <3>1. Len(t) - Len(s) + i \in 1 .. Len(t)
      BY <1>1, <2>3
    <3> QED
      BY <1>1, <2>1, <2>3, <3>1
  <2>4. i = Len(s) + 1 \/ i \in 1 .. Len(s)
    <3>1. Len(s) \in Nat
      OBVIOUS
    <3> QED
      BY <1>4, <3>1
  <2> QED
    BY <2>2, <2>3, <2>4
<1> DEFINE s_ == Append(s, m)  t_ == Append(t, m)
<1> HIDE DEF s_, t_
<1>5. /\ s_ \in Seq(S) /\ t_ \in Seq(S)
      /\ Len(s_) <= Len(t_)
      /\ \A i \in 1 .. Len(s_) : s_[i] = t_[Len(t_) - Len(s_) + i]
  <2>1. Len(s) \in Nat /\ Len(t) \in Nat
    OBVIOUS
  <2> QED
    BY <1>1, <1>2, <1>3, <1>4, <2>1 DEF s_, t_
<1>6. IsSuffix(s_, t_)
  BY <1>5, Suffix
<1> QED
  BY <1>6 DEF s_, t_

\* The empty sequence is a suffix, and so is all of one.
LEMMA SuffixTrivial ==
  ASSUME NEW S, NEW t \in Seq(S)
  PROVE  IsSuffix(<<>>, t) /\ IsSuffix(t, t)
<1>1. <<>> \in Seq(S) /\ Len(<<>>) = 0
  OBVIOUS
<1>2. Len(t) \in Nat /\ \A i \in 1 .. Len(t) : Len(t) - Len(t) + i = i
  OBVIOUS
<1>3. IsSuffix(<<>>, t)
  <2> DEFINE e == <<>>
  <2> HIDE DEF e
  <2>1. e \in Seq(S) /\ Len(e) = 0
    BY <1>1 DEF e
  <2>2. Len(e) <= Len(t) /\ 1 .. Len(e) = {}
    BY <1>2, <2>1
  <2>3. IsSuffix(e, t)
    BY <2>1, <2>2, Suffix
  <2> QED
    BY <2>3 DEF e
<1>4. IsSuffix(t, t)
  BY <1>2, Suffix
<1> QED
  BY <1>3, <1>4

-----------------------------------------------------------------------------
(* Hours.                                                                  *)

\* The bounds, and the hours of a run.
LEMMA Bounds ==
  /\ HourLen \in Nat \ {0}
  /\ Offset \in Nat /\ Offset < HourLen
  /\ MaxTime \in Nat /\ MaxLate \in Nat
  /\ MaxFaults \in Nat /\ MaxRestarts \in Nat
BY LoggerAssumption

\* The hours that the thread sleeps for.
Utc(t) == t \div HourLen

\* A time is so many hours and a rest.
LEMMA HourRest ==
  ASSUME NEW t \in Nat
  PROVE  /\ Utc(t) \in Nat
         /\ t % HourLen \in 0 .. HourLen - 1
         /\ t = HourLen * Utc(t) + (t % HourLen)
<1>1. Utc(t) \in Nat
  BY Bounds DEF Utc
<1>2. t % HourLen \in 0 .. HourLen - 1
  BY Bounds
<1>3. t = HourLen * (t \div HourLen) + (t % HourLen)
  BY Bounds
<1> QED
  BY <1>1, <1>2, <1>3 DEF Utc

\* One more hour, at least.
LEMMA HoursGrow ==
  ASSUME NEW a \in Nat, NEW b \in Nat, a < b
  PROVE  HourLen * a + HourLen <= HourLen * b
<1>1. \A x, y \in Nat : x <= y => HourLen * x <= HourLen * y
  BY Bounds
<1>2. HourLen * (a + 1) <= HourLen * b
  BY <1>1
<1>3. HourLen * (a + 1) = HourLen * a + HourLen
  BY Bounds
<1> QED
  BY <1>2, <1>3

\* Of hours and rest there is one choice.
LEMMA HourUnique ==
  ASSUME NEW t \in Nat, NEW h \in Nat, NEW r \in 0 .. HourLen - 1,
         t = HourLen * h + r
  PROVE  Utc(t) = h /\ t % HourLen = r
<1>1. /\ Utc(t) \in Nat
      /\ t % HourLen \in 0 .. HourLen - 1
      /\ t = HourLen * Utc(t) + (t % HourLen)
  BY HourRest
<1>2. HourLen * h \in Nat /\ HourLen * Utc(t) \in Nat
  BY <1>1, Bounds
<1>3. ~(h < Utc(t))
  BY <1>1, <1>2, HoursGrow, Bounds
<1>4. ~(Utc(t) < h)
  BY <1>1, <1>2, HoursGrow, Bounds
<1> QED
  BY <1>1, <1>2, <1>3, <1>4

\* Later is not in an earlier hour.
LEMMA HourMonotone ==
  ASSUME NEW t \in Nat, NEW u \in Nat, t <= u
  PROVE  Utc(t) <= Utc(u)
<1>1. Utc(t) \in Nat /\ Utc(u) \in Nat
  BY HourRest
<1>2. ~(Utc(u) < Utc(t))
  <2> SUFFICES ASSUME Utc(u) < Utc(t) PROVE FALSE
    OBVIOUS
  <2>1. HourLen * Utc(u) + HourLen <= HourLen * Utc(t)
    BY <1>1, HoursGrow
  <2>2. /\ HourLen * Utc(t) \in Nat /\ HourLen * Utc(u) \in Nat
        /\ HourLen \in Nat
    BY <1>1, Bounds
  <2>3. /\ t % HourLen \in 0 .. HourLen - 1
        /\ t = HourLen * Utc(t) + (t % HourLen)
    BY HourRest
  <2>4. /\ u % HourLen \in 0 .. HourLen - 1
        /\ u = HourLen * Utc(u) + (u % HourLen)
    BY HourRest
  <2> QED
    BY <2>1, <2>2, <2>3, <2>4
<1> QED
  BY <1>1, <1>2

\* The hour of local time.
LEMMA HourLocal ==
  ASSUME NEW t \in Nat
  PROVE  Hour(t) = Utc(t + Offset) /\ Hour(t) \in Nat
<1>1. t + Offset \in Nat
  BY Bounds
<1>2. Utc(t + Offset) \in Nat
  BY <1>1, HourRest
<1> QED
  BY <1>2 DEF Hour, Utc

LEMMA LocalMonotone ==
  ASSUME NEW t \in Nat, NEW u \in Nat, t <= u
  PROVE  Hour(t) <= Hour(u)
<1>1. /\ t + Offset \in Nat /\ u + Offset \in Nat
      /\ t + Offset <= u + Offset
  BY Bounds
<1> QED
  BY <1>1, HourMonotone, HourLocal

\* The hour of every time of the run is one of its hours.
LEMMA HourType ==
  ASSUME NEW t \in 0 .. MaxTime
  PROVE  Hour(t) \in Hours
<1>1. t \in Nat /\ t <= MaxTime /\ MaxTime \in Nat
  BY Bounds
<1>2. Hour(t) \in Nat /\ Hour(MaxTime) \in Nat
  BY <1>1, HourLocal
<1>3. Hour(t) <= Hour(MaxTime)
  BY <1>1, LocalMonotone
<1> QED
  BY <1>2, <1>3 DEF Hours

-----------------------------------------------------------------------------
(* The shape of the state.                                                 *)

\* Zero is an hour.
LEMMA ZeroHour == 0 \in Hours
BY HourLocal, Bounds DEF Hours

\* Lines, and sequences of them.
LEMMA LineSeqs ==
  /\ Messages \subseteq Lines /\ Part \in Lines
  /\ <<>> \in Seq(Lines)
  /\ \A l \in Lines : <<l>> \in Seq(Lines)
  /\ \A s \in Seq(Lines), l \in Lines : Append(s, l) \in Seq(Lines)
<1>1. Messages \subseteq Lines /\ Part \in Lines
  BY DEF Lines
<1> QED
  BY <1>1

\* At the beginning.
LEMMA TypeInit == Init => TypeOK
<1> SUFFICES ASSUME Init PROVE TypeOK
  OBVIOUS
<1>1. now \in 0 .. MaxTime
  BY LoggerAssumption, Bounds DEF Init
<1>2. owed \in [Hours -> Seq(Lines)]
  BY LineSeqs DEF Init
<1>3. borrowed \in BOOLEAN
  BY DEF Init
<1> QED
  BY <1>1, <1>2, <1>3, ZeroHour, Bounds DEF Init, TypeOK

\* What the handler of a message may do to the files, and to the record of what
\* they should hold.
LEMMA FileType ==
  ASSUME TypeOK, NEW m \in Messages, FileAppendOrWrite(current_log_file, m)
  PROVE  /\ DOMAIN files' \subseteq Hours
         /\ \A h \in DOMAIN files' : files'[h] \in Seq(Lines)
         /\ owed' \in [Hours -> Seq(Lines)]
         /\ faults' \in 0 .. MaxFaults
<1> DEFINE f == current_log_file
<1>1. CASE UNCHANGED fileVars
  BY <1>1 DEF TypeOK, fileVars
<1>2. CASE f # NoName
  <2>1. f \in Hours
    BY <1>2 DEF TypeOK
  <2>2. Content(f) \in Seq(Lines)
    BY <2>1, LineSeqs DEF TypeOK, Content
  <2>3. /\ <<m>> \in Seq(Lines) /\ Append(Content(f), m) \in Seq(Lines)
        /\ <<>> \in Seq(Lines) /\ Append(<<>>, Part) \in Seq(Lines)
        /\ Append(Content(f), Part) \in Seq(Lines)
    BY <2>2, LineSeqs
  <2>4. \/ files' = files
        \/ \E c \in Seq(Lines) : PutFile(f, c)
    BY <1>2, <2>2, <2>3
       DEF FileAppendOrWrite, FileAppend, FileWrite, fileVars
  <2>5. /\ DOMAIN files' \subseteq Hours
        /\ \A h \in DOMAIN files' : files'[h] \in Seq(Lines)
    BY <2>1, <2>4 DEF PutFile, TypeOK
  <2>6. \E s \in Seq(Lines) : owed' = [owed EXCEPT ![f] = s]
    <3>1. owed[f] \in Seq(Lines) /\ Append(owed[f], m) \in Seq(Lines)
      BY <2>1, LineSeqs DEF TypeOK
    <3>2. <<>> \in Seq(Lines)
      BY LineSeqs
    <3> QED
      BY <1>2, <2>3, <3>1, <3>2 DEF FileAppendOrWrite, fileVars
  <2>7. faults' \in 0 .. MaxFaults
    BY <1>2, Bounds DEF FileAppendOrWrite, TypeOK
  <2> QED
    BY <2>1, <2>5, <2>6, <2>7 DEF TypeOK
<1> QED
  BY <1>1, <1>2 DEF FileAppendOrWrite

\* Every step keeps the shape.
LEMMA TypeStep == TypeOK /\ [Next]_vars => TypeOK'
<1> SUFFICES ASSUME TypeOK, [Next]_vars
             PROVE  TypeOK'
  OBVIOUS
<1> USE DEF cyclicVars, nameVars, fileVars, messageVars
<1>0. /\ now \in 0 .. MaxTime /\ now \in Nat
      /\ stamp \in [Messages -> 0 .. MaxTime]
      /\ \A m \in Messages : Hour(stamp[m]) \in Hours
      /\ Hour(now) \in Hours
  BY HourType, Bounds DEF TypeOK
<1>1. CASE InitCycle
  <2>1. now % HourLen \in 0 .. HourLen - 1
    BY <1>0, HourRest
  <2>2. sleep_time' \in 0 .. HourLen + 1
    BY <1>1, <2>1, Bounds DEF InitCycle
  <2> QED
    BY <1>1, <2>2 DEF InitCycle, TypeOK
<1>2. CASE SetCurrentLogName
  BY <1>0, <1>2 DEF SetCurrentLogName, Localtime, TypeOK
<1>3. CASE SetCurrentLogNameLocked
  <2>1. borrowed' \in BOOLEAN
    BY <1>3 DEF SetCurrentLogNameLocked
  <2>2. tm.hour \in Hours
    BY DEF TypeOK
  <2> QED
    BY <1>3, <2>1, <2>2 DEF SetCurrentLogNameLocked, TypeOK
<1>4. CASE Sleep
  BY <1>4, Bounds DEF Sleep, TypeOK
<1>5. CASE Cyclic
  BY <1>5 DEF Cyclic, TypeOK
<1>6. CASE Tick
  <2>1. now' \in 0 .. MaxTime /\ late' \in 0 .. MaxLate
    BY <1>6, Bounds DEF Tick, TypeOK
  <2> QED
    BY <1>6, <2>1 DEF Tick, TypeOK
<1>7. ASSUME NEW m \in Messages, Send(m) PROVE TypeOK'
  BY <1>0, <1>7 DEF Send, TypeOK
<1>8. ASSUME NEW m \in Messages, GetDate(m) PROVE TypeOK'
  BY <1>0, <1>8 DEF GetDate, Localtime, TypeOK
<1>9. ASSUME NEW m \in Messages, NewMessage(m) PROVE TypeOK'
  BY <1>0, <1>9 DEF NewMessage, Localtime, TypeOK
<1>10. ASSUME NEW m \in Messages, NewMessageWrite(m) PROVE TypeOK'
  BY <1>10, FileType DEF NewMessageWrite, TypeOK
<1>11. CASE Restart
  <2>1. borrowed' \in BOOLEAN
    BY <1>11 DEF Restart
  <2> QED
    BY <1>11, <2>1, ZeroHour, Bounds DEF Restart, FileGetFiles, TypeOK
<1>12. CASE UNCHANGED vars
  BY <1>12 DEF vars, TypeOK
<1> QED
  BY <1>1, <1>2, <1>3, <1>4, <1>5, <1>6, <1>7, <1>8, <1>9, <1>10, <1>11,
     <1>12
     DEF Next, Thread

\* The state keeps its shape.
THEOREM TypeCorrect == Spec => []TypeOK
BY TypeInit, TypeStep, PTL DEF Spec

-----------------------------------------------------------------------------
(* What a file holds.                                                      *)

\* Every step keeps the tails.
LEMMA TailStep == TypeOK /\ TailKept /\ [Next]_vars => TailKept'
<1> SUFFICES ASSUME TypeOK, TailKept, [Next]_vars
             PROVE  TailKept'
  OBVIOUS
<1>1. CASE UNCHANGED <<files, owed>>
  BY <1>1 DEF TailKept, Content
<1>2. ASSUME NEW m \in Messages, NewMessageWrite(m) PROVE TailKept'
  <2> SUFFICES ASSUME NEW f, f = current_log_file
               PROVE  TailKept'
    OBVIOUS
  <2>1. CASE f # NoName /\ ~UNCHANGED <<files, owed>>
    <3>1. f \in Hours
      BY <2>1 DEF TypeOK
    <3>2. /\ Content(f) \in Seq(Lines) /\ <<m>> \in Seq(Lines)
          /\ owed[f] \in Seq(Lines) /\ IsSuffix(owed[f], Content(f))
      BY <3>1, LineSeqs DEF TypeOK, TailKept, Content
    <3>3. ASSUME NEW h \in Hours, h # f
          PROVE  IsSuffix(owed'[h], Content(h)')
      <4>1. owed'[h] = owed[h]
        BY <1>2, <2>1, <3>3
           DEF NewMessageWrite, FileAppendOrWrite, fileVars, TypeOK
      <4>2. Content(h)' = Content(h)
        BY <1>2, <2>1, <3>3
           DEF NewMessageWrite, FileAppendOrWrite, FileAppend, FileWrite,
               PutFile, Content, fileVars
      <4> QED
        BY <4>1, <4>2 DEF TailKept
    <3>4. CASE FileAppend(f, m) /\ owed' = [owed EXCEPT ![f] = Append(@, m)]
      <4>1. Content(f)' = Append(Content(f), m)
        BY <3>4 DEF FileAppend, PutFile, Content
      <4>2. owed'[f] = Append(owed[f], m)
        BY <3>1, <3>4 DEF TypeOK
      <4>3. IsSuffix(owed'[f], Content(f)')
        BY <3>2, <4>1, <4>2, SuffixAppend
      <4> QED
        BY <3>3, <4>3 DEF TailKept
    <3>5. CASE FileWrite(f, m) /\ owed' = [owed EXCEPT ![f] = <<m>>]
      <4>1. Content(f)' = <<m>> /\ owed'[f] = <<m>>
        BY <3>1, <3>5 DEF FileWrite, PutFile, Content, TypeOK
      <4>2. IsSuffix(owed'[f], Content(f)')
        BY <3>2, <4>1, SuffixTrivial
      <4> QED
        BY <3>3, <4>2 DEF TailKept
    <3>6. CASE files' = files /\ owed' = [owed EXCEPT ![f] = <<>>]
      <4>1. Content(f)' = Content(f) /\ owed'[f] = <<>>
        BY <3>1, <3>6 DEF Content, TypeOK
      <4>2. IsSuffix(owed'[f], Content(f)')
        BY <3>2, <4>1, SuffixTrivial
      <4> QED
        BY <3>3, <4>2 DEF TailKept
    <3>7. ASSUME NEW c \in Seq(Lines), PutFile(f, c),
                 owed' = [owed EXCEPT ![f] = <<>>]
          PROVE  TailKept'
      <4>1. Content(f)' = c /\ owed'[f] = <<>>
        BY <3>1, <3>7 DEF PutFile, Content, TypeOK
      <4>2. IsSuffix(owed'[f], Content(f)')
        BY <4>1, SuffixTrivial
      <4> QED
        BY <3>3, <4>2 DEF TailKept
    <3>8. /\ <<>> \in Seq(Lines) /\ Append(<<>>, Part) \in Seq(Lines)
          /\ Append(Content(f), Part) \in Seq(Lines)
      BY <3>2, LineSeqs
    <3> QED
      BY <1>2, <2>1, <3>2, <3>4, <3>5, <3>6, <3>7, <3>8
         DEF NewMessageWrite, FileAppendOrWrite
  <2>2. CASE f = NoName \/ UNCHANGED <<files, owed>>
    BY <1>1, <1>2, <2>2 DEF NewMessageWrite, FileAppendOrWrite, fileVars
  <2> QED
    BY <2>1, <2>2
<1>3. ASSUME NEW m \in Messages, Send(m) \/ GetDate(m) \/ NewMessage(m)
      PROVE  TailKept'
  BY <1>1, <1>3 DEF Send, GetDate, NewMessage, fileVars
<1>4. CASE Thread \/ Tick \/ Restart \/ UNCHANGED vars
  BY <1>1, <1>4
     DEF Thread, InitCycle, SetCurrentLogName, SetCurrentLogNameLocked,
         Sleep, Cyclic, Tick, Restart, fileVars, vars
<1> QED
  BY <1>2, <1>3, <1>4 DEF Next

\* A file ends with what was appended to it since the last that was not,
\* over restarts and whatever happens to other files.
THEOREM TailCorrect == Spec => []TailKept
<1>1. Init => TailKept
  <2> SUFFICES ASSUME Init, NEW h \in Hours
               PROVE  IsSuffix(owed[h], Content(h))
    BY DEF TailKept
  <2>1. owed[h] = <<>> /\ Content(h) = <<>> /\ <<>> \in Seq(Lines)
    BY LineSeqs DEF Init, Content
  <2> QED
    BY <2>1, SuffixTrivial
<1> QED
  BY <1>1, TypeInit, TypeStep, TailStep, PTL DEF Spec

-----------------------------------------------------------------------------
(* The name of the file.                                                   *)

\* The thread is to name the file after hour k, or has, or some later hour: it
\* next wakes up one tick after the end of hour k, and as many later as it has
\* been late.  Once it has slept, it knows no other rest than a full hour.
Phase(k) ==
  /\ HourLen * k <= now
  /\ cyclic # "asleep" =>
       now + sleep_time = HourLen * k + HourLen + 1 + late
  /\ cyclic = "asleep" =>
       /\ sleep_time = HourLen
       /\ IF now < wake
          THEN wake = HourLen * k + HourLen + 1 + late
          ELSE now = HourLen * k + HourLen + 1 + late
  /\ cyclic \in {"SetCurrentLogName", "localtime"} =>
       current_log_file = NoName \/ sleep_time = HourLen
  /\ cyclic = "localtime" /\ tm.by = "logger" =>
       k <= tm.hour /\ tm.hour <= Hour(now)
  /\ cyclic \in {"named", "asleep"} /\ ~borrowed =>
       /\ current_log_file \in Nat
       /\ k <= current_log_file /\ current_log_file <= Hour(now)

PhaseInv ==
  IF cyclic = "run"
  THEN late = 0 /\ current_log_file = NoName
  ELSE \E k \in Nat : Phase(k)

\* The types of what it is about.
LEMMA PhaseTypes ==
  ASSUME TypeOK
  PROVE  /\ now \in Nat /\ late \in Nat /\ sleep_time \in Nat /\ wake \in Nat
         /\ Hours \subseteq Nat /\ tm.hour \in Nat
         /\ \A k \in Nat : HourLen * k \in Nat
<1>1. now \in Nat /\ late \in Nat /\ sleep_time \in Nat /\ wake \in Nat
  BY Bounds DEF TypeOK
<1>2. Hours \subseteq Nat
  BY DEF Hours
<1>3. tm.hour \in Hours
  BY DEF TypeOK
<1>4. \A k \in Nat : HourLen * k \in Nat
  BY Bounds
<1> QED
  BY <1>1, <1>2, <1>3, <1>4

\* A time at or after the beginning of an hour is in it or later.
LEMMA HourAtLeast ==
  ASSUME NEW t \in Nat, NEW k \in Nat, HourLen * k <= t
  PROVE  k <= Utc(t) /\ k <= Hour(t)
<1>0. Utc(t) <= Hour(t) /\ Hour(t) \in Nat
  <2>1. t + Offset \in Nat /\ t <= t + Offset
    BY Bounds
  <2> QED
    BY <2>1, HourMonotone, HourLocal
<1>1. Utc(t) \in Nat
  BY HourRest
<1> SUFFICES ASSUME Utc(t) < k PROVE FALSE
  BY <1>0, <1>1
<1>2. HourLen * Utc(t) + HourLen <= HourLen * k
  BY <1>1, HoursGrow
<1>3. /\ t % HourLen \in 0 .. HourLen - 1
      /\ t = HourLen * Utc(t) + (t % HourLen)
  BY HourRest
<1>4. HourLen * Utc(t) \in Nat /\ HourLen * k \in Nat /\ HourLen \in Nat
  BY <1>1, Bounds
<1> QED
  BY <1>2, <1>3, <1>4

\* Every step keeps it.
LEMMA PhaseStep == TypeOK /\ PhaseInv /\ [Next]_vars => PhaseInv'
<1> SUFFICES ASSUME TypeOK, PhaseInv, [Next]_vars
             PROVE  PhaseInv'
  OBVIOUS
<1> USE DEF cyclicVars, nameVars, fileVars, messageVars
<1>0. /\ now \in Nat /\ late \in Nat /\ sleep_time \in Nat /\ wake \in Nat
      /\ Hours \subseteq Nat /\ tm.hour \in Nat /\ HourLen \in Nat
      /\ \A k \in Nat : HourLen * k \in Nat
  BY PhaseTypes, Bounds
<1>1. CASE InitCycle
  <2> SUFFICES ASSUME NEW k \in Nat, k = Utc(now)
               PROVE  Phase(k)'
    BY <1>0, <1>1, HourRest DEF InitCycle, PhaseInv
  <2>1. /\ now % HourLen \in 0 .. HourLen - 1
        /\ now = HourLen * k + (now % HourLen)
    BY <1>0, HourRest
  <2>2. late = 0 /\ current_log_file = NoName
    BY <1>1 DEF InitCycle, PhaseInv
  <2>3. now + sleep_time' = HourLen * k + HourLen + 1 + late
    BY <1>0, <1>1, <2>1, <2>2 DEF InitCycle
  <2> QED
    BY <1>0, <1>1, <2>1, <2>2, <2>3 DEF InitCycle, Phase
<1>2. CASE SetCurrentLogName
  <2>1. PICK k \in Nat : Phase(k)
    BY <1>2 DEF SetCurrentLogName, PhaseInv
  <2>2. k <= Hour(now) /\ Hour(now) \in Nat
    BY <1>0, <2>1, HourAtLeast, HourLocal DEF Phase
  <2>3. tm'.hour = Hour(now)
    BY <1>2 DEF SetCurrentLogName, Localtime
  <2>4. Phase(k)'
    BY <1>2, <2>1, <2>2, <2>3 DEF SetCurrentLogName, Phase, Hour
  <2> QED
    BY <1>2, <2>4 DEF SetCurrentLogName, PhaseInv
<1>3. CASE SetCurrentLogNameLocked
  <2>1. PICK k \in Nat : Phase(k)
    BY <1>3 DEF SetCurrentLogNameLocked, PhaseInv
  <2>2. Phase(k)'
    BY <1>0, <1>3, <2>1 DEF SetCurrentLogNameLocked, Phase, Hour
  <2> QED
    BY <1>3, <2>2 DEF SetCurrentLogNameLocked, PhaseInv
<1>4. CASE Sleep
  <2>1. PICK k \in Nat : Phase(k)
    BY <1>4 DEF Sleep, PhaseInv
  <2>2. Phase(k)'
    BY <1>0, <1>4, <2>1 DEF Sleep, Phase, Hour
  <2> QED
    BY <1>4, <2>2 DEF Sleep, PhaseInv
<1>5. CASE Cyclic
  <2>1. PICK k \in Nat : Phase(k)
    BY <1>5 DEF Cyclic, PhaseInv
  <2> SUFFICES ASSUME NEW l \in Nat, l = k + 1
               PROVE  Phase(l)'
    BY <1>5 DEF Cyclic, PhaseInv
  <2>2. HourLen * l = HourLen * k + HourLen
    BY Bounds
  <2>3. now = HourLen * l + 1 + late /\ sleep_time = HourLen
    BY <1>0, <1>5, <2>1, <2>2 DEF Cyclic, Phase
  <2> QED
    BY <1>0, <1>5, <2>2, <2>3 DEF Cyclic, Phase
<1>6. CASE Tick
  <2>1. now' = now + 1 /\ late' = IF Overdue THEN late + 1 ELSE late
    BY <1>6 DEF Tick
  <2>2. CASE cyclic = "run"
    BY <1>6, <2>1, <2>2 DEF Tick, Overdue, PhaseInv
  <2>3. CASE cyclic # "run"
    <3>1. PICK k \in Nat : Phase(k)
      BY <2>3 DEF PhaseInv
    <3>2. Hour(now) \in Nat /\ Hour(now') \in Nat /\ Hour(now) <= Hour(now')
      BY <1>0, <2>1, LocalMonotone, HourLocal
    <3>3. /\ (HourLen * k <= now)'
          /\ (cyclic # "asleep" =>
                now + sleep_time = HourLen * k + HourLen + 1 + late)'
      BY <1>0, <1>6, <2>1, <2>3, <3>1 DEF Tick, Overdue, Phase
    <3>4. (cyclic = "asleep" =>
             /\ sleep_time = HourLen
             /\ IF now < wake
                THEN wake = HourLen * k + HourLen + 1 + late
                ELSE now = HourLen * k + HourLen + 1 + late)'
      BY <1>0, <1>6, <2>1, <2>3, <3>1 DEF Tick, Overdue, Phase
    <3>5. Phase(k)'
      BY <1>0, <1>6, <3>1, <3>2, <3>3, <3>4 DEF Tick, Phase, Hour
    <3> QED
      BY <1>6, <2>3, <3>5 DEF Tick, PhaseInv
  <2> QED
    BY <2>2, <2>3
<1>7. CASE UNCHANGED <<now, cyclicVars, nameVars>>
           /\ (UNCHANGED tm \/ tm'.by # "logger")
  BY <1>7 DEF PhaseInv, Phase, Hour
<1>8. ASSUME NEW m \in Messages,
             Send(m) \/ GetDate(m) \/ NewMessage(m) \/ NewMessageWrite(m)
      PROVE  PhaseInv'
  <2>1. UNCHANGED tm \/ tm'.by # "logger"
    BY <1>8, LoggerAssumption
       DEF Send, GetDate, NewMessage, NewMessageWrite, Localtime
  <2> QED
    BY <1>7, <1>8, <2>1 DEF Send, GetDate, NewMessage, NewMessageWrite
<1>9. CASE Restart
  BY <1>9 DEF Restart, PhaseInv
<1>10. CASE UNCHANGED vars
  BY <1>7, <1>10 DEF vars
<1> QED
  BY <1>1, <1>2, <1>3, <1>4, <1>5, <1>6, <1>8, <1>9, <1>10 DEF Next, Thread

\* The file is named after the hour it is, up to the first ticks of an hour,
\* the lateness of the thread and the difference of local time, for any length
\* of an hour.
THEOREM NameCorrect == Spec => []NameFollowsHour
<1>1. TypeOK /\ PhaseInv => NameFollowsHour
  <2> SUFFICES ASSUME TypeOK, PhaseInv, current_log_file # NoName, ~borrowed,
                      (now + Offset) % HourLen > Offset + late + 1
               PROVE  current_log_file = Hour(now)
    BY DEF NameFollowsHour
  <2>00. /\ now \in Nat /\ late \in Nat /\ sleep_time \in Nat
         /\ wake \in Nat /\ HourLen \in Nat
         /\ \A k \in Nat : HourLen * k \in Nat
    BY PhaseTypes, Bounds
  <2>01. /\ now % HourLen > late + 1
         /\ Utc(now) = Hour(now)
    <3> DEFINE r == (now + Offset) % HourLen
    <3>1. /\ now + Offset \in Nat /\ Hour(now) \in Nat
          /\ r \in 0 .. HourLen - 1
          /\ now + Offset = HourLen * Hour(now) + r
      <4>1. now + Offset \in Nat
        BY <2>00, Bounds
      <4>2. /\ Utc(now + Offset) \in Nat
            /\ (now + Offset) % HourLen \in 0 .. HourLen - 1
            /\ now + Offset = HourLen * Utc(now + Offset)
                                + ((now + Offset) % HourLen)
        BY <4>1, HourRest
      <4>3. Hour(now) = Utc(now + Offset)
        BY DEF Hour, Utc
      <4> QED
        BY <4>1, <4>2, <4>3
    <3>2. r > Offset + late + 1
      OBVIOUS
    <3> HIDE DEF r
    <3>3. /\ r - Offset \in 0 .. HourLen - 1 /\ r - Offset > late + 1
          /\ now = HourLen * Hour(now) + (r - Offset)
      BY <2>00, <3>1, <3>2, Bounds
    <3> QED
      BY <2>00, <3>1, <3>3, HourUnique
  <2>0. /\ now \in Nat /\ late \in Nat /\ sleep_time \in Nat
        /\ wake \in Nat /\ HourLen \in Nat
        /\ \A k \in Nat : HourLen * k \in Nat
        /\ now % HourLen \in 0 .. HourLen - 1
        /\ now % HourLen > late + 1
    BY <2>00, <2>01, HourRest
  <2>1. late + 1 \in 0 .. HourLen - 1
    BY <2>0
  <2>2. PICK k \in Nat : Phase(k)
    BY DEF PhaseInv
  <2>3. ~(cyclic \in {"SetCurrentLogName", "localtime"})
    <3> SUFFICES ASSUME cyclic \in {"SetCurrentLogName", "localtime"}
                 PROVE  FALSE
      OBVIOUS
    <3>1. now = HourLen * k + (late + 1)
      BY <2>0, <2>2 DEF Phase
    <3>2. now % HourLen = late + 1
      BY <2>0, <2>1, <3>1, HourUnique
    <3> QED
      BY <2>0, <3>2
  <2>4. now <= HourLen * k + HourLen + 1 + late /\ HourLen * k <= now
    BY <2>0, <2>2 DEF Phase
  <2>5. ~(HourLen * k + HourLen <= now)
    <3> SUFFICES ASSUME HourLen * k + HourLen <= now
                 PROVE  FALSE
      OBVIOUS
    <3> DEFINE r == now - (HourLen * k + HourLen)
    <3>1. HourLen * (k + 1) = HourLen * k + HourLen /\ k + 1 \in Nat
      BY Bounds
    <3>2. /\ r \in 0 .. HourLen - 1 /\ r <= late + 1
          /\ now = HourLen * (k + 1) + r
      BY <2>0, <2>1, <2>4, <3>1
    <3>3. now % HourLen = r
      BY <2>0, <3>1, <3>2, HourUnique
    <3> QED
      BY <2>0, <3>2, <3>3
  <2>6. Utc(now) = k
    <3>1. /\ now - HourLen * k \in 0 .. HourLen - 1
          /\ now = HourLen * k + (now - HourLen * k)
      BY <2>0, <2>4, <2>5
    <3> QED
      BY <2>0, <3>1, HourUnique
  <2>7. cyclic \in {"named", "asleep"}
    BY <2>3 DEF TypeOK, PhaseInv
  <2>8. /\ current_log_file \in Nat
        /\ k <= current_log_file /\ current_log_file <= Hour(now)
    BY <2>2, <2>7 DEF Phase
  <2> QED
    BY <2>01, <2>6, <2>8
<1>2. Init => PhaseInv
  BY DEF Init, PhaseInv
<1> QED
  BY <1>1, <1>2, TypeInit, TypeStep, PhaseStep, PTL DEF Spec
=============================================================================
