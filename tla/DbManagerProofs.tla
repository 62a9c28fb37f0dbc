-------------------------- MODULE DbManagerProofs --------------------------
(***************************************************************************)
(* Proofs about DbManager, for any set of messages and any number of       *)
(* faults and restarts.                                                    *)
(***************************************************************************)
EXTENDS DbManager, TLAPS

\* The bounds are numbers.
LEMMA Bounds == MaxFaults \in Nat /\ MaxRestarts \in Nat
BY DbManagerAssumption

\* Rows, and sequences of them.
LEMMA RowSeqs ==
  /\ Messages \subseteq Rows /\ Other \in Rows
  /\ <<>> \in Seq(Rows)
  /\ \A s \in Seq(Rows), r \in Rows : Append(s, r) \in Seq(Rows)
<1>1. Messages \subseteq Rows /\ Other \in Rows
  BY DEF Rows
<1> QED
  BY <1>1

\* At the beginning.
LEMMA TypeInit == Init => TypeOK
<1> SUFFICES ASSUME Init PROVE TypeOK
  OBVIOUS
<1>1. table \in BOOLEAN
  BY DEF Init
<1>2. rows \in Seq(Rows)
  BY RowSeqs DEF Init
<1>3. foreign \in BOOLEAN
  BY DEF Init
<1> QED
  BY <1>1, <1>2, <1>3, Bounds DEF Init, TypeOK

\* Every step keeps the shape of the state.
LEMMA TypeStep == TypeOK /\ [Next]_vars => TypeOK'
<1> SUFFICES ASSUME TypeOK, [Next]_vars
             PROVE  TypeOK'
  OBVIOUS
<1> USE DEF TypeOK, fileVars, RET_OK, RET_NOT_OK
<1>1. CASE Open
  BY <1>1 DEF Open
<1>2. CASE CreateTable
  <2>1. table' \in BOOLEAN
    BY <1>2 DEF CreateTable
  <2>2. faults' \in 0 .. MaxFaults
    BY <1>2, Bounds DEF CreateTable, Fault
  <2> QED
    BY <1>2, <2>1, <2>2 DEF CreateTable
<1>3. CASE CreateTableUnopened
  BY <1>3 DEF CreateTableUnopened
<1>4. ASSUME NEW m \in Messages, Send(m) PROVE TypeOK'
  BY <1>4 DEF Send
<1>5. ASSUME NEW m \in Messages, InsertRow(m) PROVE TypeOK'
  <2>1. rows' \in Seq(Rows) /\ faults' \in 0 .. MaxFaults
    BY <1>5, Bounds, RowSeqs DEF InsertRow, Fault
  <2>2. \E rc \in {"SQLITE_OK", "SQLITE_ERROR"} : Return(m, rc)
    BY <1>5 DEF InsertRow
  <2> QED
    BY <1>5, <2>1, <2>2 DEF InsertRow, Return
<1>6. ASSUME NEW m \in Messages, InsertRowUnopened(m) PROVE TypeOK'
  BY <1>6 DEF InsertRowUnopened, Return
<1>7. ASSUME NEW m \in Messages, InsertRowReturn(m) PROVE TypeOK'
  BY <1>7 DEF InsertRowReturn, Return
<1>8. CASE Restart
  BY <1>8, Bounds DEF Restart
<1>9. CASE UNCHANGED vars
  BY <1>9 DEF vars
<1>10. ASSUME NEW m \in Messages, InsertRowForeign(m) PROVE TypeOK'
  <2>1. rows' \in Seq(Rows) /\ table' \in BOOLEAN
    <3>1. rows' \in {<<>>, rows, Append(rows, Other)} /\ table' \in BOOLEAN
      BY <1>10 DEF InsertRowForeign, OtherFile
    <3> QED
      BY <3>1, RowSeqs
  <2>2. \E rc \in {"SQLITE_OK", "SQLITE_ERROR"} : Return(m, rc)
    BY <1>10 DEF InsertRowForeign
  <2> QED
    BY <1>10, <2>1, <2>2 DEF InsertRowForeign, Return
<1> QED
  BY <1>1, <1>2, <1>3, <1>4, <1>5, <1>6, <1>7, <1>8, <1>9, <1>10 DEF Next

\* The state keeps its shape.
THEOREM TypeCorrect == Spec => []TypeOK
BY TypeInit, TypeStep, PTL DEF Spec

-----------------------------------------------------------------------------
(* What is in the table.                                                   *)

\* Between the statement and the return, SQLite's code says the same already.
\* A message that is gone may have been stored or not.
RowsInv ==
  ~foreign =>
    /\ \A m \in Messages :
         /\ handlers[m] \in {"SQLITE_OK", RET_OK} => Stored(m)
         /\ handlers[m] \in
              {"SQLITE_ERROR", RET_NOT_OK, "unsent", "NewMessage"}
              => ~Stored(m)
    /\ \A i, j \in DOMAIN rows : rows[i] = rows[j] => i = j

\* A step that adds no row, and takes a handler forth in its column, keeps it.
LEMMA RowsSame ==
  ASSUME RowsInv, rows' = rows, foreign' = foreign, NEW h, handlers' = h,
         \A m \in Messages :
           \/ h[m] = handlers[m]
           \/ h[m] = "gone"
           \/ {h[m], handlers[m]} \subseteq {"SQLITE_OK", RET_OK}
           \/ {h[m], handlers[m]} \subseteq
                {"SQLITE_ERROR", RET_NOT_OK, "unsent", "NewMessage"}
  PROVE  RowsInv'
BY DEF RowsInv, Stored, RET_OK, RET_NOT_OK

\* Appending the row of a message that is not there.
LEMMA RowsAppend ==
  ASSUME TypeOK, RowsInv, NEW m \in Messages, ~foreign => ~Stored(m),
         rows' = Append(rows, m), foreign' = foreign,
         handlers' = [handlers EXCEPT ![m] = "SQLITE_OK"]
  PROVE  RowsInv'
<1>1. /\ DOMAIN rows' = DOMAIN rows \cup {Len(rows) + 1}
      /\ rows'[Len(rows) + 1] = m
      /\ \A i \in DOMAIN rows : rows'[i] = rows[i]
      /\ Len(rows) + 1 \notin DOMAIN rows
  BY DEF TypeOK
<1>2. \A x \in Messages : Stored(x)' <=> Stored(x) \/ x = m
  BY <1>1 DEF Stored
<1>3. ~foreign => \A i, j \in DOMAIN rows' : rows'[i] = rows'[j] => i = j
  BY <1>1 DEF RowsInv, Stored
<1>4. \A x \in Messages :
        handlers'[x] = IF x = m THEN "SQLITE_OK" ELSE handlers[x]
  BY DEF TypeOK
<1> QED
  BY <1>2, <1>3, <1>4 DEF RowsInv, RET_OK, RET_NOT_OK

\* Every step keeps it.
LEMMA RowsStep == TypeOK /\ RowsInv /\ [Next]_vars => RowsInv'
<1> SUFFICES ASSUME TypeOK, RowsInv, [Next]_vars
             PROVE  RowsInv'
  OBVIOUS
<1> USE DEF fileVars, RET_OK, RET_NOT_OK
<1>0. handlers = [m \in Messages |-> handlers[m]]
  BY DEF TypeOK
<1>1. CASE UNCHANGED <<rows, handlers, foreign>>
  BY <1>1 DEF RowsInv, Stored
<1>2. CASE Open \/ CreateTable \/ CreateTableUnopened \/ UNCHANGED vars
  BY <1>1, <1>2 DEF Open, CreateTable, CreateTableUnopened, vars
<1>3. ASSUME NEW m \in Messages, Send(m) PROVE RowsInv'
  BY <1>0, <1>3, RowsSame DEF Send
<1>4. ASSUME NEW m \in Messages, InsertRow(m) PROVE RowsInv'
  <2>1. handlers[m] = "NewMessage"
    BY <1>4 DEF InsertRow, At
  <2>2. CASE rows' = Append(rows, m) /\ Return(m, "SQLITE_OK")
    BY <1>4, <2>1, <2>2, RowsAppend DEF RowsInv, Return, InsertRow
  <2>3. CASE rows' = rows /\ Return(m, "SQLITE_ERROR")
    BY <1>0, <1>4, <2>1, <2>3, RowsSame DEF Return, InsertRow
  <2> QED
    BY <1>4, <2>2, <2>3 DEF InsertRow
<1>5. ASSUME NEW m \in Messages, InsertRowUnopened(m) PROVE RowsInv'
  BY <1>0, <1>1, <1>5, RowsSame DEF InsertRowUnopened, Return, At
<1>6. ASSUME NEW m \in Messages, InsertRowReturn(m) PROVE RowsInv'
  BY <1>0, <1>6, RowsSame DEF InsertRowReturn, Return, At
<1>7. CASE Restart
  BY <1>7, RowsSame DEF Restart
<1>8. ASSUME NEW m \in Messages, InsertRowForeign(m) PROVE RowsInv'
  BY <1>8 DEF InsertRowForeign, RowsInv
<1> QED
  BY <1>2, <1>3, <1>4, <1>5, <1>6, <1>7, <1>8 DEF Next

\* The return codes of InsertRow tell what is in the table, over restarts and
\* faults, and no message is there twice, until a statement that is none of the
\* code's has run.
THEOREM ReturnsTrue == Spec => []ReturnsTellWhatIsStored
<1>1. Init => RowsInv
  BY DEF Init, RowsInv, Stored, RET_OK, RET_NOT_OK
<1>2. RowsInv => ReturnsTellWhatIsStored
  BY DEF RowsInv, ReturnsTellWhatIsStored
<1> QED
  BY <1>1, <1>2, TypeInit, TypeStep, RowsStep, PTL DEF Spec
=============================================================================
