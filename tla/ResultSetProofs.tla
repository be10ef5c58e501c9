--------------------------- MODULE ResultSetProofs ---------------------------
(***************************************************************************)
(* What TLAPS proves of the result functions, for results of any size, any *)
(* row numbers and any width of int: answers hold what was asked and what  *)
(* exists, and the cursor keeps the promise of RowCursor.                  *)
(***************************************************************************)
EXTENDS ResultSet, TLAPS

-----------------------------------------------------------------------------
(* The inductive invariant *)

\* FreedOK: pg_free_result, and nothing else, takes the PGresult away.
FreedOK == freed = ~m_res

IInv == TypeOK /\ FreedOK /\ CellAsAsked /\ OnlyWhatExists

\* Sizes are numbers.
LEMMA Sizes == MaxRows \in Nat /\ MaxFields \in Nat /\ RowNumbers \subseteq Int
BY ResultAssumption

\* A cached count is the number of rows or fields, or that of an empty result.
LEMMA Counts ==
  ASSUME TypeOK
  PROVE  /\ RowCount \in {0, tuples} /\ FieldCount \in {0, nfields}
         /\ PQntuples \in {0, tuples} /\ PQnfields \in {0, nfields}
         /\ tuples \in Nat /\ tuples <= MaxRows
         /\ nfields \in Nat /\ nfields <= MaxFields
BY Sizes DEF TypeOK, RowCount, FieldCount, PQntuples, PQnfields

\* The answer Fails is an answer.
LEMMA FailsType == Fails \in Answer
BY DEF Fails, Answer, RowArgument, FieldArgument, None

\* The initial state satisfies the invariant.
LEMMA InitIInv == Init => IInv
<1> SUFFICES ASSUME Init PROVE IInv
  OBVIOUS
<1>1. TypeOK
  <2>1. answer \in Answer
    BY FailsType DEF Init
  <2>2. /\ tuples \in 0..MaxRows /\ nfields \in 0..MaxFields
        /\ m_num_rows = -1 /\ m_num_fields = -1 /\ m_current_row = 0
    BY DEF Init
  <2>3. m_res \in BOOLEAN /\ freed \in BOOLEAN
    BY DEF Init
  <2>4. m_current_row \in 0..tuples
    BY <2>2, Sizes
  <2>5. QED
    BY <2>1, <2>2, <2>3, <2>4 DEF TypeOK
<1>2. FreedOK
  BY DEF Init, FreedOK
<1>3. CellAsAsked /\ OnlyWhatExists
  BY DEF Init, CellAsAsked, OnlyWhatExists, Fails
<1>4. QED
  BY <1>1, <1>2, <1>3 DEF IInv

-----------------------------------------------------------------------------
(* Answers *)

\* Proper: what a call may answer.  Values come from rows and a column that were
\* counted, and from the PGresult; row and cell are the ones whose numbers were
\* passed; a field is one libpq knows, but for that of pg_field_size.
Proper(a) ==
  /\ a \in Answer
  /\ a.rows # {} => /\ a.rows \subseteq 0..(RowCount - 1)
                    /\ a.column \in {None} \cup 0..(FieldCount - 1)
  /\ a.kind \in {"row", "cell"} => a.rows = {ToInt32(a.row.n)}
  /\ a.kind = "cell" /\ a.field.is = "number" => a.column = ToInt32(a.field.n)
  /\ a.data => m_res
  /\ a.kind = "field" => a.column \in 0..(PQnfields - 1)
  /\ a.kind = "size" => /\ a.column \in 0..FieldCount
                        /\ a.data <=> a.column < PQnfields

\* FALSE, TRUE and a count are proper answers.
LEMMA PlainAnswer ==
  ASSUME IInv, answer' = Fails \/ \E kind \in {"count", "seek"} : Gives(kind)
  PROVE  Proper(answer')
<1>1. CASE answer' = Fails
  BY <1>1, FailsType DEF Proper, Fails
<1>2. CASE \E kind \in {"count", "seek"} : Gives(kind)
  <2>1. answer' \in Answer
    BY <1>2 DEF Gives, Fails, Answer, RowArgument, FieldArgument, None
  <2>2. answer'.kind \in {"count", "seek"} /\ answer'.rows = {} /\ answer'.data = FALSE
    BY <1>2 DEF Gives, Fails
  <2>3. QED
    BY <2>1, <2>2 DEF Proper
<1>3. QED
  BY <1>1, <1>2

\* So are the values of rows that were counted.
LEMMA RowsAnswer ==
  ASSUME IInv, NEW kind \in {"walk", "row", "all"}, NEW row \in RowArgument,
         NEW rows, rows \subseteq 0..(RowCount - 1),
         NEW column \in {None} \cup 0..(FieldCount - 1),
         kind = "row" => rows = {ToInt32(row.n)},
         GivesRows(kind, row, rows, column)
  PROVE  Proper(answer')
<1>1. answer' = [kind |-> kind, row |-> row, field |-> Null, rows |-> rows,
                 column |-> column, data |-> m_res /\ rows # {} /\ PQnfields > 0]
  BY DEF GivesRows
<1>2. rows \subseteq 0..MaxRows /\ column \in {None} \cup 0..MaxFields /\ Null \in FieldArgument
  BY Counts, Sizes DEF IInv, FieldArgument, RowArgument
<1>3. (m_res /\ rows # {} /\ PQnfields > 0) \in BOOLEAN
  OBVIOUS
<1>4. answer' \in Answer
  BY <1>1, <1>2, <1>3 DEF Answer
<1>5. QED
  BY <1>1, <1>4 DEF Proper

\* And what is known of a field.
LEMMA FieldAnswer ==
  ASSUME IInv, NEW kind \in {"field", "size"}, NEW f \in 0..MaxFields,
         kind = "field" => f \in 0..(PQnfields - 1),
         kind = "size" => f \in 0..FieldCount,
         AboutField(kind, f)
  PROVE  Proper(answer')
<1>1. answer' = [kind |-> kind, row |-> Null, field |-> Null, rows |-> {},
                 column |-> f, data |-> HasField(f)]
  BY DEF AboutField
<1>2. HasField(f) \in BOOLEAN /\ (HasField(f) <=> f < PQnfields) /\ (HasField(f) => m_res)
  BY Counts, Sizes DEF HasField, PQnfields, IInv, TypeOK
<1>3. answer' \in Answer
  BY <1>1, <1>2 DEF Answer, RowArgument, FieldArgument
<1>4. QED
  BY <1>1, <1>2, <1>3 DEF Proper

\* A cell, by a row that was counted and a field that was named or counted.
LEMMA CellAnswer ==
  ASSUME IInv, NEW row \in RowArgument, NEW field \in FieldArgument,
         convertFieldRow(row, field)
  PROVE  Proper(answer')
<1> DEFINE r == ToInt32(row.n)
           f == getFieldNumber(field)
<1>1. CASE f \in 0..(FieldCount - 1) /\ r \in 0..(RowCount - 1)
  <2>1. answer' = [kind |-> "cell", row |-> row, field |-> field,
                   rows |-> {r}, column |-> f, data |-> HasCell(r, f)]
    BY <1>1 DEF convertFieldRow
  <2>2. r \in 0..MaxRows /\ f \in 0..MaxFields /\ f < FieldCount
    BY <1>1, Counts, Sizes DEF IInv
  <2>3. HasCell(r, f) \in BOOLEAN /\ (HasCell(r, f) => m_res)
    BY <2>2, <1>1, Counts DEF HasCell, PQntuples, IInv, TypeOK
  <2>4. answer' \in Answer
    BY <2>1, <2>2, <2>3 DEF Answer
  <2>5. field.is = "number" => f = ToInt32(field.n)
    BY DEF getFieldNumber
  <2>6. QED
    BY <1>1, <2>1, <2>2, <2>3, <2>4, <2>5 DEF Proper
<1>2. CASE ~(f \in 0..(FieldCount - 1) /\ r \in 0..(RowCount - 1))
  BY <1>2, PlainAnswer DEF convertFieldRow
<1>3. QED
  BY <1>1, <1>2

-----------------------------------------------------------------------------
(* Steps *)

\* A call asks at most for the counts, moves the cursor within the rows, and
\* leaves the result as it is.
Reads ==
  /\ m_num_rows' \in {m_num_rows, RowCount}
  /\ m_num_fields' \in {m_num_fields, FieldCount}
  /\ m_current_row' \in {m_current_row} \cup 0..RowCount
  /\ UNCHANGED <<tuples, nfields, m_res, freed>>

\* A call that reads and gives a proper answer keeps the invariant.
LEMMA ReadKeeps ==
  ASSUME IInv, Reads, Proper(answer')
  PROVE  IInv'
<1>1. TypeOK'
  BY Counts DEF IInv, TypeOK, Reads, Proper
<1>2. FreedOK'
  BY DEF IInv, FreedOK, Reads
<1>3. CellAsAsked'
  <2>1. answer'.rows # {} => answer'.rows \subseteq 0..(tuples - 1) /\ answer'.column < nfields
    BY Counts DEF IInv, Proper, None
  <2>2. QED
    BY <2>1 DEF Proper, CellAsAsked, Reads
<1>4. OnlyWhatExists'
  <2>1. answer'.kind = "field" => answer'.column \in 0..(nfields - 1) /\ m_res
    BY Counts DEF Proper, PQnfields, IInv
  <2>2. answer'.kind = "size" => /\ answer'.column \in 0..nfields
                                 /\ answer'.data <=> answer'.column < nfields /\ m_res
    BY Counts DEF Proper, PQnfields, IInv
  <2>3. QED
    BY <1>2, <2>1, <2>2 DEF Proper, OnlyWhatExists, Reads, FreedOK
<1>5. QED
  BY <1>1, <1>2, <1>3, <1>4 DEF IInv

\* Each function but pg_free_result reads, and answers properly.
LEMMA FetchStep ==
  ASSUME IInv,
         \/ FetchNext
         \/ FetchAll
         \/ \E n \in RowNumbers : FetchRow([is |-> "number", n |-> n]) \/ FetchAllColumns(n)
  PROVE  Reads /\ Proper(answer')
<1> USE DEF resultVars, getNumRows, getNumFields
<1>1. CASE FetchNext
  <2>1. Reads
    BY <1>1, Counts DEF FetchNext, Reads, IInv, TypeOK
  <2>2. CASE m_current_row < RowCount
    <3>1. {m_current_row} \subseteq 0..(RowCount - 1) /\ Null \in RowArgument
      BY <2>2, Counts DEF IInv, TypeOK, RowArgument
    <3>2. GivesRows("walk", Null, {m_current_row}, None)
      BY <1>1, <2>2 DEF FetchNext
    <3>3. QED
      BY <2>1, <3>1, <3>2, RowsAnswer
  <2>3. CASE ~(m_current_row < RowCount)
    BY <1>1, <2>1, <2>3, PlainAnswer DEF FetchNext
  <2>4. QED
    BY <2>2, <2>3
<1>2. CASE FetchAll
  <2>1. Reads
    BY <1>2 DEF FetchAll, Reads
  <2>2. CASE RowCount # 0
    BY <1>2, <2>1, <2>2, RowsAnswer DEF FetchAll, RowArgument
  <2>3. CASE RowCount = 0
    BY <1>2, <2>1, <2>3, PlainAnswer DEF FetchAll
  <2>4. QED
    BY <2>2, <2>3
<1>3. ASSUME NEW n \in RowNumbers, FetchRow([is |-> "number", n |-> n])
      PROVE  Reads /\ Proper(answer')
  <2> DEFINE row == [is |-> "number", n |-> n]
             r == ToInt32(n)
  <2>1. Reads
    BY <1>3 DEF FetchRow, Reads
  <2>2. row \in RowArgument /\ row.n = n
    BY DEF RowArgument
  <2>3. CASE r \in 0..(RowCount - 1)
    <3>1. GivesRows("row", row, {r}, None)
      BY <1>3, <2>2, <2>3 DEF FetchRow
    <3>2. {r} \subseteq 0..(RowCount - 1)
      BY <2>3
    <3>3. QED
      BY <2>1, <2>2, <3>1, <3>2, RowsAnswer
  <2>4. CASE r \notin 0..(RowCount - 1)
    BY <1>3, <2>1, <2>2, <2>4, PlainAnswer DEF FetchRow
  <2>5. QED
    BY <2>3, <2>4
<1>4. ASSUME NEW n \in RowNumbers, FetchAllColumns(n)
      PROVE  Reads /\ Proper(answer')
  <2>1. Reads
    BY <1>4 DEF FetchAllColumns, Reads
  <2>2. CASE n \in 0..(FieldCount - 1)
    BY <1>4, <2>1, <2>2, RowsAnswer DEF FetchAllColumns, RowArgument
  <2>3. CASE n \notin 0..(FieldCount - 1)
    BY <1>4, <2>1, <2>3, PlainAnswer DEF FetchAllColumns
  <2>4. QED
    BY <2>2, <2>3
<1>5. QED
  BY <1>1, <1>2, <1>3, <1>4

\* The functions about cells and fields.
LEMMA FieldStep ==
  ASSUME IInv,
         \/ \E row \in RowArgument, field \in FieldArgument : FetchResult(row, field)
         \/ \E n \in RowNumbers : FieldName(n) \/ FieldSize(n) \/ FieldType(n)
         \/ \E name \in 0..MaxFields : FieldNum(name)
  PROVE  Reads /\ Proper(answer')
<1> USE DEF resultVars, countVars, getNumRows, getNumFields
<1>1. ASSUME NEW row \in RowArgument, NEW field \in FieldArgument, FetchResult(row, field)
      PROVE  Reads /\ Proper(answer')
  <2>1. Reads
    BY <1>1 DEF FetchResult, convertFieldRow, Reads
  <2>2. QED
    BY <1>1, <2>1, CellAnswer DEF FetchResult
<1>2. ASSUME NEW n \in RowNumbers, FieldName(n) \/ FieldSize(n) \/ FieldType(n)
      PROVE  Reads /\ Proper(answer')
  <2>1. Reads
    BY <1>2 DEF FieldName, FieldSize, FieldType, Reads
  <2>2. CASE answer' = Fails
    BY <2>1, <2>2, PlainAnswer
  <2>3. CASE answer' # Fails
    <3>1. n \in 0..MaxFields
      BY <1>2, <2>3, Counts, Sizes DEF FieldName, FieldSize, FieldType, IInv
    <3>2. HasField(n) => n \in 0..(PQnfields - 1)
      BY <3>1, Counts, Sizes DEF HasField, IInv
    <3>3. (AboutField("size", n) /\ n \in 0..FieldCount) \/ (AboutField("field", n) /\ HasField(n))
      BY <1>2, <2>3 DEF FieldName, FieldSize, FieldType
    <3>4. QED
      BY <2>1, <3>1, <3>2, <3>3, FieldAnswer
  <2>4. QED
    BY <2>2, <2>3
<1>3. ASSUME NEW name \in 0..MaxFields, FieldNum(name)
      PROVE  Reads /\ Proper(answer')
  <2>1. Reads
    BY <1>3 DEF FieldNum, Reads
  <2>2. CASE HasField(name)
    <3>1. name \in 0..(PQnfields - 1)
      BY <2>2, Counts DEF HasField, IInv
    <3>2. AboutField("field", name)
      BY <1>3, <2>2 DEF FieldNum, PQfnumber
    <3>3. QED
      BY <2>1, <3>1, <3>2, FieldAnswer
  <2>3. CASE ~HasField(name)
    BY <1>3, <2>1, <2>3, PlainAnswer DEF FieldNum
  <2>4. QED
    BY <2>2, <2>3
<1>4. QED
  BY <1>1, <1>2, <1>3

\* The counts and the cursor.
LEMMA CountStep ==
  ASSUME IInv, NumFields \/ NumRows \/ \E n \in RowNumbers : ResultSeek(n)
  PROVE  Reads /\ Proper(answer')
<1>1. Reads
  BY DEF NumFields, NumRows, ResultSeek, Reads, resultVars, getNumRows, getNumFields
<1>2. answer' = Fails \/ \E kind \in {"count", "seek"} : Gives(kind)
  BY DEF NumFields, NumRows, ResultSeek
<1>3. QED
  BY <1>1, <1>2, PlainAnswer

\* pg_free_result keeps the invariant.
LEMMA FreeKeeps ==
  ASSUME IInv, FreeResult
  PROVE  IInv'
<1>1. /\ m_res' = FALSE /\ freed' = TRUE /\ answer' = Fails
      /\ UNCHANGED <<tuples, nfields, m_num_rows, m_num_fields, m_current_row>>
  BY DEF FreeResult, resultVars, countVars
<1>2. TypeOK' /\ FreedOK'
  BY <1>1, FailsType DEF IInv, TypeOK, FreedOK
<1>3. CellAsAsked' /\ OnlyWhatExists'
  BY <1>1 DEF CellAsAsked, OnlyWhatExists, Fails
<1>4. QED
  BY <1>2, <1>3 DEF IInv

\* Every function keeps the invariant.
LEMMA StepIInv == IInv /\ [Next]_vars => IInv'
<1> SUFFICES ASSUME IInv, [Next]_vars
             PROVE  IInv'
  OBVIOUS
<1>1. CASE Next
  BY <1>1, FetchStep, FieldStep, CountStep, FreeKeeps, ReadKeeps DEF Next
<1>2. CASE UNCHANGED vars
  BY <1>2 DEF vars, resultVars, countVars, IInv, TypeOK, FreedOK, CellAsAsked, OnlyWhatExists
<1>3. QED
  BY <1>1, <1>2

\* The invariant holds in every state of every behaviour.
THEOREM Invariance == Spec => []IInv
<1>1. QED
  BY InitIInv, StepIInv, PTL DEF Spec

-----------------------------------------------------------------------------
(* What follows *)

\* The cursor and the cached counts stay within the result, whatever 64-bit
\* numbers are passed.
THEOREM ResultTypes == Spec => []TypeOK
<1>1. IInv => TypeOK
  BY DEF IInv
<1>2. QED
  BY <1>1, Invariance, PTL

\* Values come from the row and the field that were asked for.
THEOREM CellIsAsked == Spec => []CellAsAsked
<1>1. IInv => CellAsAsked
  BY DEF IInv
<1>2. QED
  BY <1>1, Invariance, PTL

\* There are no values after pg_free_result, and only pg_field_size answers for a
\* field that does not exist, with libpq's 0.
THEOREM OnlyExisting == Spec => []OnlyWhatExists
<1>1. IInv => OnlyWhatExists
  BY DEF IInv
<1>2. QED
  BY <1>1, Invariance, PTL

-----------------------------------------------------------------------------
(* The cursor keeps the promise of RowCursor *)

\* No call but pg_free_result changes how many rows the caches count.
LEMMA RowsStay ==
  ASSUME IInv, Reads
  PROVE  RowCount' = RowCount /\ RowCount \in Nat
<1>1. RowCount \in Nat
  BY Counts DEF IInv
<1>2. PQntuples' = PQntuples
  BY DEF Reads, PQntuples
<1>3. QED
  BY <1>1, <1>2 DEF Reads, RowCount

\* What the abstract cursor sees of a call that gives no next row and does not
\* seek.
LEMMA OtherCall ==
  ASSUME RowCount' \in {0, RowCount}, m_current_row' = m_current_row,
         answer'.kind \notin {"walk", "seek"}
  PROVE  Cursor!Other
BY DEF Cursor!Other

\* A new result starts a cursor before its first row.
LEMMA CursorInit == Init => Cursor!Init
<1> SUFFICES ASSUME Init PROVE Cursor!Init
  OBVIOUS
<1>1. RowCount \in Nat
  BY InitIInv, Counts DEF IInv
<1>2. m_current_row = 0 /\ answer.kind = "fail"
  BY DEF Init, Fails
<1>3. QED
  BY <1>1, <1>2 DEF Cursor!Init

\* Each function maps to a step of the abstract cursor: the next row, a seek, or
\* another call.
LEMMA CursorStep == IInv /\ [Next]_vars => [Cursor!Next]_(Cursor!vars)
<1> SUFFICES ASSUME IInv, [Next]_vars
             PROVE  Cursor!Next \/ UNCHANGED Cursor!vars
  OBVIOUS
<1>1. CASE FetchNext
  <2>1. RowCount' = RowCount
    BY <1>1, FetchStep, RowsStay
  <2>2. CASE m_current_row < RowCount
    <3>1. m_current_row' = m_current_row + 1 /\ answer'.kind = "walk" /\ answer'.rows = {m_current_row}
      BY <1>1, <2>2 DEF FetchNext, GivesRows
    <3>2. (CHOOSE r \in answer'.rows : TRUE) = m_current_row
      BY <3>1
    <3>3. Cursor!Give
      BY <2>1, <2>2, <3>1, <3>2 DEF Cursor!Give
    <3>4. QED
      BY <3>3 DEF Cursor!Next
  <2>3. CASE ~(m_current_row < RowCount)
    <3>1. answer'.kind = "fail" /\ m_current_row' = m_current_row
      BY <1>1, <2>3 DEF FetchNext, Fails
    <3>2. QED
      BY <2>1, <3>1, OtherCall DEF Cursor!Next
  <2>4. QED
    BY <2>2, <2>3
<1>2. ASSUME NEW n \in RowNumbers, ResultSeek(n)
      PROVE  Cursor!Next
  <2>1. RowCount' = RowCount
    BY <1>2, CountStep, RowsStay
  <2>2. CASE n \in 0..RowCount
    <3>1. answer'.kind = "seek" /\ m_current_row' = n
      BY <1>2, <2>2 DEF ResultSeek, Gives, Fails
    <3>2. Cursor!Seek(n)
      BY <2>1, <2>2, <3>1 DEF Cursor!Seek
    <3>3. QED
      BY <2>2, <3>2 DEF Cursor!Next
  <2>3. CASE n \notin 0..RowCount
    <3>1. answer'.kind = "fail" /\ m_current_row' = m_current_row
      BY <1>2, <2>3 DEF ResultSeek, Fails
    <3>2. QED
      BY <2>1, <3>1, OtherCall DEF Cursor!Next
  <2>4. QED
    BY <2>2, <2>3
<1>3. CASE \/ FetchAll
           \/ \E n \in RowNumbers : FetchRow([is |-> "number", n |-> n]) \/ FetchAllColumns(n)
           \/ \E row \in RowArgument, field \in FieldArgument : FetchResult(row, field)
           \/ \E n \in RowNumbers : FieldName(n) \/ FieldSize(n) \/ FieldType(n)
           \/ \E name \in 0..MaxFields : FieldNum(name)
           \/ NumFields
           \/ NumRows
  <2>1. RowCount' = RowCount
    BY <1>3, FetchStep, FieldStep, CountStep, RowsStay
  <2>2. m_current_row' = m_current_row
    BY <1>3 DEF FetchAll, FetchRow, FetchAllColumns, FetchResult, FieldName, FieldSize, FieldType,
       FieldNum, NumFields, NumRows
  <2>3. answer'.kind \notin {"walk", "seek"}
    BY <1>3 DEF FetchAll, FetchRow, FetchAllColumns, FetchResult, convertFieldRow, FieldName,
       FieldSize, FieldType, FieldNum, NumFields, NumRows, GivesRows, AboutField, Gives, Fails
  <2>4. QED
    BY <2>1, <2>2, <2>3, OtherCall DEF Cursor!Next
<1>4. CASE FreeResult
  <2>1. RowCount' \in {0, RowCount}
    BY <1>4, Counts DEF FreeResult, countVars, RowCount, PQntuples
  <2>2. m_current_row' = m_current_row /\ answer'.kind = "fail"
    BY <1>4 DEF FreeResult, Fails
  <2>3. QED
    BY <2>1, <2>2, OtherCall DEF Cursor!Next
<1>5. CASE UNCHANGED vars
  <2>1. RowCount' = RowCount /\ m_current_row' = m_current_row /\ answer' = answer
    BY <1>5 DEF vars, resultVars, countVars, RowCount, PQntuples
  <2>2. QED
    BY <2>1 DEF Cursor!vars
<1>6. QED
  BY <1>1, <1>2, <1>3, <1>4, <1>5 DEF Next

\* Rows fetched without a row number come each once and in order from where the
\* cursor stands, whatever else is asked of the result in between.
THEOREM CursorKept == Spec => ImplementsCursor
<1>1. QED
  BY CursorInit, CursorStep, Invariance, PTL DEF Spec, ImplementsCursor, Cursor!Spec

=============================================================================
