------------------------------ MODULE ResultSet ------------------------------
(***************************************************************************)
(* A PGSQLResult and the functions that read it: pg_fetch_*, pg_field_*,   *)
(* pg_num_rows, pg_num_fields, pg_result_seek and pg_free_result.  The     *)
(* object keeps a cursor and caches the two counts; row numbers arrive as  *)
(* 64-bit integers and are compared as int; libpq answers for rows and     *)
(* fields that do not exist, and for a result that is gone.                *)
(***************************************************************************)
EXTENDS Integers, FiniteSets

CONSTANTS
  MaxRows,    \* bound: rows of a result
  MaxFields,  \* bound: fields of a result
  IntBits,    \* width of int
  RowNumbers  \* 64-bit row and field numbers that scripts pass

ASSUME ResultAssumption ==
  /\ MaxRows \in Nat
  /\ MaxFields \in Nat
  /\ IntBits \in Nat \ {0}
  /\ MaxRows < 2^(IntBits - 1)
  /\ MaxFields < 2^(IntBits - 1)
  /\ RowNumbers \subseteq Int

VARIABLES
  tuples,         \* rows of the PGresult
  nfields,        \* fields of the PGresult
  m_res,          \* whether the PGresult is still there
  m_num_rows,     \* cached count, or -1
  m_num_fields,   \* cached count, or -1
  m_current_row,
  freed,          \* pg_free_result has been called
  answer          \* what the last call was asked and what it gave

resultVars == <<tuples, nfields>>
countVars  == <<m_num_rows, m_num_fields>>
vars == <<resultVars, countVars, m_res, m_current_row, freed, answer>>

-----------------------------------------------------------------------------
(* Arguments and answers *)

Null == [is |-> "null", n |-> 0]

RowArgument == [is : {"number"}, n : RowNumbers] \cup {Null}

\* The name n is that of field n, or of no field.
FieldArgument == RowArgument \cup [is : {"name"}, n : 0..MaxFields]

None == -1

\* rows are the rows whose values an answer holds; data tells values from the
\* NULLs that libpq gives for what does not exist.
Answer ==
  [kind : {"fail", "walk", "row", "all", "cell", "field", "size", "count",
           "seek"},
   row : RowArgument, field : FieldArgument,
   rows : SUBSET (0..MaxRows), column : {None} \cup 0..MaxFields, data : BOOLEAN]

Fails == [kind |-> "fail", row |-> Null, field |-> Null, rows |-> {},
          column |-> None, data |-> FALSE]

TypeOK ==
  /\ tuples \in 0..MaxRows
  /\ nfields \in 0..MaxFields
  /\ m_res \in BOOLEAN
  /\ m_num_rows \in {-1, 0, tuples}
  /\ m_num_fields \in {-1, 0, nfields}
  /\ m_current_row \in 0..tuples
  /\ freed \in BOOLEAN
  /\ answer \in Answer

Init ==
  /\ tuples \in 0..MaxRows
  /\ nfields \in 0..MaxFields
  /\ m_res = TRUE
  /\ m_num_rows = -1
  /\ m_num_fields = -1
  /\ m_current_row = 0
  /\ freed = FALSE
  /\ answer = Fails

-----------------------------------------------------------------------------
(* libpq, which takes a null PGresult for an empty one *)

PQntuples == IF m_res THEN tuples ELSE 0
PQnfields == IF m_res THEN nfields ELSE 0

\* PQfname, PQftable and PQftype know the field.
HasField(f) == f < PQnfields

\* An unknown name has the number -1.
PQfnumber(name) == IF HasField(name) THEN name ELSE -1

\* PQgetisnull is true of all other cells.
HasCell(r, f) == r < PQntuples /\ f < PQnfields

-----------------------------------------------------------------------------
(* Helpers of PGSQLResult *)

\* Conversion of a 64-bit number to int.
ToInt32(x) == ((x + 2^(IntBits - 1)) % 2^IntBits) - 2^(IntBits - 1)

RowCount   == IF m_num_rows = -1 THEN PQntuples ELSE m_num_rows
FieldCount == IF m_num_fields = -1 THEN PQnfields ELSE m_num_fields

getNumRows   == m_num_rows' = RowCount
getNumFields == m_num_fields' = FieldCount

getFieldNumber(field) ==
  CASE field.is = "number" -> ToInt32(field.n)
    [] field.is = "name"   -> PQfnumber(field.n)
    [] field.is = "null"   -> -1

\* Mutant: a row number one too large passes.
MutantConvertFieldRow(row, field) ==
  LET r == ToInt32(row.n)
      f == getFieldNumber(field)
  IN  /\ m_num_fields' = FieldCount
      /\ m_num_rows' = RowCount
      /\ answer' = IF f \in 0..(FieldCount - 1) /\ r \in 0..RowCount
                   THEN [kind |-> "cell", row |-> row, field |-> field,
                         rows |-> {r}, column |-> f, data |-> m_res]
                   ELSE Fails

\* A field that is left out is null, not uninitialized, and has no number: the
\* branch that would use the cursor is never taken.  A count is only asked for
\* when the tests before it have passed.
convertFieldRow(row, field) ==
  LET r == ToInt32(row.n)
      f == getFieldNumber(field)
      fieldFits == f \in 0..(FieldCount - 1)
  IN  /\ IF f >= 0 THEN getNumFields ELSE UNCHANGED m_num_fields
      /\ IF fieldFits /\ r >= 0 THEN getNumRows ELSE UNCHANGED m_num_rows
      /\ answer' = IF fieldFits /\ r \in 0..(RowCount - 1)
                   THEN [kind |-> "cell", row |-> row, field |-> field,
                         rows |-> {r}, column |-> f, data |-> HasCell(r, f)]
                   ELSE Fails

\* The values of whole rows, or of one column of them.
GivesRows(kind, row, rows, column) ==
  answer' = [kind |-> kind, row |-> row, field |-> Null, rows |-> rows,
             column |-> column, data |-> m_res /\ rows # {} /\ PQnfields > 0]

-----------------------------------------------------------------------------
(* Fetching *)

\* pg_fetch_array, pg_fetch_assoc and pg_fetch_row without a row number.
FetchNext ==
  /\ getNumRows
  /\ IF m_current_row < RowCount
     THEN /\ m_current_row' = m_current_row + 1
          /\ getNumFields
          /\ GivesRows("walk", Null, {m_current_row}, None)
     ELSE /\ answer' = Fails
          /\ UNCHANGED <<m_current_row, m_num_fields>>
  /\ UNCHANGED <<resultVars, m_res, freed>>

\* Mutant: the cursor moves to the row after it.
MutantFetchRow(row) ==
  LET r == ToInt32(row.n)
  IN  /\ getNumRows
      /\ IF r \in 0..(RowCount - 1)
         THEN /\ m_current_row' = r + 1
              /\ getNumFields
              /\ GivesRows("row", row, {r}, None)
         ELSE /\ answer' = Fails
              /\ UNCHANGED <<m_current_row, m_num_fields>>
      /\ UNCHANGED <<resultVars, m_res, freed>>

\* The same functions with a row number; the cursor stays.
FetchRow(row) ==
  LET r == ToInt32(row.n)
  IN  /\ IF r >= 0 THEN getNumRows ELSE UNCHANGED m_num_rows
      /\ IF r \in 0..(RowCount - 1)
         THEN getNumFields /\ GivesRows("row", row, {r}, None)
         ELSE answer' = Fails /\ UNCHANGED m_num_fields
      /\ UNCHANGED <<resultVars, m_res, m_current_row, freed>>

\* pg_fetch_all: every row by its number.
FetchAll ==
  /\ getNumRows
  /\ IF RowCount = 0
     THEN answer' = Fails /\ UNCHANGED m_num_fields
     ELSE getNumFields /\ GivesRows("all", Null, 0..(RowCount - 1), None)
  /\ UNCHANGED <<resultVars, m_res, m_current_row, freed>>

\* pg_fetch_all_columns
FetchAllColumns(column) ==
  /\ IF column >= 0 THEN getNumFields ELSE UNCHANGED m_num_fields
  /\ IF column \in 0..(FieldCount - 1)
     THEN getNumRows /\ GivesRows("all", Null, 0..(RowCount - 1), column)
     ELSE answer' = Fails /\ UNCHANGED m_num_rows
  /\ UNCHANGED <<resultVars, m_res, m_current_row, freed>>

\* pg_fetch_result, pg_field_is_null, pg_field_prtlen
FetchResult(row, field) ==
  /\ convertFieldRow(row, field)
  /\ UNCHANGED <<resultVars, m_res, m_current_row, freed>>

-----------------------------------------------------------------------------
(* Fields *)

\* An answer about field f itself, if libpq knows it.
AboutField(kind, f) ==
  answer' = [kind |-> kind, row |-> Null, field |-> Null, rows |-> {},
             column |-> f, data |-> HasField(f)]

FieldName(n) ==
  /\ IF n >= 0 THEN getNumFields ELSE UNCHANGED m_num_fields
  /\ IF n \in 0..(FieldCount - 1) /\ HasField(n)
     THEN AboutField("field", n)
     ELSE answer' = Fails
  /\ UNCHANGED <<resultVars, m_res, m_num_rows, m_current_row, freed>>

FieldNum(name) ==
  /\ IF HasField(name) THEN AboutField("field", PQfnumber(name)) ELSE answer' = Fails
  /\ UNCHANGED <<resultVars, countVars, m_res, m_current_row, freed>>

\* pg_field_size accepts the number behind the last field, and answers with the
\* 0 that PQfsize gives for a field it does not know.
FieldSize(n) ==
  /\ IF n >= 0 THEN getNumFields ELSE UNCHANGED m_num_fields
  /\ IF n \in 0..FieldCount THEN AboutField("size", n) ELSE answer' = Fails
  /\ UNCHANGED <<resultVars, m_res, m_num_rows, m_current_row, freed>>

\* Mutant: the test for InvalidOid is left out.
MutantFieldType(n) ==
  /\ IF n >= 0 THEN getNumFields ELSE UNCHANGED m_num_fields
  /\ IF n \in 0..FieldCount THEN AboutField("field", n) ELSE answer' = Fails
  /\ UNCHANGED <<resultVars, m_res, m_num_rows, m_current_row, freed>>

\* pg_field_table, pg_field_type_oid and pg_field_type accept it too, but libpq
\* has no Oid for it.  The name comes from a query that may fail.
FieldType(n) ==
  /\ IF n >= 0 THEN getNumFields ELSE UNCHANGED m_num_fields
  /\ \/ n \in 0..FieldCount /\ HasField(n) /\ AboutField("field", n)
     \/ answer' = Fails
  /\ UNCHANGED <<resultVars, m_res, m_num_rows, m_current_row, freed>>

-----------------------------------------------------------------------------
(* Counts, cursor, release *)

\* A count or TRUE, which is no data of the result.
Gives(kind) == answer' = [Fails EXCEPT !.kind = kind]

NumFields ==
  /\ getNumFields
  /\ Gives("count")
  /\ UNCHANGED <<resultVars, m_res, m_num_rows, m_current_row, freed>>

NumRows ==
  /\ getNumRows
  /\ Gives("count")
  /\ UNCHANGED <<resultVars, m_res, m_num_fields, m_current_row, freed>>

\* Mutant: no upper bound.
MutantResultSeek(offset) ==
  /\ getNumRows
  /\ Gives("seek")
  /\ m_current_row' = IF offset >= 0 THEN offset ELSE m_current_row
  /\ UNCHANGED <<resultVars, m_res, m_num_fields, freed>>

\* The offset is compared before it is cut to an int.
ResultSeek(offset) ==
  /\ IF offset >= 0 THEN getNumRows ELSE UNCHANGED m_num_rows
  /\ IF offset \in 0..RowCount
     THEN Gives("seek") /\ m_current_row' = offset
     ELSE answer' = Fails /\ UNCHANGED m_current_row
  /\ UNCHANGED <<resultVars, m_res, m_num_fields, freed>>

\* pg_free_result: the counts and the cursor are left as they are.
FreeResult ==
  /\ m_res' = FALSE
  /\ freed' = TRUE
  /\ answer' = Fails
  /\ UNCHANGED <<resultVars, countVars, m_current_row>>

Next ==
  \/ FetchNext
  \/ FetchAll
  \/ NumFields
  \/ NumRows
  \/ FreeResult
  \/ \E n \in RowNumbers :
       \/ FetchRow([is |-> "number", n |-> n])
       \/ FetchAllColumns(n)
       \/ FieldName(n)
       \/ FieldSize(n)
       \/ FieldType(n)
       \/ ResultSeek(n)
  \/ \E row \in RowArgument, field \in FieldArgument : FetchResult(row, field)
  \/ \E name \in 0..MaxFields : FieldNum(name)

Spec == Init /\ [][Next]_vars

-----------------------------------------------------------------------------
(* Safety *)

\* CellAsAsked: an answer with values is about rows and a field that exist, and
\* about the row and the field that were asked for, as long as their numbers
\* fit an int (a larger one is cut and may name another row).
CellAsAsked ==
  LET FitsInt(arg) == arg.is = "number" /\ ToInt32(arg.n) = arg.n
  IN  /\ answer.rows # {} /\ ~freed =>
           /\ answer.rows \subseteq 0..(tuples - 1)
           /\ answer.column < nfields
      /\ answer.kind \in {"row", "cell"} /\ FitsInt(answer.row) =>
           answer.rows = {answer.row.n}
      /\ answer.kind = "cell" /\ FitsInt(answer.field) => answer.column = answer.field.n

\* OnlyWhatExists: after pg_free_result no function gives a value, a name or a
\* type, although the cached counts still let calls through; and although the
\* functions for tables and types compare with one more than the last field, they
\* answer for no field that is not there.  pg_field_size does: of the number
\* behind the last field, and of a result that was freed, it says what libpq says
\* of an unknown field, and nowhere else.
OnlyWhatExists ==
  /\ freed => ~answer.data
  /\ answer.kind = "field" => answer.column \in 0..(nfields - 1) /\ ~freed
  /\ answer.kind = "size" =>
       /\ answer.column \in 0..nfields
       /\ answer.data <=> answer.column < nfields /\ ~freed

\* The cursor of the result keeps the promise of RowCursor, with the rows its
\* caches still count.
Cursor == INSTANCE RowCursor WITH
            rows     <- RowCount,
            position <- m_current_row,
            call     <- CASE answer.kind = "walk" -> "give"
                          [] answer.kind = "seek" -> "seek"
                          [] OTHER                -> "other",
            given    <- IF answer.kind = "walk"
                        THEN CHOOSE r \in answer.rows : TRUE
                        ELSE -1

ImplementsCursor == Cursor!Spec

=============================================================================
