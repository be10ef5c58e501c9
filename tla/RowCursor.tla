------------------------------ MODULE RowCursor ------------------------------
(***************************************************************************)
(* What the rows of a result promise to a script that fetches them without *)
(* naming a row: each row once and in order from where the cursor stands,  *)
(* whatever else the script asks of the result in between.                 *)
(***************************************************************************)
EXTENDS Integers

VARIABLES
  rows,      \* number of rows there are to give
  position,  \* the row that comes next
  call,      \* the last call: "give", "seek" or "other"
  given      \* the row it gave, or -1

vars == <<rows, position, call, given>>

Init ==
  /\ rows \in Nat
  /\ position = 0
  /\ call = "other"
  /\ given = -1

Give ==
  /\ position < rows
  /\ call' = "give"
  /\ given' = position
  /\ position' = position + 1
  /\ UNCHANGED rows

\* The cursor may stand behind the last row, but not beyond that.
Seek(offset) ==
  /\ offset <= rows
  /\ call' = "seek"
  /\ position' = offset
  /\ given' = -1
  /\ UNCHANGED rows

\* Any other call leaves the cursor alone; one of them gives up the rows.
Other ==
  /\ call' = "other"
  /\ given' = -1
  /\ rows' \in {0, rows}
  /\ UNCHANGED position

Next == Give \/ Other \/ \E offset \in 0..rows : Seek(offset)

Spec == Init /\ [][Next]_vars

=============================================================================
