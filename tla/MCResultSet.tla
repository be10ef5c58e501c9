----------------------------- MODULE MCResultSet -----------------------------
(* Instances of ResultSet for TLC. *)
EXTENDS ResultSet

\* Around the bounds of the rows, and around 2^IntBits, where int wraps.
SomeNumbers == -2..9

=============================================================================
