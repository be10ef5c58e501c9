--------------------------- MODULE MCPDOStatement ---------------------------
(* Instances of PDOStatement for TLC. *)
EXTENDS PDOStatement

=============================================================================
