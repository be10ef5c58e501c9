--------------------------- MODULE MCPGSQLResource ---------------------------
(* Instances of PGSQLResource for TLC. *)
EXTENDS PGSQLResource, TLC

Symmetry == Permutations(Requests) \cup Permutations(Links)
            \cup Permutations(Results) \cup Permutations(Conns)

=============================================================================
