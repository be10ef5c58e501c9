------------------ MODULE MCPGSQLConnectionPoolContainer ------------------
(* Instances of PGSQLConnectionPoolContainer for TLC. *)
EXTENDS PGSQLConnectionPoolContainer, TLC

\* Everything but the distinguished values is interchangeable.
Symmetry == Permutations(Threads) \cup Permutations(Strings)
            \cup Permutations(Pools) \cup Permutations(Conns)

=============================================================================
