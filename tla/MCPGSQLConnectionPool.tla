----------------------- MODULE MCPGSQLConnectionPool -----------------------
(* Instances of PGSQLConnectionPool for TLC. *)
EXTENDS PGSQLConnectionPool, TLC

\* GetPool never passes a maximum, so the constructor's default holds.
NoMaximum == -1

\* Threads and connections are interchangeable; used in safety runs only.
Symmetry == Permutations(Threads) \cup Permutations(Conns)

=============================================================================
