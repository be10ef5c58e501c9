---------------------------- MODULE MCAsyncQuery ----------------------------
(* Instances of AsyncQuery for TLC. *)
EXTENDS AsyncQuery, TLC

\* Borrowers are interchangeable; used in safety runs only.
Symmetry == Permutations(Borrowers)

=============================================================================
