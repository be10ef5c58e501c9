----------------------------- MODULE MCPoolStat -----------------------------
(* Instances of PoolStat for TLC. *)
EXTENDS PoolStat

NoMaximum == -1

=============================================================================
