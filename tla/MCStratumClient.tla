-------------------------- MODULE MCStratumClient --------------------------
(* StratumClient on small instances: two shares, interchangeable.           *)
EXTENDS StratumClient, TLC

Symmetry == Permutations(Shares)

NeverStopped == ~stopRequested
=============================================================================
