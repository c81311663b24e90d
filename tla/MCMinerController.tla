-------------------------- MODULE MCMinerController ------------------------
(* MinerController on small instances, its threads interchangeable.         *)
EXTENDS MinerController, TLC

Symmetry == Permutations(Threads)
=============================================================================
