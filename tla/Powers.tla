------------------------------- MODULE Powers -------------------------------
(***************************************************************************)
(* The powers of two that limbs, bytes, words and trees are made of.        *)
(***************************************************************************)
EXTENDS Integers

Pow2[n \in Nat] == IF n = 0 THEN 1 ELSE 2 * Pow2[n - 1]
=============================================================================
