---------------------------- MODULE MC_Preparation ----------------------------
(* Preparation with symmetric processes and issuers. *)
EXTENDS Preparation, TLC

Symmetry == Permutations(Preparers) \cup Permutations(Lives) \cup Permutations(Issuers)
=============================================================================
