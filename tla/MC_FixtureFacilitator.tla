------------------------- MODULE MC_FixtureFacilitator -------------------------
(* FixtureFacilitator with symmetric calls. *)
EXTENDS FixtureFacilitator, TLC

Symmetry == Permutations(Calls)
=============================================================================
