------------------------- MODULE MCCNightObservation -------------------------
(* The cNIGHT observation pipeline on a small Cardano chain. *)
EXTENDS CNightObservation

Symmetry == Permutations(ValidKeys)
=============================================================================
