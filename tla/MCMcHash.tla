------------------------------ MODULE MCMcHash ------------------------------
(* McHash with two nodes, one confirmation and a block every other tick. *)
EXTENDS McHash, TLC

CONSTANTS a, b

MCNodes == {a, b}
Symmetry == Permutations(MCNodes)

=============================================================================
