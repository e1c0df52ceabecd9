------------------------ MODULE CardanoObservations ------------------------
(***************************************************************************)
(* Positions on Cardano and the kinds of cNIGHT events observed there      *)
(* (primitives/cnight-observation).                                        *)
(***************************************************************************)
EXTENDS Integers

Kinds == {"Registration", "Deregistration", "AssetCreate", "AssetSpend"}

(* A position is ordered by block and then by index in the block; its hash
   and timestamp do not take part in the comparison. *)
CardanoPosition == [block : Nat, tx : Nat]

AtOrAfter(p, q) == p.block > q.block \/ (p.block = q.block /\ p.tx >= q.tx)

increment(p) == [p EXCEPT !.tx = @ + 1]
=============================================================================
