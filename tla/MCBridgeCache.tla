---------------------------- MODULE MCBridgeCache ----------------------------
(* Five transactions, two blocks with two each, and one of other scripts. *)
EXTENDS BridgeCache, TLC

CONSTANTS s1, s2

Tx(block, ix, hash, scripts, reserve) ==
    [block |-> block, ix |-> ix, hash |-> hash, scripts |-> scripts, recipient |-> "Invalid",
     bridge_in |-> 0, bridge_out |-> 2, reserve_in |-> reserve, reserve_out |-> 0]

MCTxs == <<Tx(1, 0, 1, s1, 0), Tx(2, 0, 2, s1, 0), Tx(2, 1, 3, s1, 1),
           Tx(3, 0, 4, s2, 0), Tx(3, 1, 5, s1, 2)>>
MCTimes == <<1, 2, 4, 5>>
Symmetry == Permutations(Readers)
=============================================================================
