------------------------ MODULE MCBridgeObservation ------------------------
(* A user's transfer, one below the minimum, one of the reserve together
   with one to nobody (two transfers), and a withdrawal. *)
EXTENDS BridgeObservation

Shape(bi, bo, ri, ro, recipient) ==
    [bridge_in |-> bi, bridge_out |-> bo, reserve_in |-> ri, reserve_out |-> ro,
     recipient |-> recipient]

MCShapes == {Shape(0, 2, 0, 0, "alice"), Shape(1, 2, 0, 0, "alice"),
             Shape(0, 3, 3, 1, "Invalid"), Shape(2, 1, 0, 0, "Invalid")}

(* Nothing, or one transaction more than an answer can hold. *)
MCBacklogs == {<<>>, [i \in 1..3 |-> Shape(0, 2, 0, 0, "alice")]}

MCHashes == 2..4
MCRecipients == {"alice"}
MCCheckpoints == {AtTx(h) : h \in 1..4} \union {AtBlock(b) : b \in 1..MaxBlocks}
=============================================================================
