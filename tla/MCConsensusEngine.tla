-------------------------- MODULE MCConsensusEngine --------------------------
(* ConsensusEngine on epochs of three slots and committees of two or three. *)
EXTENDS ConsensusEngine

MCSizes == {2, 3}

=============================================================================
