------------------------ MODULE MCCommitteeSelection ------------------------
(* Account a may change its key, and sit with two at once; c claims its first. *)
EXTENDS CommitteeSelection

A1 == [id |-> "a", key |-> "k1"]
A2 == [id |-> "a", key |-> "k2"]
B == [id |-> "b", key |-> "k3"]
C == [id |-> "c", key |-> "k1"]

MCMembers == {A1, A2, B, C}
MCCommittees == {<<A1, B>>, <<B, A2, A1, B>>, <<C, A1>>}
MCGenesis == <<A1, B>>
=============================================================================
