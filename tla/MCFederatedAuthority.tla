------------------------ MODULE MCFederatedAuthority ------------------------
(* Model-checking instance of FederatedAuthority: two bodies as in the runtime
   and two calls, long enough for a motion to end, be removed and come back. *)
EXTENDS FederatedAuthority, TLC

Symmetry == Permutations(Bodies) \union Permutations(Calls)
=============================================================================
