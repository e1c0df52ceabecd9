----------------------- MODULE MCSlidingWindowCache -----------------------
(* Four Cardano blocks with a row in each, two in block 2; other addresses
   have a row before genesis only. *)
EXTENDS SlidingWindowCache, TLC

RowAt(b, t, kind) == [pos |-> [block |-> b, tx |-> t], usable |-> TRUE, utxo |-> [kind |-> kind]]

MCTxCounts == <<1, 2, 1, 1>>

MCRows == <<RowAt(1, 0, "Registration"), RowAt(2, 0, "AssetCreate"), RowAt(2, 1, "AssetCreate"),
            RowAt(3, 0, "AssetSpend"), RowAt(4, 0, "AssetCreate")>>

MCDbRows == [c \in Configs |-> IF c = CacheConfig THEN MCRows ELSE SubSeq(MCRows, 1, 1)]

Symmetry == Permutations(Readers)
=============================================================================
