-------------------------- MODULE BridgeDataSource --------------------------
(***************************************************************************)
(* What the db-sync data source of the Cardano bridge answers: the         *)
(* transactions between a checkpoint and a Cardano block, turned into      *)
(* transfers, and the checkpoint to continue from.                         *)
(*                                                                         *)
(* A transaction is a record: its block and its index in the block, its    *)
(* hash, the scripts at whose addresses it moves the token, the amounts at *)
(* the bridge address and at the reserve address that it consumes and      *)
(* produces, and the recipient its metadata names.                         *)
(***************************************************************************)
EXTENDS Naturals, Sequences, SequencesExt, FiniteSetsExt

CONSTANT MaxTransfers   \* max_transfers: MaxTransfersPerBlock of the pallet

(* No transaction makes more than two transfers, and the runtime allows 256. *)
ASSUME MaxTransfersAssumption == MaxTransfers \in Nat \ {0, 1}

AtTx(hash) == [kind |-> "Tx", hash |-> hash]
AtBlock(number) == [kind |-> "Block", number |-> number]

(* get_block_info_for_tx_hash *)
TxOf(txs, hash) == txs[CHOOSE i \in DOMAIN txs : txs[i].hash = hash]

Precedes(a, b) == a.block < b.block \/ (a.block = b.block /\ a.ix < b.ix)

IsAfter(txs, tx, checkpoint) ==
    \/ checkpoint.kind = "Block" /\ tx.block > checkpoint.number
    \/ checkpoint.kind = "Tx" /\ Precedes(TxOf(txs, checkpoint.hash), tx)

(* Transactions with an output at the bridge address that lock tokens there
   or take some out of the reserve. *)
IsBridgeTx(tx, scripts) ==
    /\ tx.scripts = scripts
    /\ tx.bridge_out > 0
    /\ tx.bridge_out > tx.bridge_in \/ tx.reserve_in > tx.reserve_out

get_bridge_txs(txs, scripts, checkpoint, to_block) ==
    SelectSeq(txs, LAMBDA tx : /\ IsBridgeTx(tx, scripts)
                               /\ tx.block <= to_block
                               /\ IsAfter(txs, tx, checkpoint))

FirstRows(txs) == SubSeq(txs, 1, Min({MaxTransfers, Len(txs)}))

-----------------------------------------------------------------------------
saturating_sub(a, b) == IF a > b THEN a - b ELSE 0

(* What left the reserve went to the bridge address; the rest of the surplus
   there was locked by a user. *)
tx_to_transfers(tx) ==
    LET reserve_debit == saturating_sub(tx.reserve_in, tx.reserve_out)
        ics_credit == saturating_sub(tx.bridge_out, tx.bridge_in)
        transfer(amount, recipient) ==
            [mc_tx_hash |-> tx.hash, amount |-> amount, recipient |-> recipient]
    IN  SelectSeq(<<transfer(reserve_debit, "Reserve"),
                    transfer(saturating_sub(ics_credit, reserve_debit), tx.recipient)>>,
                  LAMBDA t : t.amount > 0)

TransfersOf(txs) == FlattenSeq([i \in DOMAIN txs |-> tx_to_transfers(txs[i])])

Fits_one_more(txs, n) == Len(TransfersOf(SubSeq(txs, 1, n))) <= MaxTransfers + 1

Fits(txs, n) == Len(TransfersOf(SubSeq(txs, 1, n))) <= MaxTransfers

(* Only whole transactions are accepted.  When the limit is reached the next
   query continues after the last one, else after the block of this query. *)
txs_to_transfers_unless_cut(txs, bound) ==
    LET n == Max({m \in 0..Len(txs) : Fits(txs, m)})
    IN  [transfers |-> TransfersOf(SubSeq(txs, 1, n)),
         checkpoint |-> IF n < Len(txs) /\ n > 0 THEN AtTx(txs[n].hash)
                       ELSE AtBlock(bound)]

txs_to_transfers(txs, bound) ==
    LET n == Max({m \in 0..Len(txs) : Fits(txs, m)})
        transfers == TransfersOf(SubSeq(txs, 1, n))
        full == n < Len(txs) \/ Len(transfers) = MaxTransfers
    IN  [transfers |-> transfers,
         checkpoint |-> IF full /\ n > 0 THEN AtTx(txs[n].hash) ELSE AtBlock(bound)]

get_transfers_all_or_nothing(txs, scripts, checkpoint, to_block) ==
    LET found == get_bridge_txs(txs, scripts, checkpoint, to_block)
    IN  IF Len(TransfersOf(found)) > MaxTransfers
        THEN [transfers |-> <<>>, checkpoint |-> checkpoint]
        ELSE txs_to_transfers(found, to_block)

(* TokenBridgeDataSourceImpl::get_transfers *)
get_transfers(txs, scripts, checkpoint, to_block) ==
    txs_to_transfers(FirstRows(get_bridge_txs(txs, scripts, checkpoint, to_block)), to_block)
=============================================================================
