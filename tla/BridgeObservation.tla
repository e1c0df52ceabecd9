-------------------------- MODULE BridgeObservation --------------------------
(***************************************************************************)
(* The Cardano bridge end to end: Cardano as db-sync shows it, the data    *)
(* source, the inherent of every block, the pallets and the governance     *)
(* calls that configure them.                                              *)
(***************************************************************************)
EXTENDS C2MBridge, BridgeDataSource

CONSTANTS GenesisScripts,
          Shapes,             \* amounts and recipient of a Cardano transaction
          Backlogs,           \* sequences of them that precede the first block
          MinAmounts,         \* c_to_m_bridge_min_amount, 0 for a failed read
          Thresholds,
          MaxTxs, MaxBlocks,  \* bounds on Cardano
          MaxChanges,         \* bound on changes of the scripts
          MaxGrants           \* bound on approvals of one hash

VARIABLES
    txs,        \* transactions of Cardano, in order
    blocks,     \* number of the Cardano block still being filled in
    reference,  \* Cardano block the last Midnight block refers to
    begun,      \* the inherents of the current block were executed
    since,      \* history: the checkpoint that the scripts were configured with
    handled,    \* history: transfers handled since then
    changes     \* history: how often the scripts were configured

envVars == <<txs, blocks, reference, begun, since, handled, changes>>
vars == <<palletVars, envVars>>

-----------------------------------------------------------------------------
(* Cardano (external).  What happens on it while a call executes makes no   *)
(* difference to the call.                                                  *)

Ixs == {txs[i].ix : i \in {j \in DOMAIN txs : txs[j].block = blocks}}

Tx(block, ix, hash, s, shape) ==
    [block |-> block, ix |-> ix, hash |-> hash, scripts |-> s, recipient |-> shape.recipient,
     bridge_in |-> shape.bridge_in, bridge_out |-> shape.bridge_out,
     reserve_in |-> shape.reserve_in, reserve_out |-> shape.reserve_out]

CardanoTx ==
    /\ call = None
    /\ Len(txs) < MaxTxs
    /\ blocks < MaxBlocks
    /\ \E shape \in Shapes, s \in Scripts :
          txs' = Append(txs, Tx(blocks, Cardinality(Ixs), Len(txs) + 1, s, shape))
    /\ UNCHANGED <<palletVars, blocks, reference, begun, since, handled, changes>>

CardanoBlock ==
    /\ call = None
    /\ blocks < MaxBlocks
    /\ blocks' = blocks + 1
    /\ UNCHANGED <<palletVars, txs, reference, begun, since, handled, changes>>

-----------------------------------------------------------------------------
(* A Midnight block: the inherent, then the calls of governance. *)

IsInert == scripts = None \/ checkpoint = None

Inherent(to_block) == get_transfers(txs, scripts, checkpoint, to_block)

(* The provider of the inherent reads the parent's state and is inert until
   the bridge is configured; else the call is required and has to be equal to
   what everybody works out. *)
BuildBlock(to_block) ==
    /\ call = None
    /\ ~begun
    /\ to_block >= reference
    /\ to_block < blocks
    /\ IF IsInert THEN UNCHANGED palletVars
       ELSE HandleTransfers(Inherent(to_block).transfers, Inherent(to_block).checkpoint)
    /\ begun' = TRUE
    /\ reference' = to_block
    /\ UNCHANGED <<txs, blocks, since, handled, changes>>

Execute ==
    \/ /\ \E min_amount \in MinAmounts, ok \in BOOLEAN : HandleTransfer(min_amount, ok)
       /\ handled' = Append(handled, Head(call.transfers))
       /\ UNCHANGED <<txs, blocks, reference, begun, since, changes>>
    \/ HandleTransfersEnd /\ UNCHANGED envVars

(* Governance points the bridge at known transactions and blocks. *)
KnownCheckpoints ==
    {AtBlock(b) : b \in 1..reference}
        \union {AtTx(txs[i].hash) : i \in {j \in DOMAIN txs : txs[j].block <= reference}}

ConfigureScripts ==
    /\ begun
    /\ changes < MaxChanges
    /\ \E s \in Scripts, c \in KnownCheckpoints :
          set_main_chain_scripts(s, c) /\ since' = c
    /\ handled' = <<>>
    /\ changes' = changes + 1
    /\ UNCHANGED <<txs, blocks, reference, begun>>

ConfigureThreshold ==
    /\ begun
    /\ \E config \in Thresholds \ {threshold} : set_subminimal_transfers_config(config)
    /\ UNCHANGED envVars

(* Governance approves transactions it sees on Cardano, stable or not. *)
Approve ==
    /\ begun
    /\ \E h \in Hashes \intersect {txs[i].hash : i \in DOMAIN txs} :
          store.granted[h] < MaxGrants /\ add_approved_mc_tx_hashes({h})
    /\ UNCHANGED envVars

FinishBlock ==
    /\ begun
    /\ OnFinalize
    /\ begun' = FALSE
    /\ UNCHANGED <<txs, blocks, reference, since, handled, changes>>

(* The genesis checkpoint is a transaction that moves no token. *)
GenesisTx ==
    Tx(1, 0, 1, GenesisScripts, [recipient |-> "Invalid", bridge_in |-> 0, bridge_out |-> 0,
                                 reserve_in |-> 0, reserve_out |-> 0])

(* Cardano has moved on since then when the first block is built. *)
Init ==
    /\ \E backlog \in Backlogs :
          txs = <<GenesisTx>> \o [i \in DOMAIN backlog |->
                                    Tx(1, i, i + 1, GenesisScripts, backlog[i])]
    /\ blocks = 2
    /\ reference = 1
    /\ begun = FALSE
    /\ since = AtTx(1)
    /\ handled = <<>>
    /\ changes = 0
    /\ \E s \in {GenesisScripts, None}, c \in {AtTx(1), None}, config \in Thresholds :
          InitPallets(s, c, config, {})

Next ==
    \/ CardanoTx
    \/ CardanoBlock
    \/ \E to_block \in 1..MaxBlocks : BuildBlock(to_block)
    \/ Execute
    \/ ConfigureScripts
    \/ ConfigureThreshold
    \/ Approve
    \/ FinishBlock

Spec == Init /\ [][Next]_vars

(* What BuildBlock(blocks - 1) does to the block. *)
BuildsOnLatest == ~begun /\ begun' = TRUE /\ reference' = blocks - 1

(* Blocks are produced for ever, and again and again by an author that refers
   to the latest stable block of Cardano. *)
LiveSpec ==
    /\ Spec
    /\ WF_vars(Execute)
    /\ WF_vars(FinishBlock)
    /\ SF_begun(BuildsOnLatest)

-----------------------------------------------------------------------------
Between(from, to) ==
    SelectSeq(txs, LAMBDA tx : /\ IsBridgeTx(tx, scripts)
                               /\ IsAfter(txs, tx, from)
                               /\ ~IsAfter(txs, tx, to))

(***************************************************************************)
(* Every transfer exactly once and in the order of Cardano: since the      *)
(* scripts were configured, the pallet has handled the transfers of the    *)
(* transactions up to its checkpoint and no other, however the limit of a  *)
(* block cut the answers of the data source.                               *)
(***************************************************************************)
TransfersAreHandledOnce ==
    call = None /\ ~IsInert => handled = TransfersOf(Between(since, checkpoint))

(***************************************************************************)
(* The `expect' of create_inherent holds: an answer of the data source is  *)
(* never longer than MaxTransfersPerBlock.                                 *)
(***************************************************************************)
InherentFits ==
    call = None /\ ~IsInert =>
        \A to_block \in reference..(blocks - 1) : Len(Inherent(to_block).transfers) <= MaxTransfers

Waits(i) ==
    /\ i \in DOMAIN txs
    /\ txs[i].block < blocks
    /\ ~IsInert
    /\ IsBridgeTx(txs[i], scripts)
    /\ IsAfter(txs, txs[i], checkpoint)

(***************************************************************************)
(* No bridge transaction of a stable block stays ahead of the checkpoint   *)
(* for ever: the pallet's documentation promises that all transfers beyond *)
(* the limit of a block are processed in subsequent ones.                  *)
(***************************************************************************)
EveryTransferIsHandled == \A i \in Hashes : []<>~Waits(i)
=============================================================================
