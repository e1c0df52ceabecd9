------------------------------ MODULE C2MBridge ------------------------------
(***************************************************************************)
(* The two bridge pallets: pallet_partner_chains_bridge, which is handed   *)
(* the transfers of a block and keeps the checkpoint, and                  *)
(* pallet_c2m_bridge, which turns every transfer into a system transaction *)
(* of the ledger.                                                          *)
(***************************************************************************)
EXTENDS Naturals, Sequences

CONSTANTS Hashes,       \* hashes of Cardano transactions
          Recipients,   \* addresses a transfer may name
          Scripts,      \* main-chain scripts governance may configure
          Checkpoints,
          None

ASSUME BridgeAssumption ==
    /\ {"Reserve", "Invalid"} \cap Recipients = {}
    /\ None \notin Scripts \union Checkpoints

Transfer == [mc_tx_hash : Hashes, amount : Nat, recipient : Recipients \union {"Reserve", "Invalid"}]

VARIABLES
    scripts,     \* MainChainScriptsConfiguration
    checkpoint,  \* DataCheckpoint
    threshold,   \* SubminimalTransfersConfiguration
    executed,    \* InherentExecutedThisBlock
    call,        \* the handle_transfers in execution: transfers left, new checkpoint
    store        \* storage of pallet_c2m_bridge and the ledger

palletVars == <<scripts, checkpoint, threshold, executed, call, store>>

(***************************************************************************)
(* approved, count, sum and counter are ApprovedMcTxHashes, the two parts  *)
(* of SubminimalTransfers, and TransferCounter.  users, treasury and       *)
(* reserve are what the ledger has unlocked for each.  The rest is         *)
(* history: the amounts received and the amounts of failed system          *)
(* transactions, how often a hash was approved and how often an approval   *)
(* was spent, and the counters hashed into a nonce under this parent hash. *)
(***************************************************************************)
Storage == [approved : SUBSET Hashes, count : Nat, sum : Nat, counter : Nat,
            users : Nat, treasury : Nat, reserve : Nat,
            received : Nat, failed : Nat,
            granted : [Hashes -> Nat], spent : [Hashes -> Nat],
            nonces : SUBSET Nat, reused : BOOLEAN]

-----------------------------------------------------------------------------
(* System transactions: constructing or executing one may fail, which is   *)
(* only logged.                                                            *)

Failed(s, amount) == [s EXCEPT !.failed = s.failed + amount]

unlock_to_treasury(s, amount, ok) ==
    IF ok THEN [s EXCEPT !.treasury = s.treasury + amount] ELSE Failed(s, amount)

distribute_reserve(s, amount, ok) ==
    IF ok THEN [s EXCEPT !.reserve = s.reserve + amount] ELSE Failed(s, amount)

distribute_night(s, amount, ok) ==
    IF ok THEN [s EXCEPT !.users = s.users + amount] ELSE Failed(s, amount)

generate_nonce_same(s) ==
    [s EXCEPT !.nonces = s.nonces \union {s.counter},
              !.reused = s.reused \/ s.counter \in s.nonces]

generate_nonce(s) ==
    [s EXCEPT !.counter = s.counter + 1,
              !.nonces = s.nonces \union {s.counter},
              !.reused = s.reused \/ s.counter \in s.nonces]

-----------------------------------------------------------------------------
handle_subminimal_transfer_unkilled(s, t, ok) ==
    IF s.sum + t.amount > threshold THEN unlock_to_treasury(s, s.sum + t.amount, ok)
    ELSE [s EXCEPT !.count = s.count + 1, !.sum = s.sum + t.amount]

handle_subminimal_transfer_debited(s, t, ok) ==
    IF s.sum + t.amount > threshold
    THEN unlock_to_treasury([s EXCEPT !.count = 0, !.sum = 0], s.sum + t.amount, ok)
    ELSE [s EXCEPT !.count = s.count + 1, !.sum = s.sum - t.amount]

(* The stash is emptied whether or not the flush succeeds. *)
handle_subminimal_transfer(s, t, ok) ==
    IF s.sum + t.amount > threshold
    THEN unlock_to_treasury([s EXCEPT !.count = 0, !.sum = 0], s.sum + t.amount, ok)
    ELSE [s EXCEPT !.count = s.count + 1, !.sum = s.sum + t.amount]

Spend(s, hash) == [s EXCEPT !.spent = [s.spent EXCEPT ![hash] = s.spent[hash] + 1]]

handle_user_transfer_kept(s, t, ok) ==
    IF t.mc_tx_hash \notin s.approved THEN unlock_to_treasury(s, t.amount, ok)
    ELSE distribute_night(generate_nonce(Spend(s, t.mc_tx_hash)), t.amount, ok)

(* An approval is taken before the ledger is called. *)
handle_user_transfer(s, t, ok) ==
    IF t.mc_tx_hash \notin s.approved THEN unlock_to_treasury(s, t.amount, ok)
    ELSE LET taken == [Spend(s, t.mc_tx_hash) EXCEPT !.approved = s.approved \ {t.mc_tx_hash}]
         IN  distribute_night(generate_nonce(taken), t.amount, ok)

handle_regular_transfer(s, t, ok) ==
    CASE t.recipient = "Invalid" -> unlock_to_treasury(s, t.amount, ok)
      [] t.recipient = "Reserve" -> distribute_reserve(s, t.amount, ok)
      [] t.recipient \in Recipients -> handle_user_transfer(s, t, ok)

(* min_amount is 0 when the ledger cannot be read: nothing is then below it. *)
handle_incoming_transfer(s, t, min_amount, ok) ==
    LET r == [s EXCEPT !.received = s.received + t.amount]
    IN  IF t.amount < min_amount THEN handle_subminimal_transfer(r, t, ok)
        ELSE handle_regular_transfer(r, t, ok)

-----------------------------------------------------------------------------
(* handle_transfers, one step per transfer. *)

HandleTransfers(transfers, data_checkpoint) ==
    /\ call = None
    /\ ~executed
    /\ executed' = TRUE
    /\ call' = [transfers |-> transfers, data_checkpoint |-> data_checkpoint]
    /\ UNCHANGED <<scripts, checkpoint, threshold, store>>

HandleTransfer(min_amount, ok) ==
    /\ call # None
    /\ call.transfers # <<>>
    /\ store' = handle_incoming_transfer(store, Head(call.transfers), min_amount, ok)
    /\ call' = [call EXCEPT !.transfers = Tail(call.transfers)]
    /\ UNCHANGED <<scripts, checkpoint, threshold, executed>>

HandleTransfersEnd ==
    /\ call # None
    /\ call.transfers = <<>>
    /\ checkpoint' = call.data_checkpoint
    /\ call' = None
    /\ UNCHANGED <<scripts, threshold, executed, store>>

set_main_chain_scripts(new_scripts, data_checkpoint) ==
    /\ call = None
    /\ scripts' = new_scripts
    /\ checkpoint' = data_checkpoint
    /\ UNCHANGED <<threshold, executed, call, store>>

set_subminimal_transfers_config(config) ==
    /\ call = None
    /\ threshold' = config
    /\ UNCHANGED <<scripts, checkpoint, executed, call, store>>

add_approved_mc_tx_hashes(hashes) ==
    /\ call = None
    /\ store' = [store EXCEPT
          !.approved = store.approved \union hashes,
          !.granted = [h \in Hashes |-> IF h \in hashes \ store.approved
                                        THEN store.granted[h] + 1 ELSE store.granted[h]]]
    /\ UNCHANGED <<scripts, checkpoint, threshold, executed, call>>

(* on_finalize of both pallets; the next block has another parent hash. *)
OnFinalize ==
    /\ call = None
    /\ executed' = FALSE
    /\ store' = [store EXCEPT !.counter = 0, !.nonces = {}]
    /\ UNCHANGED <<scripts, checkpoint, threshold, call>>

InitPallets(s, c, config, approved) ==
    /\ scripts = s
    /\ checkpoint = c
    /\ threshold = config
    /\ executed = FALSE
    /\ call = None
    /\ store = [approved |-> approved, count |-> 0, sum |-> 0, counter |-> 0,
                users |-> 0, treasury |-> 0, reserve |-> 0, received |-> 0, failed |-> 0,
                granted |-> [h \in Hashes |-> IF h \in approved THEN 1 ELSE 0],
                spent |-> [h \in Hashes |-> 0], nonces |-> {}, reused |-> FALSE]

(* The pallets on their own, given any transfers. *)
PalletInit ==
    \E s \in Scripts \union {None}, c \in Checkpoints \union {None}, config \in Nat,
       approved \in SUBSET Hashes : InitPallets(s, c, config, approved)

PalletNext ==
    \/ \E transfers \in Seq(Transfer), c \in Checkpoints : HandleTransfers(transfers, c)
    \/ \E min_amount \in Nat, ok \in BOOLEAN : HandleTransfer(min_amount, ok)
    \/ HandleTransfersEnd
    \/ \E s \in Scripts, c \in Checkpoints : set_main_chain_scripts(s, c)
    \/ \E config \in Nat : set_subminimal_transfers_config(config)
    \/ \E hashes \in SUBSET Hashes : add_approved_mc_tx_hashes(hashes)
    \/ OnFinalize

PalletSpec == PalletInit /\ [][PalletNext]_palletVars

-----------------------------------------------------------------------------
Call == [transfers : Seq(Transfer), data_checkpoint : Checkpoints]

(* Types of the storage items and of the call. *)
TypeOK ==
    /\ scripts \in Scripts \union {None}
    /\ checkpoint \in Checkpoints \union {None}
    /\ threshold \in Nat
    /\ executed \in BOOLEAN
    /\ call = None \/ call \in Call
    /\ store \in Storage

Owes(s, amount) ==
    s.received = s.users + s.treasury + s.reserve + s.sum + s.failed + amount

(***************************************************************************)
(* No token is made or lost on the way: what Cardano locked is what the    *)
(* ledger unlocked for users, treasury and reserve, what waits in the      *)
(* stash of subminimal transfers, and what went into system transactions   *)
(* that failed, each amount in one place only.                             *)
(***************************************************************************)
FundsAreAccountedFor == Owes(store, 0)

PaysOnce(s) ==
    \A h \in Hashes : s.granted[h] = IF h \in s.approved THEN s.spent[h] + 1 ELSE s.spent[h]

(***************************************************************************)
(* An approval of governance pays once: a hash is in ApprovedMcTxHashes    *)
(* exactly when it was approved once more than approvals of it were spent, *)
(* also when the scripts are configured again and a transaction returns.   *)
(***************************************************************************)
ApprovalsPayOnce == PaysOnce(store)

(***************************************************************************)
(* No two transfers of a block get the same nonce, however the calls of    *)
(* the block follow each other (the parent hash separates the blocks).     *)
(***************************************************************************)
NoncesAreUnique == ~store.reused

CounterIsFresh(s) == ~s.reused /\ \A n \in s.nonces : n < s.counter

(* The inductive invariant of the pallets: TransferCounter is ahead of every
   nonce of the block. *)
PalletIInv ==
    /\ TypeOK
    /\ FundsAreAccountedFor
    /\ ApprovalsPayOnce
    /\ CounterIsFresh(store)
=============================================================================
