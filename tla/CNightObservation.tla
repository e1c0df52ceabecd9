------------------------- MODULE CNightObservation -------------------------
(***************************************************************************)
(* cNIGHT observation end to end: Cardano as db-sync shows it, the         *)
(* db-backed data source that answers get_utxos_up_to_capacity, and the    *)
(* pallet that is fed its answers, one inherent per block.                 *)
(***************************************************************************)
EXTENDS CNightPallet, CNightDataSource

CONSTANTS MaxRows, MaxBlocks, MaxTxs,  \* bounds on Cardano
          MaxInitial                   \* registrations before genesis, or before the upgrade

VARIABLES
    rows,       \* rows of db-sync
    txCounts,   \* txCounts[b]: number of transactions of Cardano block b
    reference,  \* Cardano block number referenced by the last Midnight block
    proposal    \* ... and by the block being executed

cardanoVars == <<rows, txCounts>>
vars == <<palletVars, rows, txCounts, reference, proposal>>

Row == [pos : CardanoPosition, utxo : ObservedUtxo, usable : BOOLEAN]

-----------------------------------------------------------------------------
(* Cardano (external).  The last block is still being filled in; the last  *)
(* that the bound allows would never become stable, and stays empty.       *)

Blocks == Len(txCounts)
Created == {i \in 1..Len(rows) : rows[i].utxo.kind \in {"Registration", "AssetCreate"}}
SpendKind == [Registration |-> "Deregistration", AssetCreate |-> "AssetSpend"]
Unspent == {i \in Created : ~ \E j \in 1..Len(rows) :
                /\ rows[j].utxo.utxo = rows[i].utxo.utxo
                /\ rows[j].utxo.kind = SpendKind[rows[i].utxo.kind]}

FreshUtxo == Cardinality(Created) + 1

(* What a transaction may do: create a UTXO, or spend an unspent one. *)
Outputs == [kind : {"Registration"}, addr : Addrs, key : Keys, utxo : {FreshUtxo}]
           \union
           [kind : {"AssetCreate"}, addr : Addrs, key : {None}, utxo : {FreshUtxo}]
Spends == {[rows[i].utxo EXCEPT !.kind = SpendKind[rows[i].utxo.kind]] : i \in Unspent}

UsableAs(u) ==
    IF u \in Outputs THEN BOOLEAN
    ELSE {rows[i].usable : i \in {j \in Unspent : rows[j].utxo.utxo = u.utxo}}

AppendRow(tx, u) ==
    \E usable \in UsableAs(u) :
        rows' = Append(rows, [pos |-> [block |-> Blocks, tx |-> tx],
                              utxo |-> u, usable |-> usable])

CardanoTx ==
    /\ call = None
    /\ Blocks \in 1..(MaxBlocks - 1)
    /\ Len(rows) < MaxRows
    /\ txCounts[Blocks] < MaxTxs
    /\ \E u \in Outputs \union Spends : AppendRow(txCounts[Blocks], u)
    /\ txCounts' = [txCounts EXCEPT ![Blocks] = @ + 1]
    /\ UNCHANGED <<palletVars, reference, proposal>>

(* One more row of the last transaction: outputs sort before spends. *)
CardanoSameTx ==
    /\ call = None
    /\ Len(rows) \in 1..(MaxRows - 1)
    /\ Last(rows).pos = [block |-> Blocks, tx |-> txCounts[Blocks] - 1]
    /\ \E u \in Outputs \union Spends :
          /\ u \in Outputs => Len(rows) \in Created
          /\ AppendRow(txCounts[Blocks] - 1, u)
    /\ UNCHANGED <<palletVars, txCounts, reference, proposal>>

(* The last block is complete and stable. *)
CardanoBlock ==
    /\ call = None
    /\ Blocks < MaxBlocks
    /\ txCounts' = Append(txCounts, 0)
    /\ UNCHANGED <<palletVars, rows, reference, proposal>>

-----------------------------------------------------------------------------
(* Midnight. *)

Inherent(tip) == get_utxos_up_to_capacity(rows, txCounts, position, tip)

UtxosOf(observed) == [n \in 1..Len(observed.utxos) |-> observed.utxos[n].utxo]

Tips == {tip \in 1..(Blocks - 1) : tip >= reference}

(* A block that references Cardano block tip: its inherent is what the data
   source returns between NextCardanoPosition and the tip. *)
BuildBlock(tip) ==
    /\ ~ executed
    /\ LET observed == Inherent(tip) IN
          \/ ProcessTokensSkipped(UtxosOf(observed))
          \/ ProcessTokensBegin(UtxosOf(observed), observed.end)
    /\ proposal' = tip
    /\ UNCHANGED <<rows, txCounts, reference>>

Execute ==
    /\ ProcessUtxo \/ ProcessTokensOk \/ ProcessTokensErr \/ ProcessTokensUnsent
    /\ UNCHANGED <<rows, txCounts, reference, proposal>>

FinishBlock ==
    /\ OnFinalize
    /\ reference' = proposal
    /\ UNCHANGED <<rows, txCounts, proposal>>

Migrate ==
    /\ MigrationStep
    /\ UNCHANGED <<rows, txCounts, reference, proposal>>

(* Cardano block 1 holds what genesis, or the runtime that stored the
   registrations in the v0 map, has already processed: some registrations, and
   after them at most one cNIGHT UTXO. *)
Init ==
    \E regs \in SeqOf([addr : Addrs, key : Keys], MaxInitial),
       assets \in SeqOf([addr : Addrs, key : {None}], 1), v \in {0, 1} :
        LET all == regs \o assets
            mapping == [a \in Addrs |-> [u \in Utxos |->
                          IF u \in 1..Len(regs) /\ all[u].addr = a THEN all[u].key ELSE None]]
            owner(u) == IF u \in 1..Len(all) /\ u > Len(regs)
                        THEN unique_dust_key(mapping, all[u].addr) ELSE None
        IN  /\ rows = [i \in 1..Len(all) |->
                         [pos |-> [block |-> 1, tx |-> i - 1], usable |-> TRUE,
                          utxo |-> [kind |-> IF i > Len(regs) THEN "AssetCreate"
                                             ELSE "Registration",
                                    addr |-> all[i].addr, key |-> all[i].key, utxo |-> i]]]
            /\ txCounts = <<Len(all), 0>>
            /\ reference = 1
            /\ proposal = 1
            /\ InitPallet(mapping,
                          [u \in Utxos |-> IF Constructs(owner(u)) THEN owner(u) ELSE None],
                          [block |-> 1, tx |-> Len(all) + 1], v)

Next ==
    \/ CardanoTx
    \/ CardanoSameTx
    \/ CardanoBlock
    \/ \E tip \in Tips : BuildBlock(tip)
    \/ Execute
    \/ FinishBlock
    \/ Migrate

Spec == Init /\ [][Next]_vars

(* Blocks keep being produced, their reference eventually catches up with
   Cardano (new_proposal takes the latest stable block), the migration is
   stepped in every block, and the ledger does not refuse such a block forever. *)
Fairness ==
    LET Still == UNCHANGED <<rows, txCounts, reference, proposal>> IN
    /\ SF_vars(Blocks > 1 /\ BuildBlock(Blocks - 1))
    /\ SF_vars(proposal = Blocks - 1 /\ ProcessTokensOk /\ Still)
    /\ WF_vars(Execute)
    /\ WF_vars(FinishBlock)
    /\ SF_vars(Migrate)

FairSpec == Spec /\ Fairness

-----------------------------------------------------------------------------
(* Types of the state of Cardano and of the pallet. *)
TypeOK ==
    /\ PalletTypeOK
    /\ \A i \in 1..Len(rows) : rows[i] \in Row
    /\ \A b \in 1..Blocks : txCounts[b] \in Nat
    /\ reference \in 1..Blocks
    /\ proposal \in 1..Blocks

(* Rows before the position the pallet has reached. *)
Processed == {i \in 1..Len(rows) : ~ AtOrAfter(rows[i].pos, position)}

UsableOfKind(S, kind) == {i \in S : rows[i].usable /\ rows[i].utxo.kind = kind}

SpentIn(S, i, kind) == \E j \in UsableOfKind(S, kind) : rows[j].utxo.utxo = rows[i].utxo.utxo

(* The registrations of an address that are unspent after the rows of S. *)
LiveRegistrations(S, a) ==
    {i \in UsableOfKind(S, "Registration") :
        rows[i].utxo.addr = a /\ ~ SpentIn(S, i, "Deregistration")}

(* The mappings of the chain, migrated or not, are exactly the registrations
   unspent on Cardano at NextCardanoPosition, however the rows were cut into
   blocks: process_tokens applies every row once, none twice, none skipped. *)
RegistrationsMatchCardano ==
    \A a \in Addrs, u \in Utxos :
        LET live == {i \in LiveRegistrations(Processed, a) : rows[i].utxo.utxo = u}
        IN IF live = {} THEN AllRows(store)[a][u] = None
           ELSE \A i \in live : AllRows(store)[a][u] = rows[i].utxo.key

(* UtxoOwners holds a cNIGHT UTXO, for which the ledger is told to generate
   DUST, iff it is unspent at NextCardanoPosition and, when it was created, its
   owner had exactly one registration, with a valid key; it keeps that key
   whatever is registered later. *)
OwnersMatchCardano ==
    \A i \in UsableOfKind(Processed, "AssetCreate") :
        LET before == {j \in 1..Len(rows) : j < i}
            regs   == LiveRegistrations(before, rows[i].utxo.addr)
            keys   == {rows[r].utxo.key : r \in regs} \intersect ValidKeys
        IN store.owners[rows[i].utxo.utxo] =
             IF SpentIn(Processed, i, "AssetSpend") \/ Cardinality(regs) # 1 \/ keys = {}
             THEN None
             ELSE CHOOSE k \in keys : TRUE

(* The inherent a node builds is never refused by process_tokens: it is not
   longer than the pallet accepts and does not move the position back. *)
InherentIsAccepted ==
    call = None /\ ~ executed => \A tip \in Tips :
        /\ Len(Inherent(tip).utxos) <= MaxUtxos
        /\ AtOrAfter(Inherent(tip).end, position)

(* What bulk_pull and truncate_to_tx_capacity say of their result: it holds
   every usable row between the start and the end position it reports. *)
NoRowBelowEndIsMissing ==
    call = None /\ ~ executed => \A tip \in Tips :
        \A i \in 1..Len(rows) :
            rows[i].usable /\ InRange(rows[i], position, Inherent(tip).end)
                => \E n \in 1..Len(Inherent(tip).utxos) : Inherent(tip).utxos[n] = rows[i]

(* A row that Cardano has made stable is eventually behind NextCardanoPosition. *)
EveryRowIsObserved ==
    \A i \in 1..MaxRows :
        (i <= Len(rows) /\ rows[i].pos.block < Blocks) ~> (i \in Processed)
=============================================================================
