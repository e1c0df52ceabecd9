---------------------------- MODULE CNightPallet ----------------------------
(***************************************************************************)
(* The cNIGHT observation pallet (pallets/cnight-observation): it replays  *)
(* what it is told happened on Cardano (registrations of a DUST key for a  *)
(* reward address, and creations and spends of cNIGHT UTXOs) and tells the *)
(* ledger which UTXOs generate DUST, and for which key.                    *)
(*                                                                         *)
(* process_tokens is a Mandatory call: its writes live in the storage      *)
(* overlay of the call until it returns, and are dropped if it errs.  The  *)
(* overlay is the variable call, and the loop over the observed UTXOs is   *)
(* one step per UTXO.  While a call runs nothing else of the pallet can,   *)
(* so the steps of a call are as good as one.                              *)
(***************************************************************************)
EXTENDS CardanoObservations, Sequences

CONSTANTS Addrs,      \* Cardano reward addresses
          Keys,       \* DUST public keys a registration datum may carry
          ValidKeys,  \* those the ledger can deserialize
          Utxos,      \* identities of Cardano UTXOs
          MaxUtxos,   \* CardanoTxCapacityPerBlock * UTXO_PER_TX_OVERESTIMATE
          None

ASSUME KeysAssumption == ValidKeys \subseteq Keys /\ None \notin Keys

\* ObservedUtxo: an AssetCreate or AssetSpend carries no key.
ObservedUtxo == [kind : Kinds, addr : Addrs, key : Keys \union {None}, utxo : Utxos]

VARIABLES
    store,     \* committed storage: see Storage
    position,  \* NextCardanoPosition
    executed,  \* InherentExecutedThisBlock
    v0,        \* rows of the v0 Mappings map not migrated yet
    version,   \* on-chain storage version of the pallet
    call       \* None, or the process_tokens call being executed

palletVars == <<store, position, executed, v0, version, call>>

Rows == [Addrs -> [Utxos -> Keys \union {None}]]

(***************************************************************************)
(* mapping and owners are the Mapping and UtxoOwners maps.  indexed is     *)
(* what a reader of the Registration and Deregistration events believes is *)
(* the valid registration of an address.  generating is the state of the   *)
(* ledger: the key each UTXO generates DUST for; unsent remembers the      *)
(* UTXOs of events that were logged as lost and never reached it.          *)
(***************************************************************************)
Storage == [mapping : Rows,
            owners : [Utxos -> Keys \union {None}],
            indexed : [Addrs -> Keys \union {None}],
            generating : [Utxos -> Keys \union {None}],
            unsent : SUBSET Utxos]

(* The Mapping rows of address a: iter_prefix_values(a). *)
EntriesOf(m, a) == {u \in Utxos : m[a][u] # None}

IsOnly(m, a, u) == EntriesOf(m, a) = {u}

(* Some(key) iff exactly one mapping of the address exists. *)
unique_dust_key(m, a) ==
    IF \E u \in Utxos : IsOnly(m, a, u)
    THEN m[a][CHOOSE u \in Utxos : IsOnly(m, a, u)]
    ELSE None

(* The event a change of the unique key deposits, as its reader applies it. *)
Reindex(indexed, a, previous, new) ==
    CASE previous = None /\ new # None -> [indexed EXCEPT ![a] = new]
      [] previous # None /\ new = None -> [indexed EXCEPT ![a] = None]
      [] OTHER -> indexed

handle_registration_no_overlap(s, u) ==
    [s EXCEPT !.mapping = [s.mapping EXCEPT ![u.addr][u.utxo] = u.key],
              !.indexed = [s.indexed EXCEPT ![u.addr] = u.key]]

handle_registration(s, u) ==
    LET mapping  == [s.mapping EXCEPT ![u.addr][u.utxo] = u.key]
        previous == unique_dust_key(s.mapping, u.addr)
        new      == unique_dust_key(mapping, u.addr)
    IN [s EXCEPT !.mapping = mapping,
                 !.indexed = Reindex(s.indexed, u.addr, previous, new)]

handle_registration_removal(s, u) ==
    LET mapping == [s.mapping EXCEPT ![u.addr][u.utxo] = None]
    IN [s EXCEPT !.mapping = mapping,
                 !.indexed = Reindex(s.indexed, u.addr,
                                unique_dust_key(s.mapping, u.addr),
                                unique_dust_key(mapping, u.addr))]

(* construct_cnight_generates_dust_event fails on a key that is no curve point. *)
Constructs(key) == key \in ValidKeys

handle_create_unchecked(s, u) ==
    LET key == unique_dust_key(s.mapping, u.addr)
    IN IF key = None THEN s
       ELSE [s EXCEPT !.owners = [s.owners EXCEPT ![u.utxo] = key],
                      !.generating = IF Constructs(key)
                                     THEN [s.generating EXCEPT ![u.utxo] = key]
                                     ELSE s.generating]

handle_create(s, u) ==
    LET key == unique_dust_key(s.mapping, u.addr)
    IN IF key = None \/ ~ Constructs(key) THEN s
       ELSE [s EXCEPT !.owners = [s.owners EXCEPT ![u.utxo] = key],
                      !.generating = [s.generating EXCEPT ![u.utxo] = key]]

handle_spend(s, u) ==
    LET key == s.owners[u.utxo]
    IN IF key = None THEN s
       ELSE [s EXCEPT !.owners = [s.owners EXCEPT ![u.utxo] = None],
                      !.generating = IF Constructs(key)
                                     THEN [s.generating EXCEPT ![u.utxo] = None]
                                     ELSE s.generating]

(* Whether the UTXO adds a CNightGeneratesDustEvent to the system transaction. *)
Emits(s, u) ==
    \/ u.kind = "AssetCreate" /\ Constructs(unique_dust_key(s.mapping, u.addr))
    \/ u.kind = "AssetSpend" /\ Constructs(s.owners[u.utxo])

Handle(s, u) ==
    CASE u.kind = "Registration"   -> handle_registration(s, u)
      [] u.kind = "Deregistration" -> handle_registration_removal(s, u)
      [] u.kind = "AssetCreate"    -> handle_create(s, u)
      [] u.kind = "AssetSpend"     -> handle_spend(s, u)

NoRows == [a \in Addrs |-> [u \in Utxos |-> None]]

(***************************************************************************)
(* Genesis, or the upgrade to storage version 1 of a chain whose mappings, *)
(* known to the readers of its events, are all in the v0 map.  The ledger  *)
(* knows the owners it starts with.                                        *)
(***************************************************************************)
InitPallet(rows, owners, start, v) ==
    /\ store = [mapping |-> IF v = 0 THEN NoRows ELSE rows,
                owners |-> owners,
                indexed |-> [a \in Addrs |-> unique_dust_key(rows, a)],
                generating |-> owners,
                unsent |-> {}]
    /\ v0 = IF v = 0 THEN rows ELSE NoRows
    /\ version = v
    /\ position = start
    /\ executed = FALSE
    /\ call = None

(* The checks of process_tokens that precede any processing. *)
Accepts(utxos) == Len(utxos) <= MaxUtxos /\ ~ executed

MigrationDone_assumed == TRUE

MigrationDone == version >= 1

(* While the v0 rows are being migrated the call does nothing. *)
ProcessTokensSkipped(utxos) ==
    /\ call = None
    /\ Accepts(utxos)
    /\ ~ MigrationDone
    /\ executed' = TRUE
    /\ UNCHANGED <<store, position, v0, version, call>>

ProcessTokensBegin(utxos, next) ==
    /\ call = None
    /\ Accepts(utxos)
    /\ MigrationDone
    /\ AtOrAfter(next, position)
    /\ call' = [store |-> store, queue |-> utxos, next |-> next, events |-> {}]
    /\ UNCHANGED <<store, position, executed, v0, version>>

ProcessUtxo ==
    /\ call # None
    /\ call.queue # <<>>
    /\ LET u == Head(call.queue)
       IN call' = [store |-> Handle(call.store, u), queue |-> Tail(call.queue),
                   next |-> call.next,
                   events |-> IF Emits(call.store, u) THEN call.events \union {u.utxo}
                              ELSE call.events]
    /\ UNCHANGED <<store, position, executed, v0, version>>

ProcessTokensOk_block_start ==
    /\ call # None
    /\ call.queue = <<>>
    /\ store' = call.store
    /\ position' = [call.next EXCEPT !.tx = 0]
    /\ executed' = TRUE
    /\ call' = None
    /\ UNCHANGED <<v0, version>>

(* The system transaction, if there is one, is applied and the call returns Ok. *)
ProcessTokensOk ==
    /\ call # None
    /\ call.queue = <<>>
    /\ store' = call.store
    /\ position' = call.next
    /\ executed' = TRUE
    /\ call' = None
    /\ UNCHANGED <<v0, version>>

(* execute_system_transaction fails: the call errs and its overlay is dropped. *)
ProcessTokensErr ==
    /\ call # None
    /\ call.queue = <<>>
    /\ call.events # {}
    /\ call' = None
    /\ UNCHANGED <<store, position, executed, v0, version>>

(* construct_cnight_generates_dust_system_tx fails, which is only logged: the
   call returns Ok without the ledger being told. *)
ProcessTokensUnsent ==
    /\ call # None
    /\ call.queue = <<>>
    /\ call.events # {}
    /\ store' = [call.store EXCEPT !.generating = store.generating,
                                   !.unsent = store.unsent \union call.events]
    /\ position' = call.next
    /\ executed' = TRUE
    /\ call' = None
    /\ UNCHANGED <<v0, version>>

OnFinalize ==
    /\ call = None
    /\ executed
    /\ executed' = FALSE
    /\ UNCHANGED <<store, position, v0, version, call>>

(* MigrateV0ToV1::step: the rows of one address move, or none is left. *)
MigrationStep ==
    /\ call = None
    /\ version = 0
    /\ \/ \E a \in Addrs :
            /\ EntriesOf(v0, a) # {}
            /\ v0' = [v0 EXCEPT ![a] = [u \in Utxos |-> None]]
            /\ store' = [store EXCEPT !.mapping = [store.mapping EXCEPT ![a] =
                            [u \in Utxos |-> IF v0[a][u] # None THEN v0[a][u]
                                             ELSE store.mapping[a][u]]]]
            /\ UNCHANGED version
       \/ /\ v0 = NoRows
          /\ version' = 1
          /\ UNCHANGED <<v0, store>>
    /\ UNCHANGED <<position, executed, call>>

(***************************************************************************)
(* The pallet on its own, given any list of UTXOs Cardano can produce: a   *)
(* UTXO is registered at most once ("Each UTXO produces exactly one        *)
(* mapping, so the UtxoId is globally unique").                            *)
(***************************************************************************)
FreshInput(utxos, mapping) ==
    \A i \in 1..Len(utxos) : utxos[i].kind = "Registration" =>
        /\ mapping[utxos[i].addr][utxos[i].utxo] = None
        /\ \A j \in 1..Len(utxos) :
              utxos[j].kind = "Registration" /\ utxos[j].utxo = utxos[i].utxo => j = i

PalletInit ==
    \E rows \in Rows, owners \in [Utxos -> ValidKeys \union {None}],
       start \in CardanoPosition, v \in {0, 1} : InitPallet(rows, owners, start, v)

PalletNext ==
    \/ \E utxos \in Seq(ObservedUtxo), next \in CardanoPosition :
          /\ FreshInput(utxos, store.mapping)
          /\ ProcessTokensSkipped(utxos) \/ ProcessTokensBegin(utxos, next)
    \/ ProcessUtxo
    \/ ProcessTokensOk
    \/ ProcessTokensErr
    \/ ProcessTokensUnsent
    \/ OnFinalize
    \/ MigrationStep

PalletSpec == PalletInit /\ [][PalletNext]_palletVars

-----------------------------------------------------------------------------
Call == [store : Storage, queue : Seq(ObservedUtxo), next : CardanoPosition,
         events : SUBSET Utxos]

(* Types of the storage items and of the overlay. *)
PalletTypeOK ==
    /\ store \in Storage
    /\ position \in CardanoPosition
    /\ executed \in BOOLEAN
    /\ v0 \in Rows
    /\ version \in {0, 1}
    /\ call = None \/ call \in Call

(* All the mappings of a chain, migrated or not. *)
AllRows(s) ==
    [a \in Addrs |-> [u \in Utxos |-> IF v0[a][u] # None THEN v0[a][u] ELSE s.mapping[a][u]]]

(* A reader of the Registration and Deregistration events knows, for every
   address, the one key that handle_create would credit: an event is deposited
   exactly when the unique key of an address appears or disappears, through
   any overlap of registrations, and through the migration. *)
IndexerSeesRegistrations ==
    \A a \in Addrs : store.indexed[a] = unique_dust_key(AllRows(store), a)

(* UtxoOwners and the ledger agree on which UTXO generates DUST for which key:
   no spend is lost to the ledger, and a system transaction that fails leaves
   neither side ahead of the other.  They part only on the UTXOs of a system
   transaction that could not be constructed, which process_tokens logs and
   otherwise ignores, and on no other UTXO of that call or of a later one. *)
LedgerFollowsOwners ==
    \A u \in Utxos \ store.unsent : store.generating[u] = store.owners[u]

(* NextCardanoPosition never moves back. *)
PositionNeverRegresses == [][AtOrAfter(position', position)]_palletVars

(* What every storage, committed or in an overlay, satisfies.  A key that a
   UTXO generates for was accepted by the ledger when the UTXO was created, so
   the event of its spend is always constructed. *)
StoreAgrees(s) ==
    /\ \A u \in Utxos \ s.unsent : s.generating[u] = s.owners[u]
    /\ \A u \in Utxos : s.owners[u] \in ValidKeys \union {None}

OverlayAgrees ==
    call # None =>
        /\ version = 1
        /\ StoreAgrees(call.store)
        /\ call.store.unsent = store.unsent
        /\ \A u \in Utxos \ call.events : call.store.owners[u] = store.owners[u]
        /\ \A a \in Addrs : call.store.indexed[a] = unique_dust_key(call.store.mapping, a)
        /\ FreshInput(call.queue, call.store.mapping)
        /\ AtOrAfter(call.next, position)

(* The inductive invariant of the pallet. *)
PalletIInv ==
    /\ PalletTypeOK
    /\ version = 1 => v0 = NoRows
    /\ IndexerSeesRegistrations
    /\ StoreAgrees(store)
    /\ OverlayAgrees
=============================================================================
