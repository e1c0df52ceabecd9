# TLA+ verification of midnight-node

Midnight is a Substrate chain that follows Cardano: it reads a Cardano db-sync
database, agrees block by block on what it read (inherents), and lets governance
bodies, whose members are themselves observed on Cardano, change its parameters.
The specifications here cover the parts where this agreement is made and kept. They
are translated from the Rust sources; `PROJECT.json` maps every definition to the
lines it stands for.

## 1. The system and its parts

| Part | State | Operations | What is hard about it |
|---|---|---|---|
| Federated authority (`pallets/federated-authority`) | motions with approvals and an end block | approve, revoke, close | approvals given and withdrawn around the end of a window; a call put to a motion again |
| cNIGHT observation (`pallets/cnight-observation`, `primitives/mainchain-follower`) | registrations, owners of generating UTXOs, the Cardano position | `process_tokens` each block, migration of the old storage | the ledger refuses a key, or the whole system transaction, or the transaction cannot be constructed; an answer is cut in the middle of a Cardano block; rows of four queries are merged |
| cNIGHT window cache (`cnight_observation_bulk.rs`) | a window of events and its bounds | queries, one refresh at a time | bounds and events are under separate locks |
| AURA to BABE transition (`pallets/consensus-engine`, `node/src/armed_babe_proposer.rs`) | engine state, BABE genesis slot | arm, schedule, digest guards in `on_initialize` | author and guard read state at different points of a block; hooks that panic |
| Cardano reference (`sidechain-mc-hash`, `db-sync/src/block`, `node/src/inherent_data.rs`) | the reference of each header, a cache of stable blocks | propose, verify, retry | every node has its own db-sync, which lags, forks and rolls back |
| Committee selection (`committee-selection/pallet`, `pallet_session_support.rs`, Ariadne provider) | next, queued and current committee, session keys | inherent, rotation | author and verifier work on different states; skipped epochs |
| Cardano bridge (`bridge/pallet`, `pallets/c2m-bridge`, `db-sync/src/bridge`) | checkpoint, scripts, approvals, stash of small transfers | inherent with transfers, governance calls | limits that fall between or inside transactions; system transactions that fail; a shared cache |
| Authority observation, collectives, system parameters | members of the bodies, D-parameter | inherent, `set_members`, updates | members change while motions are open |
| Transactions (`pallets/midnight`, `throttle`, `filtering_pool.rs`, `ledger`) | ledger state root, usage per account | validate, apply | validation and application at different states |
| Relay, toolkit, command lines, RPC, monitoring | none the chain depends on | | |

The parts meet in a block. Its author first fixes the Cardano reference (McHash);
all other inherents are queries at that reference, computed on the parent's state.
The new block runs `on_initialize` of every pallet in index order (the consensus-engine
guards, the scheduler, the session rotation), then the inherents, then extrinsics, then
`on_finalize`. Every other node repeats the queries and compares.

## 2. Modules

| Module | Models |
|---|---|
| `FederatedAuthority` | the motions of the federated authority pallet |
| `CardanoObservations` | positions and observed UTXOs, shared by the cNIGHT modules |
| `CNightPallet` | `process_tokens` event by event, its overlay, the migration |
| `CNightDataSource` | the four row-limited queries, merge, sort, cut at the capacity |
| `CNightObservation` | Cardano, data source, inherent and pallet composed |
| `SlidingWindowCache` | the cNIGHT cache, one step per lock or await, over `CNightDataSource` |
| `ConsensusEngine` | the transition, its guards and the armed proposer |
| `McHash` | choice and verification of the Cardano reference by several nodes |
| `CommitteeSelection` | committee inherent, rotation and `pallet_session` |
| `BridgeDataSource` | the query and conversion of bridge transactions, as operators |
| `C2MBridge` | both bridge pallets, transfer by transfer |
| `BridgeObservation` | Cardano, data source, inherent, pallets and governance composed |
| `BridgeCache` | the cached bridge data source, one step per lock, over `BridgeDataSource` |
| `*_proofs` | theorems about the module they extend |
| `MC*` | instances for TLC |

Conventions. A call that fails and changes nothing is a stuttering step. The loops of
`process_tokens` and `handle_transfers` have one step per iteration (`call` holds the
rest); no other call comes between them. Reads and writes made under different locks are
different steps. `event` (FederatedAuthority), `verdict` (McHash) and `last`
(ConsensusEngine, CommitteeSelection) hold the outcome of the latest step and, with
what is marked *history*, serve the properties; in SlidingWindowCache `last` is the
code's `last_observation`. Operators
whose name extends that of another (`has_ended_one_block_late`, `Fits_one_more`) are
variants with a deliberate mistake; they show that a property notices it and no
specification uses them.

### Correspondence, module by module

**FederatedAuthority.** `motions` is the storage map `Motions`; a motion is keyed by the
hash of its call, so the call is the key. `MotionApprove`, `MotionRevoke`,
`MotionCloseApproved` and `MotionCloseExpired` are the extrinsics, `NextBlock` passes
time. That an origin carries a body's majority is checked before the pallet; a body may
act whenever it likes. Dispatching the call is an event: what it does is outside.

**CNightPallet, CNightDataSource, CNightObservation.** `store` is the storage, `call` the
`process_tokens` in progress with the overlay it works on, `v0`/`version` the state of the
migration. `store.indexed` and `store.generating` are history: what a reader of the events
and the ledger know. Every UTXO of the inherent is a step on the overlay. A key the ledger
cannot read drops its event. The call ends in one of three ways. The system transaction is
applied (`ProcessTokensOk`, also when there is none); it fails and the whole call is rolled
back, after which the block may be built again (`ProcessTokensErr`); or it cannot be
constructed, which the code only logs (`ProcessTokensUnsent`): owners and position are
committed although the ledger was told nothing, and the UTXOs concerned are remembered in
the history `store.unsent`. Genesis may hold registrations and owners. Datum
decoding is the field `usable` of a row: undecodable rows are dropped after the LIMIT
of the query, as in the code. The Root setters of the pallet only change which addresses
the node looks at and are left out.

**SlidingWindowCache.** `events`, `start`, `end` and `last` are the four locked fields;
`refresh` is the refresh that holds the single-flight flag; `reader[r]` a query between
two of its steps. Queries outside the window go to the db-backed source.

**ConsensusEngine.** One step passes a slot. Slots are counted modulo a multiple of the
epoch length and of every committee size, so the state space is finite and the
arithmetic that the code does on slots (`slot % n`, place in the epoch) is exact. The
session rotates at the first block of an epoch; that `should_end_session` may also do so
later, when the committee was set late, makes no difference to the guards. Headers
carry arbitrary pre-runtime items up to `MaxLogs`, well-formed or not. A hook that panics
leaves no trace of the block.

**McHash.** Each node's `view` is a prefix of Cardano's main chain and at most
`SecurityParameter` blocks that will be rolled back. The two database queries of
`classify_block_hash` are separate steps, so db-sync may move between them; the retry
loop of `VerifierCIDP` is bounded as in the code.

**CommitteeSelection.** A step is a block: hooks, then the inherent, checked against the
parent. The draw is an arbitrary function of the inputs and the D-parameter, chosen anew
for each block. Keys are registered as `pallet_session` does it (external), including the
refusal of a key another account owns: the refused account keeps its old key, or has none
and is left out of the session. Of several seats of an account the first one counts, as in
`register_committee_keys`.

**C2MBridge, BridgeDataSource, BridgeObservation.** `handle_transfers` is
`HandleTransfers`, one `HandleTransfer` per transfer and `HandleTransfersEnd`. The ledger
is a sum per destination; every system transaction may fail, which the pallet logs.
`BridgeObservation` adds Cardano, the inherent and governance. Scripts and checkpoint may
each be missing at genesis; the inherent is inert until both are there. Governance points
the bridge at transactions and blocks that a block already referred to, and approves
transactions that are on Cardano.

**BridgeCache.** A call takes the lock of the cache up to four times: to set the scripts,
to serve, to store what it fetched, to serve again. The resolution of a checkpoint reads
the position of a transaction in a stable block, which never changes, and is part of the
steps that use it. Calls may ask for any scripts at any time: block production and the
import of blocks of different forks or heights share the cache. The history `fill` holds
who filled the cache last and for which scripts, and whether calls for different scripts
have overlapped since it was cleared. The block asked for is any block of which the node sees
`SecurityParameter` confirmations; the time window of the check is relative to the Midnight
block, which may be an old one that is being imported, and excludes nothing.

## 3. Runs

Times are for two workers.

| Run | Checks | Instance and why it is enough |
|---|---|---|
| `federated_authority` | a dispatch is unanimous within one window; each dispatch spends one unrevoked approval per body; nothing but closing happens to an ended motion; no motion without approval | both bodies, two calls, windows of 2 in 6 blocks: a call is approved, expires or is dispatched, and is put again |
| `cnight_observation` | registrations and owners equal those of Cardano at the position reached; an indexer reading events and the ledger agree with the pallet; inherents are accepted; the position never moves back | at most 4 rows: one registration before genesis or the upgrade, the others in up to 3 transactions of one later block; two valid keys and an invalid one; at most one owner at genesis; capacity 2, so that answers are cut between any two transactions. 967,574 states, 99 s |
| `cnight_liveness` | every stable row is observed eventually | 2 rows in up to three blocks, one key, the migration included. 7,974 states, 32 s |
| `cnight_row_limit` | violation, see section 6 | a LIMIT of 1 |
| `sliding_window_cache` | the window holds exactly the rows of its blocks; it never moves back; an answer that no trim overtook is that of the database | two queries and a refresh, windows that jump, extend and are trimmed, refreshes that fail at either query |
| `consensus_engine` | honest blocks pass the guards; BABE never starts a genesis epoch of its own; the chain keeps growing | epochs of 3, committees of 2 or 3, headers of up to 3 items. 350 states: most headers lead to the same few |
| `mc_hash` | accepted references stay on Cardano; a verifier within the margin does not refuse an author's latest stable block; the parent's reference is found | two nodes, one confirmation, margin 1, cache of 1, 6 units of time: lag, fork and rollback on either side |
| `committee` | honest blocks pass; stored committees are those of the session, seat by seat, but for the two claimants of one key; epochs are neither skipped nor repeated; an unset next committee is set by the next block | epochs of 2 slots, gaps of up to 5 slots, an account with two keys and seats under both, a second account that claims one of its keys (`set_keys` fails both for an account without keys and for one with an older key), failing selections. 2,180 states, 17 s |
| `committee_scheduled` | violation, see section 6 | with a scheduled D-parameter change |
| `bridge` | transfers are handled once, in order, within the limit, and eventually; funds are accounted for; approvals pay once; nonces do not repeat | limit 2, for the transfers of a block and for the rows of the query; after the genesis checkpoint either three transfers of one block, so that the query hides the third behind a full answer, or up to two new transactions of four shapes (among them one with two transfers, one below the minimum, a withdrawal); scripts and checkpoint configured again once, each hash approved once. 518,445 states, 71 s |
| `bridge_cache` | an answer is complete for the scripts of one fill, which are those of the call unless calls for different scripts overlapped; a call fails only for the two reasons of section 6 | two calls, 5 transactions of two scripts in 4 blocks, lookahead 1. 1,083,101 states, 50 s |
| `bridge_scripts` | violation, see section 6 | the same |

Deadlock is checked everywhere but in `committee` and `committee_scheduled`, where time
is bounded by `MaxSlot` and the last slot has no successor. Bounds are constants named
`Max*`. The runs `cnight_observation` and `bridge` put their new rows into one Cardano
block. Two wider instances, too long to be regular runs, were checked once and hold:
`MCCNightObservation.cfg` with `MaxBlocks = 4`, `MaxTxs = 2`, `Keys = {k1, bad}`,
`ValidKeys = {k1}` and no symmetry (3,922,800 states), and `MCBridgeObservation.cfg` with
`MaxBlocks = 4` and `MinAmounts = {2}` (1,533,537 states); both take about twelve minutes.

Every property of a passing run has a mutant in `PROJECT.json`. With the mutant in place
and no other property in the cfg, TLC finds that property violated.

Fairness. `cnight_liveness` and `bridge`: blocks are produced for ever, again and again
by an author who refers to the latest stable Cardano block (that is what `new_proposal`
chooses unless the author's db-sync lags), and a call that was begun ends. The cNIGHT run
also needs that the ledger does not refuse the system transaction of such a block for
ever: a refused call is rolled back and its rows come again with the next inherent.
In `bridge` the assumption is on the block's `begun` flag and reference only. `consensus_engine`: every place of the
rotation has an updated author again and again, which is when governance may arm.

## 4. Proofs

All theorems are checked by TLAPS from the assumptions named in the modules.

| Module | Theorems | Assumptions and argument |
|---|---|---|
| `FederatedAuthority_proofs` | `TypeCorrect`, `UnanimousDispatch`, `ApprovalsAreSpentOnce`, `EndedMotionsAreFrozen`, `MotionsAreBacked` | any finite set of bodies, all of which must approve. `IInv` adds that a standing approval was given inside the window of the motion that holds it (`ApprovalsStandInWindow`); without it nothing links the approvals a close counts to a time |
| `CNightPallet_proofs` | `PalletTypes`, `IndexersStayInStep`, `LedgerStaysInStep`, `PositionIsMonotonic` | any addresses, keys and UTXOs, inputs with fresh UTXOs. `PalletIInv` relates storage and overlay to what was announced in the middle of a call and of the migration. For the step that commits without telling the ledger it adds that the overlay differs from the storage in the owners of the UTXOs with an event only (`OverlayAgrees`) |
| `ConsensusEngine_proofs` | `EngineInvariance`, `HonestBlocksAreSafe`, `BabeGenesisIsSuppressed` | any epoch length and committee sizes, headers of any length. `EngineIInv` adds that no head is in state Babe, because the flip panics; the guards then agree with the proposer at the parent |
| `McHash_proofs` | `McHashInvariance`, `AcceptedReferencesStay`, `ParentReferenceStays` | any nodes, confirmations, margin and cache size. `IInv`: all that a node keeps (cache, head) lies on the settled part of its own view, which grows and never changes |
| `C2MBridge_proofs` | `PalletInvariance`, `BridgeTypes`, `FundsAreSafe`, `ApprovalsAreSafe`, `NoncesAreSafe` | any transfers, thresholds, minimum amounts and failures. `PalletIInv` adds that the counter is ahead of every nonce of the block. The lemmas follow the call tree: what is owed when a handler is entered is settled when it returns |

The proofs about `CNightPallet` and `C2MBridge` are about `PalletSpec`, in which the
pallets are handed any input; the composed specifications use the same actions with the inputs that the data source gives
them. That they implement `PalletSpec` is not checked yet (section 7).

Only model-checked: liveness (fairness is beyond the prover used), `CommitteeSelection`,
both caches, and every property that relates the chain to Cardano's rows or transactions,
because these rest on folds and filters over sequences, for which induction is needed.

## 5. Not modelled

`PROJECT.json` lists every part with its status. Left out on purpose: the ledger itself
(zero-knowledge proofs, contracts, cost model; external crates), weights and fees, RPC,
command lines, chain specifications, metrics, SQL failures (a failed query fails the
proposal or the import and changes nothing), the AURA and BABE import queues of Substrate,
and storage migrations other than that of the cNIGHT pallet.

## 6. What the runs found

*Rows beyond a LIMIT are skipped* (`cnight_row_limit`). Each of the four queries is limited
to `utxo_overestimate` rows. If one reaches it while the rows hold fewer than `tx_capacity`
transactions, the end position is that of the tip and the rows cut off are never read.

*A scheduled D-parameter change stalls the chain at an epoch* (`committee_scheduled`).
`create_inherent` runs after the scheduler, `check_inherent` on the parent's state. If the
block that dispatches `update_d_parameter` must also store a committee, no honest block at
that height is accepted.

*The bridge cache serves rows of other scripts* (`bridge_scripts`). A call sets the scripts
of the cache, fills it and serves from it under separate locks, and `set_cached_transfers`
does not compare the scripts. With calls on both sides of a `set_main_chain_scripts`, one
fetches rows of the old scripts, the other sets the new ones and clears the cache, the first
stores its rows, and calls for the new scripts are served from them. `AnswersAreOfOneFill`
says what is left: an answer is never a mixture of two fills, and without such an overlap
it is the database's.

A call to the bridge cache may fail with "Data should be present in cache after filling
cache succeeded" for two reasons, and `ErrorsAreExplained` shows that there is no third.
Another call has overwritten the cache, or the node is slightly behind: a block under
verification needs `cardano_security_parameter` confirmations, while the fill stops at the
node's own stable block, `block_stability_margin` further back. A node behind the author by
at least one block and at most the margin accepts the reference and then fails.

Observations made while modelling, without a run of their own:

- `cnight_observation_bulk.rs:624`: a refresh that trims the events between a query's
  check of the bounds and its slice makes the query return, and store for the next one, a
  strict subset. `UnracedAnswersAreLive` excludes exactly these queries (field `raced`).
- The cache ignores the addresses of a query (`cnight_observation_bulk.rs:521`) and pulls
  with `LARGE_LIMIT` where the database source uses `utxo_overestimate` (line 427).
- `sidechain-mc-hash/src/lib.rs:543`: freshness of the tip is asked after the lookup. If
  db-sync catches up in between, a reference that is stable by then is refused as invalid;
  `InSyncVerifierAccepts` therefore speaks of nodes that were within the margin.
- A scheduled `set_main_chain_scripts` is dispatched before the inherent of its block,
  which was computed for the old checkpoint and overwrites the new one.
- With `MaxTransfersPerBlock` below 2 a transaction with two transfers would be skipped
  (`MaxTransfersAssumption`; the runtime has 256).
- `pallet_session_support.rs:92`: if two accounts claim one key, the refusal is only
  logged and the committee stored differs from the session's in the seats of these two;
  `CommitteesAreTheSessions` says that nobody else is affected.
- `cnight-observation/src/lib.rs:753`: a system transaction that cannot be constructed is
  only logged, so that UtxoOwners and the ledger part on its UTXOs: a create is unknown to
  the ledger, and after a spend the UTXO goes on generating there. Construction fails only
  if an event cannot be decoded again or the transaction cannot be encoded
  (`construct_cnight_generates_dust_system_tx`).
- The flip itself (`consensus-engine/src/lib.rs:339`) panics, so once BABE
  authorities are there, a block in the last slot of an epoch is lost while a flip is
  scheduled, and the flip never commits; a comment there says so, and other blocks go on
  (`ChainKeepsGrowing`).
- An ordinary third registration of an address reaches the log line "fatal integrity
  error" of the cNIGHT pallet (`lib.rs:490`).
- On a Cardano chain younger than the confirmations asked for, the saturating subtraction
  in `get_latest_stable_block_for` stops at 0, so block 0 counts as stable. The model starts with an older chain.

## 7. Plan

1. Governance: authority observation and its data source, the membership handlers and
   collectives, composed with `FederatedAuthority` and the scheduler (abstract
   specification: a Root call needs both current bodies), then scheduled calls in
   `BridgeObservation`.
2. Transactions: `pallet_midnight`, `midnight-system`, throttle, call filter and the
   filtering pool over an abstract ledger.
3. Data: candidates source and its cache, the Ariadne draw as operators against a
   reference definition, the toolkit's block fetcher.
4. Refinement: `SlidingWindowCache`, up to its raced queries, as an implementation of an
   atomic data source; the composed cNIGHT and bridge specifications as implementations of a
   specification that reads Cardano directly.
5. Proofs: inductive invariants of `CommitteeSelection` and `BridgeCache`; that the
   composed specifications implement `PalletSpec`.
