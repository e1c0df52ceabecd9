----------------------------- MODULE BridgeCache -----------------------------
(***************************************************************************)
(* CachedTokenBridgeDataSourceImpl: the bridge data source of one node,    *)
(* with a cache that block production and block import share.  A call has  *)
(* one step for each time it takes the lock of the cache; other calls, and *)
(* new blocks in the node's db-sync, come between the steps.               *)
(***************************************************************************)
EXTENDS BridgeDataSource

CONSTANTS Readers,             \* concurrent calls of get_transfers
          Scripts,
          Txs,                 \* the transactions of Cardano, in order
          Times,               \* the times of its blocks, from block 1 on
          SecurityParameter,
          StabilityMargin,     \* block_stability_margin
          MinBoundary,         \* min_slot_boundary
          Lookahead,           \* cache_lookahead
          None

ASSUME CacheAssumption ==
    /\ {SecurityParameter, StabilityMargin, MinBoundary, Lookahead} \subseteq Nat
    /\ None \notin Scripts

VARIABLES tip,    \* number of the latest block in db-sync
          cache,  \* TokenUtxoCache
          calls,  \* per reader: the call, or None
          fill    \* history of the cache: see Fill

vars == <<tip, cache, calls, fill>>

Blocks == 1 .. Len(Times)

(***************************************************************************)
(* The call that wrote the cache last and the scripts its rows are of, and *)
(* whether a call for other scripts was in progress when the scripts of    *)
(* the cache were set.  The code keeps none of this.                       *)
(***************************************************************************)
Fill(by, scripts, mixed) == [by |-> by, scripts |-> scripts, mixed |-> mixed]

-----------------------------------------------------------------------------
(* TokenUtxoCache *)

NewCache == [mc_scripts |-> None, start_block |-> 0, end_block |-> 0, transfers |-> <<>>]

set_mc_scripts_kept(c, scripts) == [c EXCEPT !.mc_scripts = scripts]

set_mc_scripts(c, scripts) ==
    IF c.mc_scripts = scripts THEN c ELSE [NewCache EXCEPT !.mc_scripts = scripts]

set_cached_transfers_kept_end(c, from, to, txs) ==
    [c EXCEPT !.start_block = from, !.transfers = txs,
              !.end_block = IF c.end_block = 0 THEN to ELSE c.end_block]

set_cached_transfers(c, from, to, txs) ==
    [c EXCEPT !.start_block = from, !.end_block = to, !.transfers = txs]

get_block_number(checkpoint) ==
    IF checkpoint.kind = "Tx" THEN TxOf(Txs, checkpoint.hash).block ELSE checkpoint.number

Covers(c, checkpoint, to_block) ==
    /\ c.end_block >= to_block
    /\ IF checkpoint.kind = "Block" THEN c.start_block <= checkpoint.number + 1
       ELSE c.start_block <= get_block_number(checkpoint)

(* The transactions are in order, so that the two _while are filters. *)
serve_from_cache(c, checkpoint, to_block) ==
    IF Covers(c, checkpoint, to_block)
    THEN FirstRows(SelectSeq(c.transfers, LAMBDA tx : /\ IsAfter(Txs, tx, checkpoint)
                                                      /\ tx.block <= to_block))
    ELSE None

-----------------------------------------------------------------------------
(* BlockDataSourceImpl *)

(* get_latest_stable_block_for the time of the latest block; None when there
   is no block of the right age. *)
StableBlocks ==
    {b \in 1 .. tip : /\ b + SecurityParameter + StabilityMargin <= tip
                      /\ Times[b] + MinBoundary <= Times[tip]
                      /\ Times[tip] <= Times[b] + 3 * MinBoundary}

(* Blocks that verification takes for stable: the margin is left out.  The time
   window is that of the Midnight block, which may be an old one that is being
   imported, so that it excludes no block here. *)
Referable == {b \in Blocks : b + SecurityParameter <= tip}

fill_bound(to_block) ==
    LET latest_block == IF StableBlocks = {} THEN to_block ELSE Max(StableBlocks)
    IN  Min({to_block + Lookahead, latest_block})

-----------------------------------------------------------------------------
(* get_transfers *)

Stage(r, stage) == calls[r] # None /\ calls[r].stage = stage

Checkpoints(to_block) ==
    {AtBlock(b) : b \in 0 .. to_block}
        \union {AtTx(Txs[i].hash) : i \in {j \in DOMAIN Txs : Txs[j].block <= to_block}}

InProgress(r) == calls[r] # None /\ calls[r].stage # "returned"

(* The history after set_mc_scripts, and the calls in progress that a change of
   the scripts overtakes. *)
SetFill(r, scripts) ==
    IF scripts = cache.mc_scripts THEN fill
    ELSE Fill(r, scripts, \E o \in Readers : InProgress(o) /\ calls[o].scripts # scripts)

(* A call for the state of some parent block, with the scripts stored there. *)
GetTransfers(r) ==
    /\ calls[r] = None
    /\ \E scripts \in Scripts, to_block \in Referable :
       \E checkpoint \in Checkpoints(to_block) :
          /\ cache' = set_mc_scripts(cache, scripts)
          /\ fill' = SetFill(r, scripts)
          /\ calls' = [o \in Readers |->
                CASE o = r -> [stage |-> "serve", scripts |-> scripts,
                               checkpoint |-> checkpoint, to_block |-> to_block,
                               end_block |-> 0, result |-> None,
                               from |-> Fill(None, None, fill'.mixed)]
                  [] o # r /\ InProgress(o) ->
                         [calls[o] EXCEPT !.from.mixed = @ \/ fill'.mixed]
                  [] OTHER -> calls[o]]
    /\ UNCHANGED tip

Served(c) == serve_from_cache(cache, c.checkpoint, c.to_block)

Return(r, result) ==
    calls' = [calls EXCEPT ![r].stage = "returned", ![r].result = result,
                           ![r].from = [fill EXCEPT !.mixed = @ \/ calls[r].from.mixed]]

TryServe(r) ==
    /\ Stage(r, "serve")
    /\ IF Served(calls[r]) = None THEN calls' = [calls EXCEPT ![r].stage = "fill"]
       ELSE Return(r, txs_to_transfers(Served(calls[r]), calls[r].to_block))
    /\ UNCHANGED <<tip, cache, fill>>

(* The bound is read from db-sync; the rows up to it no longer change. *)
FillCache(r) ==
    /\ Stage(r, "fill")
    /\ calls' = [calls EXCEPT ![r].stage = "store",
                              ![r].end_block = fill_bound(calls[r].to_block)]
    /\ UNCHANGED <<tip, cache, fill>>

StoreCache(r) ==
    LET c == calls[r]
        from_block == get_block_number(c.checkpoint)
        effective_checkpoint == AtBlock(saturating_sub(from_block, 1))
    IN  /\ Stage(r, "store")
        /\ cache' = set_cached_transfers(cache, from_block, c.end_block,
                       get_bridge_txs(Txs, c.scripts, effective_checkpoint, c.end_block))
        /\ fill' = Fill(r, c.scripts, fill.mixed)
        /\ calls' = [calls EXCEPT ![r].stage = "serve again"]
        /\ UNCHANGED tip

Error == [transfers |-> <<>>, checkpoint |-> None]

ServeAgain(r) ==
    /\ Stage(r, "serve again")
    /\ Return(r, IF Served(calls[r]) = None THEN Error
                 ELSE txs_to_transfers(Served(calls[r]), calls[r].to_block))
    /\ UNCHANGED <<tip, cache, fill>>

Done(r) ==
    /\ Stage(r, "returned")
    /\ calls' = [calls EXCEPT ![r] = None]
    /\ UNCHANGED <<tip, cache, fill>>

(* db-sync takes in a block (external). *)
NewBlock ==
    /\ tip < Len(Times)
    /\ tip' = tip + 1
    /\ UNCHANGED <<cache, calls, fill>>

Init ==
    /\ tip = 1 + SecurityParameter
    /\ cache = NewCache
    /\ calls = [r \in Readers |-> None]
    /\ fill = Fill(None, None, FALSE)

Next ==
    \/ NewBlock
    \/ \E r \in Readers :
          \/ GetTransfers(r)
          \/ TryServe(r)
          \/ FillCache(r)
          \/ StoreCache(r)
          \/ ServeAgain(r)
          \/ Done(r)

Spec == Init /\ [][Next]_vars

-----------------------------------------------------------------------------
Answer(c, scripts) == get_transfers(Txs, scripts, c.checkpoint, c.to_block)

Returned(r) == Stage(r, "returned") /\ calls[r].result # Error

(***************************************************************************)
(* The cache changes nothing but the speed: what a call returns from it is *)
(* what TokenBridgeDataSourceImpl returns from the database, whoever       *)
(* filled the cache, for whichever checkpoint and scripts.  All nodes have *)
(* to agree on the inherent, whatever is in their caches.  This does not   *)
(* hold: set_cached_transfers stores the rows a call has fetched under the *)
(* scripts that another call has set meanwhile.                            *)
(***************************************************************************)
AnswersAreTheDatabases ==
    \A r \in Readers : Returned(r) => calls[r].result = Answer(calls[r], calls[r].scripts)

(***************************************************************************)
(* What does hold, however calls interleave: an answer is served from the  *)
(* rows of one fill, whichever call made it and for whichever range, and   *)
(* is all the database has for the scripts of that fill.  These are the    *)
(* scripts of the call itself unless, since the cache was last cleared, it *)
(* has served calls for other scripts at the same time.                    *)
(***************************************************************************)
AnswersAreOfOneFill ==
    \A r \in Readers : Returned(r) =>
        /\ calls[r].result = Answer(calls[r], calls[r].from.scripts)
        /\ ~ calls[r].from.mixed => calls[r].from.scripts = calls[r].scripts

(***************************************************************************)
(* "Data should be present in cache after filling cache succeeded" fails   *)
(* for two reasons only: the fill stopped at the node's own stable block,  *)
(* below the block asked for, or another call has written the cache since. *)
(***************************************************************************)
ErrorsAreExplained ==
    \A r \in Readers : Stage(r, "returned") /\ calls[r].result = Error =>
        calls[r].end_block < calls[r].to_block \/ calls[r].from.by # r
=============================================================================
