------------------------------- MODULE McHash -------------------------------
(***************************************************************************)
(* The reference every block makes to a stable Cardano block: how an       *)
(* author chooses it (McHashInherentDataProvider::new_proposal), how the   *)
(* other nodes verify it (new_verification, and the retry loop of          *)
(* VerifierCIDP in node/src/inherent_data.rs), and the db-sync data source *)
(* with its cache of stable blocks (data-sources/db-sync/src/block).       *)
(*                                                                         *)
(* Cardano is a growing main chain.  Each node sees it through its own     *)
(* db-sync: a prefix, and on top of it at most SecurityParameter blocks    *)
(* that will be rolled back, which is what the parameter promises.         *)
(***************************************************************************)
EXTENDS Integers, Sequences, FiniteSetsExt

CONSTANTS Nodes,
          SecurityParameter,   \* confirmations of a stable block
          StabilityMargin,     \* block_stability_margin
          MinBoundary,         \* min_slot_boundary, k / f
          CacheSize,
          MaxRetries,          \* cardano_check_max_retries
          MaxTime,             \* bound on the clock
          None

ASSUME McHashAssumption ==
    /\ SecurityParameter \in Nat \ {0}
    /\ {StabilityMargin, MinBoundary, CacheSize, MaxRetries, MaxTime} \subseteq Nat
    /\ MinBoundary % SecurityParameter = 0
    /\ None \notin Nodes

VARIABLES clock,
          main,      \* the time of every block of Cardano's main chain, by number + 1
          view,      \* per node: the blocks its db-sync holds
          cache,     \* per node: stable_blocks_cache
          head,      \* per node: slot and reference of the block it builds on
          proposal,  \* the block that is going round
          ver,       \* per node: the state of its verification of the proposal
          verdict    \* the verdict of this step, for the properties

vars == <<clock, main, view, cache, head, proposal, ver, verdict>>

Block(no, time, on) == [no |-> no, time |-> time, on |-> on]
Number(i) == i - 1
MainBlock(i) == Block(Number(i), main[i], "main")
Unknown == Block(0, 0, "nowhere")

(* The block table of a node, as the set of its rows. *)
Table(n) ==
    {MainBlock(i) : i \in 1 .. view[n].synced}
    \union {Block(Number(view[n].synced + i), view[n].tail[i], n) :
               i \in DOMAIN view[n].tail}

Genesis == [slot |-> 0, ref |-> None]
Idle == [stage |-> "idle", found |-> FALSE, behind |-> FALSE, tries |-> 0]

(* Cardano is older than the confirmations a proposal asks for, so that none *)
(* of the saturating subtractions below stops at zero.                       *)
Age == SecurityParameter + StabilityMargin

(* from_config: the time between two blocks, and the age at which the tip is *)
(* no longer fresh.                                                          *)
ExpectedInterval == MinBoundary \div SecurityParameter
MaxLatestBlockAge == Max({StabilityMargin, 1}) * ExpectedInterval

Init ==
    /\ clock = Age * ExpectedInterval
    /\ main = [i \in 1 .. (Age + 1) |-> Number(i) * ExpectedInterval]
    /\ view = [n \in Nodes |-> [synced |-> Age + 1, tail |-> <<>>]]
    /\ cache = [n \in Nodes |-> {}]
    /\ head = [n \in Nodes |-> Genesis]
    /\ proposal = None
    /\ ver = [n \in Nodes |-> Idle]
    /\ verdict = None

-----------------------------------------------------------------------------
(* Time, Cardano and its observers. *)

Tick ==
    /\ clock < MaxTime
    /\ clock' = clock + 1
    /\ \/ main' = Append(main, clock')
       \/ UNCHANGED main
    /\ verdict' = None
    /\ UNCHANGED <<view, cache, head, proposal, ver>>

SetView(n, v) ==
    /\ view' = [view EXCEPT ![n] = v]
    /\ verdict' = None
    /\ UNCHANGED <<clock, main, cache, head, proposal, ver>>

(* db-sync inserts the next block of the main chain, ... *)
DbSyncFollows(n) ==
    /\ view[n].tail = <<>>
    /\ view[n].synced < Len(main)
    /\ SetView(n, [view[n] EXCEPT !.synced = @ + 1])

(* ... or a block that will turn out not to be on it, ... *)
DbSyncForks(n) ==
    /\ Len(view[n].tail) < SecurityParameter
    /\ SetView(n, [view[n] EXCEPT !.tail = Append(@, clock)])

(* ... which it deletes again. *)
DbSyncRollsBack(n) ==
    /\ view[n].tail # <<>>
    /\ SetView(n, [view[n] EXCEPT !.tail = <<>>])

-----------------------------------------------------------------------------
(* The data source. *)

Monus(a, b) == IF a < b THEN 0 ELSE a - b

LatestNumber(n) == Number(view[n].synced + Len(view[n].tail))

is_stable_block_time_valid(b, time) ==
    time - 3 * MinBoundary <= b.time /\ b.time <= time - MinBoundary

(* Zero or one block: the highest one allowed. *)
get_latest_block(n, max, time) ==
    LET allowed == {b \in Table(n) : b.no <= max /\ is_stable_block_time_valid(b, time)}
    IN  {b \in allowed : \A c \in allowed : c.no <= b.no}

get_latest_stable_block_for(n, time) ==
    get_latest_block(n, Monus(LatestNumber(n), SecurityParameter + StabilityMargin), time)

get_block_by_hash_cached(n, b) == b \in cache[n]

get_block_by_hash(n, b) == b \in cache[n] \union Table(n)

is_cardano_tip_fresh(n) ==
    \E b \in Table(n) : b.no = LatestNumber(n) /\ Monus(clock, b.time) < MaxLatestBlockAge

is_cardano_ok(n) ==
    /\ \E b \in Table(n) : b.no = LatestNumber(n) /\ clock - MinBoundary <= b.time
    /\ get_latest_block(n, Monus(LatestNumber(n), SecurityParameter), clock) # {}

HasConfirmations_known(n, b) == b.no <= LatestNumber(n)

HasConfirmations(n, b) == b.no + SecurityParameter <= LatestNumber(n)

fill_cache(n, b) ==
    LET to == Min({b.no + CacheSize, Monus(LatestNumber(n), SecurityParameter)})
    IN  IF to > b.no THEN {c \in Table(n) : b.no <= c.no /\ c.no <= to} ELSE {b}

get_stable_block_by_hash(n, b, time) ==
    LET valid == is_stable_block_time_valid(b, time)
    IN  CASE b \in cache[n] /\ valid -> "BlockStable"
          [] ~(b \in cache[n] /\ valid) /\ b \notin Table(n) -> "BlockNotFound"
          [] b \in Table(n) /\ ~valid -> "BlockTimestampOutRange"
          [] b \in Table(n) \ cache[n] /\ valid /\ ~HasConfirmations(n, b) ->
                "NotEnoughConfirmations"
          [] b \in Table(n) \ cache[n] /\ valid /\ HasConfirmations(n, b) -> "BlockStable"

-----------------------------------------------------------------------------
(* Proposing. *)

(* Everybody but the author is to verify the block.  The reference is the   *)
(* latest stable block of the author, the one of the parent, or another.     *)
Broadcast(n, ref, kind) ==
    /\ clock > head[n].slot
    /\ proposal = None      \* no other block is being verified
    /\ proposal' = [author |-> n, parent |-> head[n], slot |-> clock, ref |-> ref, kind |-> kind,
                    seen |-> IF kind = "latest" THEN LatestNumber(n) ELSE 0]
    /\ verdict' = None
    /\ UNCHANGED <<clock, main, view, cache, ver>>

new_proposal_ignoring_parent(parent, latest) == latest

new_proposal(parent, latest) ==
    IF parent = None \/ latest.no >= parent.no THEN latest ELSE parent

(* ProposalCIDP: without a stable block, or without the parent's, no block. *)
Propose(n) ==
    /\ head[n].ref # None => get_block_by_hash(n, head[n].ref)
    /\ \E latest \in get_latest_stable_block_for(n, clock) :
          LET ref == new_proposal(head[n].ref, latest)
          IN  /\ Broadcast(n, ref, IF ref = latest THEN "latest" ELSE "parent")
              /\ head' = [head EXCEPT ![n] = [slot |-> clock, ref |-> ref]]

(* A header whose reference was not chosen by new_proposal; its author does *)
(* not build on it.                                                         *)
ProposeOther(n) ==
    /\ \E ref \in UNION {Table(m) : m \in Nodes} \union {Unknown} : Broadcast(n, ref, "other")
    /\ UNCHANGED head

-----------------------------------------------------------------------------
(* Verifying. *)

Verifying(n, stage) ==
    /\ proposal # None
    /\ n # proposal.author
    /\ ver[n].stage = stage

(* Node n is done with the proposal; after the last node it is forgotten. *)
Done(n) ==
    LET others == Nodes \ {n, proposal.author}
    IN  IF \A m \in others : ver[m].stage = "done"
        THEN /\ proposal' = None
             /\ ver' = [m \in Nodes |-> Idle]
        ELSE /\ ver' = [ver EXCEPT ![n] = [Idle EXCEPT !.stage = "done"]]
             /\ UNCHANGED proposal

Behind(n) == LatestNumber(n) + StabilityMargin < proposal.seen

Decide(n, outcome, behind) ==
    /\ verdict' = [outcome |-> outcome, kind |-> proposal.kind, behind |-> behind]
    /\ Done(n)

Accept(n) ==
    /\ Decide(n, "Ok", FALSE)
    /\ head' = [head EXCEPT ![n] = [slot |-> proposal.slot, ref |-> proposal.ref]]

(* new_verification from its match on the classification on. *)
Conclude(n) ==
    LET parent == head[n].ref
    IN  \/ /\ parent = None
           /\ Accept(n)
        \/ /\ parent # None
           /\ ~get_block_by_hash(n, parent)
           /\ Decide(n, "Panic", FALSE)
           /\ UNCHANGED head
        \/ /\ parent # None
           /\ get_block_by_hash(n, parent)
           /\ proposal.ref.no < parent.no
           /\ Decide(n, "Regressed", FALSE)
           /\ UNCHANGED head
        \/ /\ parent # None
           /\ get_block_by_hash(n, parent)
           /\ proposal.ref.no >= parent.no
           /\ Accept(n)

(* classify_block_hash up to its second query. *)
Classify(n) ==
    LET found == get_stable_block_by_hash(n, proposal.ref, proposal.slot)
    IN  /\ Verifying(n, "idle")
        /\ head[n] = proposal.parent
        /\ \/ /\ found = "BlockStable"
              /\ cache' = [cache EXCEPT ![n] =
                             IF proposal.ref \in @ THEN @ ELSE fill_cache(n, proposal.ref)]
              /\ Conclude(n)
           \/ /\ found = "BlockTimestampOutRange"
              /\ Decide(n, "Invalid", Behind(n))
              /\ UNCHANGED <<cache, head>>
           \/ /\ found \in {"NotEnoughConfirmations", "BlockNotFound"}
              /\ ver' = [ver EXCEPT ![n].stage = "doubt",
                                    ![n].found = (found = "NotEnoughConfirmations"),
                                    ![n].behind = Behind(n)]
              /\ verdict' = None
              /\ UNCHANGED <<cache, head, proposal>>
        /\ UNCHANGED <<clock, main, view>>

Healthy(n) == IF ver[n].found THEN is_cardano_tip_fresh(n) ELSE is_cardano_ok(n)

(* The second query of classify_block_hash: a healthy view rules the reference *)
(* out, another one makes VerifierCIDP wait and try again, up to a limit.      *)
JudgeInvalid(n) ==
    /\ Verifying(n, "doubt")
    /\ Healthy(n)
    /\ Decide(n, "Invalid", ver[n].behind)
    /\ UNCHANGED <<clock, main, view, cache, head>>

Retry_once_more(n) ==
    /\ Verifying(n, "doubt")
    /\ ~Healthy(n)
    /\ ver[n].tries <= MaxRetries
    /\ ver' = [ver EXCEPT ![n] = [Idle EXCEPT !.tries = ver[n].tries + 1]]
    /\ verdict' = None
    /\ UNCHANGED <<clock, main, view, cache, head, proposal>>

Retry(n) ==
    /\ Verifying(n, "doubt")
    /\ ~Healthy(n)
    /\ \/ /\ ver[n].tries < MaxRetries
          /\ ver' = [ver EXCEPT ![n] = [Idle EXCEPT !.tries = ver[n].tries + 1]]
          /\ verdict' = None
          /\ UNCHANGED proposal
       \/ /\ ver[n].tries >= MaxRetries
          /\ Decide(n, "Awaiting", ver[n].behind)
    /\ UNCHANGED <<clock, main, view, cache, head>>

(* A node on another branch does not have the proposal's parent. *)
NotOurParent(n) ==
    /\ Verifying(n, "idle")
    /\ head[n] # proposal.parent
    /\ Done(n)
    /\ verdict' = None
    /\ UNCHANGED <<clock, main, view, cache, head>>

Next ==
    \/ Tick
    \/ \E n \in Nodes :
          \/ DbSyncFollows(n)
          \/ DbSyncForks(n)
          \/ DbSyncRollsBack(n)
          \/ Propose(n)
          \/ ProposeOther(n)
          \/ Classify(n)
          \/ JudgeInvalid(n)
          \/ Retry(n)
          \/ NotOurParent(n)

Spec == Init /\ [][Next]_vars

-----------------------------------------------------------------------------
(* Types of the views, caches and verifications; an accepted reference exists. *)
TypeOK ==
    /\ clock \in 0 .. MaxTime
    /\ main \in Seq(0 .. MaxTime)
    /\ \A n \in Nodes :
          /\ view[n].synced \in 1 .. Len(main)
          /\ Len(view[n].tail) <= SecurityParameter
          /\ \A b \in cache[n] : b.no \in 0 .. MaxTime
          /\ ver[n].stage \in {"idle", "doubt", "done"}
          /\ ver[n].tries \in 0 .. MaxRetries
          /\ head[n].ref = None \/ head[n].ref.on # "nowhere"

(***************************************************************************)
(* A reference that any node has proposed or accepted is a block of        *)
(* Cardano's main chain: no rollback, no fork that a db-sync has followed, *)
(* no reference of another author and no entry of the cache of stable      *)
(* blocks brings in one that Cardano will drop.                            *)
(***************************************************************************)
AcceptedReferencesArePermanent ==
    \A n \in Nodes : head[n].ref = None \/ head[n].ref.on = "main"

(***************************************************************************)
(* The latest stable block of an author is refused as invalid only by a    *)
(* node whose db-sync was more than block_stability_margin blocks behind   *)
(* the author's, whatever rollbacks either has seen; and no reference that *)
(* new_proposal chose is refused as older than the parent's.               *)
(***************************************************************************)
InSyncVerifierAccepts ==
    verdict # None =>
        /\ verdict.outcome = "Invalid" /\ verdict.kind = "latest" => verdict.behind
        /\ verdict.outcome = "Regressed" => verdict.kind = "other"

(***************************************************************************)
(* The `expect' in new_verification holds: when the reference of a block   *)
(* is stable, the one of its parent, which this node accepted, is found.   *)
(***************************************************************************)
ParentReferenceIsFound == verdict # None => verdict.outcome # "Panic"
=============================================================================
