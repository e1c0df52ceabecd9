--------------------------- MODULE ConsensusEngine ---------------------------
(***************************************************************************)
(* The AURA -> BABE transition: pallets/consensus-engine, the hooks that   *)
(* run around it in a block (runtime/src/lib.rs, pallet index order), and  *)
(* the proposer wrapper that attaches the BABE pre-runtime digest          *)
(* (node/src/armed_babe_proposer.rs).                                      *)
(*                                                                         *)
(* One step passes one slot: nobody authors in it, or a block is authored  *)
(* on the current head and executed, which either commits or, when a hook  *)
(* panics, leaves no trace.  Slots are counted modulo Cycle, a multiple of *)
(* the epoch length and of every committee size, so that `slot % n' and    *)
(* the place of a slot in its epoch are those of the full counter.         *)
(***************************************************************************)
EXTENDS Integers, Sequences

CONSTANTS EpochDuration,  \* slots of an epoch
          Cycle,          \* slots are numbered modulo Cycle
          Sizes,          \* committee sizes, pallet_aura::Authorities.len()
          MaxLogs         \* bound on the pre-runtime items of a header

ASSUME EngineAssumption ==
    /\ EpochDuration \in Nat \ {0, 1}
    /\ Cycle \in Nat \ {0}
    /\ Sizes \subseteq Nat \ {0}
    /\ MaxLogs \in Nat
    /\ \A n \in Sizes \union {EpochDuration} : Cycle % n = 0

VARIABLES now,    \* the slot that is about to pass
          chain,  \* the runtime storage at the head
          due,    \* the head's epoch is over: its next block rotates the session
          last    \* what became of the slot that passed last

vars == <<now, chain, due, last>>

Slots == 0 .. (Cycle - 1)
States == {"Aura", "ArmedBabe", "ScheduledFlip", "Babe"}
Engines == {"AURA", "BABE"}

(***************************************************************************)
(* A pre-runtime item.  "exact" (AURA) and "plain" / "vrf" (BABE: a        *)
(* SecondaryPlain, or a Primary / SecondaryVRF) decode with DecodeAll; a   *)
(* "trailing" item decodes only with plain Decode; "garbage" never does.   *)
(***************************************************************************)
AuraItem(kind, s) == [engine |-> "AURA", kind |-> kind, slot |-> s, index |-> 0]
BabeItem(kind, s, i) == [engine |-> "BABE", kind |-> kind, slot |-> s, index |-> i]

Chain == [EngineState : States,
          GenesisSlot : {"Unset", "Sentinel", "FromDigest"},
          Authorities : Sizes,               \* AURA authorities
          BabeAuthorities : BOOLEAN]         \* pallet_babe::Authorities is filled

Init ==
    /\ now = 0
    /\ chain \in [EngineState : {"Aura"}, GenesisSlot : {"Unset"},
                  Authorities : Sizes, BabeAuthorities : {FALSE}]
    /\ due = FALSE
    /\ last = [outcome |-> "empty", honest |-> FALSE]

-----------------------------------------------------------------------------
(* The block author. *)

should_emit_babe_preruntime_digest(c) == c.EngineState \in {"ArmedBabe", "ScheduledFlip"}

(* ArmedBabeProposer::propose: the AURA worker's own digest, and after it the *)
(* SecondaryPlain item when the parent state says so.                        *)
Proposed(c, s) ==
    IF should_emit_babe_preruntime_digest(c)
    THEN <<AuraItem("exact", s), BabeItem("plain", s, s % c.Authorities)>>
    ELSE <<AuraItem("exact", s)>>

(***************************************************************************)
(* Headers of other authors: any pre-runtime items around the well-formed  *)
(* AURA item without which the client does not import a block at all.      *)
(***************************************************************************)
Items(s) ==
    {AuraItem("exact", s), AuraItem("trailing", s)}
    \union {BabeItem(kind, s, 0) : kind \in {"vrf", "trailing", "garbage"}}
    \union {BabeItem("plain", t, i) :
               t \in {s, (s + 1) % Cycle}, i \in UNION {0 .. (n - 1) : n \in Sizes}}

Headers(s) ==
    {d \in UNION {[1 .. k -> Items(s)] : k \in 1 .. MaxLogs} :
        \E i \in DOMAIN d : d[i] = AuraItem("exact", s)}

-----------------------------------------------------------------------------
(* The hooks of a block, in pallet index order. *)

(* pallet_babe (3): its first decodable item starts the genesis epoch when *)
(* GenesisSlot is still zero.                                              *)
babe_initialize(c, d) ==
    IF /\ c.GenesisSlot = "Unset"
       /\ \E i \in DOMAIN d : d[i].engine = "BABE" /\ d[i].kind # "garbage"
    THEN [c EXCEPT !.GenesisSlot = "FromDigest"]
    ELSE c

has_pre_runtime_for_decoded(d, engine) ==
    \E i \in DOMAIN d : d[i].engine = engine /\ d[i].kind \in {"exact", "plain", "vrf"}

has_pre_runtime_for(d, engine) == \E i \in DOMAIN d : d[i].engine = engine

has_aura_pre_digest_before_babe_pre_digest(d, n) ==
    LET At(engine) == {i \in DOMAIN d : d[i].engine = engine}
    IN  \E a, b \in DOMAIN d :
          /\ At("AURA") = {a} /\ At("BABE") = {b} /\ a < b
          /\ d[a].kind = "exact" /\ d[b].kind = "plain"
          /\ d[b].slot = d[a].slot
          /\ n # 0 /\ d[b].index = d[a].slot % n

(* The assertions of consensus-engine's on_initialize (10). *)
Guard(c, d) ==
    CASE c.EngineState = "Aura" -> ~has_pre_runtime_for(d, "BABE")
      [] c.EngineState \in {"ArmedBabe", "ScheduledFlip"} ->
            has_aura_pre_digest_before_babe_pre_digest(d, c.Authorities)
      [] c.EngineState = "Babe" -> ~has_pre_runtime_for(d, "AURA")

is_last_slot_of_epoch_always(s) == TRUE

is_last_slot_of_epoch(s) == (s + 1) % EpochDuration = 0

(* The flip that on_initialize performs; migrate_to_babe writes pallet-babe's *)
(* genesis and then panics, which discards the block with all it wrote.      *)
migrate_to_babe_panics(c, s) ==
    /\ c.EngineState = "ScheduledFlip"
    /\ is_last_slot_of_epoch(s)
    /\ c.BabeAuthorities

arm_babe(c) ==
    IF c.EngineState = "Aura"
    THEN [c EXCEPT !.GenesisSlot = "Sentinel", !.EngineState = "ArmedBabe"]
    ELSE c

schedule_flip(c) ==
    IF c.EngineState = "ArmedBabe" THEN [c EXCEPT !.EngineState = "ScheduledFlip"] ELSE c

(* pallet_scheduler (18) may dispatch a governance call during initialization. *)
Scheduler(c, call) ==
    CASE call = "none" -> c
      [] call = "arm_babe" -> arm_babe(c)
      [] call = "schedule_flip" -> schedule_flip(c)

Session_drops_member(c, n, filled) ==
    IF due THEN [c EXCEPT !.Authorities = n - 1] ELSE c

(* pallet_session (30): the first block of an epoch installs the next        *)
(* committee, of size n, with BABE keys once its members have registered.    *)
Session(c, n, filled) ==
    IF due
    THEN [c EXCEPT !.Authorities = n, !.BabeAuthorities = @ \/ filled]
    ELSE c

-----------------------------------------------------------------------------
Entering(s) == s % EpochDuration = 0

(* The slot passes: the head's epoch is over once the next slot opens another. *)
Tick(committed) ==
    /\ now' = (now + 1) % Cycle
    /\ due' = ((due /\ ~committed) \/ Entering(now'))

Outcome(outcome, honest) == [outcome |-> outcome, honest |-> honest]

Rejected(outcome, honest) ==
    /\ last' = Outcome(outcome, honest)
    /\ Tick(FALSE)
    /\ UNCHANGED chain

(* The hooks run with the session and the scheduler ahead of the guard. *)
Execute_guard_last(d, honest) ==
    \E call \in {"none", "arm_babe", "schedule_flip"}, n \in Sizes, filled \in BOOLEAN :
        LET c == Session(Scheduler(babe_initialize(chain, d), call), n, filled)
        IN  \/ /\ ~Guard(c, d)
               /\ Rejected("rejected", honest)
            \/ /\ Guard(c, d)
               /\ chain' = c
               /\ last' = Outcome("imported", honest)
               /\ Tick(TRUE)

(* Executive::initialize_block for a block with header d. *)
Execute(d, honest) ==
    LET c == babe_initialize(chain, d)
    IN  \/ /\ ~Guard(c, d)
           /\ Rejected("rejected", honest)
        \/ /\ Guard(c, d)
           /\ migrate_to_babe_panics(c, now)
           /\ Rejected("panicked", honest)
        \/ /\ Guard(c, d)
           /\ ~migrate_to_babe_panics(c, now)
           /\ \E call \in {"none", "arm_babe", "schedule_flip"}, n \in Sizes, filled \in BOOLEAN :
                 chain' = Session(Scheduler(c, call), n, filled)
           /\ last' = Outcome("imported", honest)
           /\ Tick(TRUE)

(* A node with the proposer wrapper authors slot s. *)
AuthorUpdated(s) ==
    /\ now = s
    /\ Execute(Proposed(chain, s), TRUE)

(* babe_emit_context failed to reach the runtime, the node is an older one, or *)
(* the header is not one this node would make.                                *)
AuthorOther ==
    \E d \in Headers(now) : Execute(d, FALSE)

NobodyAuthors == Rejected("empty", FALSE)

(* An approved motion dispatches a call as root, in an extrinsic of the block *)
(* whose initialization is over.                                             *)
Extrinsic(call(_)) ==
    /\ last.outcome = "imported"
    /\ call(chain) # chain
    /\ chain' = call(chain)
    /\ UNCHANGED <<now, due, last>>

ArmBabe == Extrinsic(arm_babe)
ScheduleFlip == Extrinsic(schedule_flip)

Next ==
    \/ \E s \in Slots : AuthorUpdated(s)
    \/ AuthorOther
    \/ NobodyAuthors
    \/ ArmBabe
    \/ ScheduleFlip

Spec == Init /\ [][Next]_vars

(* Governance arms the flip only once the nodes are updated, so that in the   *)
(* long run every place of the rotation has an author that is.               *)
Fairness == \A s \in Slots : SF_vars(AuthorUpdated(s))

LiveSpec == Spec /\ Fairness

-----------------------------------------------------------------------------
(* Types of the runtime storage and of the outcome of a slot. *)
TypeOK ==
    /\ now \in Slots
    /\ chain \in Chain
    /\ due \in BOOLEAN
    /\ last \in [outcome : {"empty", "imported", "rejected", "panicked"}, honest : BOOLEAN]

(***************************************************************************)
(* A block of an updated node is never refused by the digest guards: the   *)
(* author, who reads the engine state and the committee size at the        *)
(* parent, and the guard, which reads them after some hooks of the block   *)
(* have run, agree in every block, also when the scheduler arms or         *)
(* schedules in its initialization and when the session resizes the        *)
(* committee in it.                                                        *)
(***************************************************************************)
HonestBlocksPassTheGuard == ~(last.honest /\ last.outcome = "rejected")

(***************************************************************************)
(* pallet-babe never starts a genesis epoch of its own, whatever BABE      *)
(* pre-runtime items the committed headers carry: before arming none of    *)
(* them reaches it, and from arming on the sentinel in GenesisSlot is in   *)
(* place before the first one does.                                        *)
(***************************************************************************)
NoPrematureBabeGenesis ==
    chain.GenesisSlot = IF chain.EngineState = "Aura" THEN "Unset" ELSE "Sentinel"

(***************************************************************************)
(* The panic at the end of migrate_to_babe does not stop the chain: with   *)
(* updated authors at every place of the rotation, blocks are imported     *)
(* again and again, in every engine state.                                 *)
(***************************************************************************)
ChainKeepsGrowing == []<>(last.outcome = "imported")

=============================================================================
