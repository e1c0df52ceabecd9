----------------------- MODULE ConsensusEngine_proofs -----------------------
(***************************************************************************)
(* Proofs about ConsensusEngine, for every epoch length, every set of      *)
(* committee sizes and headers of every length.                            *)
(***************************************************************************)
EXTENDS ConsensusEngine, TLAPS

(* What is reachable of the engine state, beside its type: the flip itself  *)
(* never commits, so Babe is not among the states of a head.               *)
EngineIInv ==
    /\ TypeOK
    /\ chain.EngineState # "Babe"
    /\ NoPrematureBabeGenesis
    /\ HonestBlocksPassTheGuard

(* The header that ArmedBabeProposer makes from the parent state satisfies  *)
(* the assertions of on_initialize evaluated in that state.                *)
LEMMA ProposedPassesGuard ==
    ASSUME NEW c \in Chain, NEW s \in Slots, c.EngineState # "Babe"
    PROVE  Guard(c, Proposed(c, s))
<1> DEFINE d == Proposed(c, s)
<1>1. c.Authorities \in Nat \ {0}
  BY EngineAssumption DEF Chain
<1>2. CASE c.EngineState = "Aura"
  <2>1. d = <<AuraItem("exact", s)>>
    BY <1>2 DEF Proposed, should_emit_babe_preruntime_digest
  <2>2. DOMAIN d = {1} /\ d[1].engine = "AURA"
    BY <2>1 DEF AuraItem
  <2>3. ~has_pre_runtime_for(d, "BABE")
    BY <2>2 DEF has_pre_runtime_for
  <2> QED  BY <1>2, <2>3 DEF Guard
<1>3. CASE c.EngineState \in {"ArmedBabe", "ScheduledFlip"}
  <2> DEFINE a == AuraItem("exact", s)
             b == BabeItem("plain", s, s % c.Authorities)
  <2>1. d = <<a, b>>
    BY <1>3 DEF Proposed, should_emit_babe_preruntime_digest
  <2>2. DOMAIN d = {1, 2} /\ d[1] = a /\ d[2] = b
    BY <2>1
  <2>3. /\ a.engine = "AURA" /\ a.kind = "exact" /\ a.slot = s
        /\ b.engine = "BABE" /\ b.kind = "plain" /\ b.slot = s
        /\ b.index = s % c.Authorities
    BY DEF AuraItem, BabeItem
  <2> HIDE DEF d, a, b
  <2>4. {i \in DOMAIN d : d[i].engine = "AURA"} = {1}
    BY <2>2, <2>3
  <2>5. {i \in DOMAIN d : d[i].engine = "BABE"} = {2}
    BY <2>2, <2>3
  <2>6. has_aura_pre_digest_before_babe_pre_digest(d, c.Authorities)
    BY <1>1, <2>2, <2>3, <2>4, <2>5 DEF has_aura_pre_digest_before_babe_pre_digest
  <2> QED  BY <1>3, <2>6 DEF Guard, d
<1> QED  BY <1>2, <1>3 DEF Chain, States

(* pallet-babe's hook keeps the type and the engine state, and touches      *)
(* nothing at all when GenesisSlot is set or no BABE item is there.         *)
LEMMA BabeInitialize ==
    ASSUME NEW c \in Chain, NEW d
    PROVE  /\ babe_initialize(c, d) \in Chain
           /\ babe_initialize(c, d).EngineState = c.EngineState
           /\ c.GenesisSlot # "Unset" => babe_initialize(c, d) = c
           /\ ~has_pre_runtime_for(d, "BABE") => babe_initialize(c, d) = c
BY DEF babe_initialize, has_pre_runtime_for, Chain

(* A governance call keeps the type and the relation between the engine     *)
(* state and pallet-babe's genesis slot.                                    *)
GenesisOK(c) == c.GenesisSlot = IF c.EngineState = "Aura" THEN "Unset" ELSE "Sentinel"

LEMMA CallsKeepGenesis ==
    ASSUME NEW c \in Chain, c.EngineState # "Babe", GenesisOK(c)
    PROVE  \A e \in {arm_babe(c), schedule_flip(c)} :
               e \in Chain /\ e.EngineState # "Babe" /\ GenesisOK(e)
BY DEF arm_babe, schedule_flip, Chain, States, GenesisOK

LEMMA SchedulerKeepsGenesis ==
    ASSUME NEW c \in Chain, c.EngineState # "Babe", GenesisOK(c),
           NEW call \in {"none", "arm_babe", "schedule_flip"}
    PROVE  /\ Scheduler(c, call) \in Chain
           /\ Scheduler(c, call).EngineState # "Babe"
           /\ GenesisOK(Scheduler(c, call))
BY CallsKeepGenesis DEF Scheduler

LEMMA SessionKeepsGenesis ==
    ASSUME NEW c \in Chain, c.EngineState # "Babe", GenesisOK(c),
           NEW n \in Sizes, NEW filled \in BOOLEAN
    PROVE  /\ Session(c, n, filled) \in Chain
           /\ Session(c, n, filled).EngineState # "Babe"
           /\ GenesisOK(Session(c, n, filled))
BY DEF Session, Chain, GenesisOK

(* Time and the epoch flag stay in their types. *)
LEMMA TickTypes ==
    ASSUME TypeOK, NEW committed \in BOOLEAN, Tick(committed)
    PROVE  now' \in Slots /\ due' \in BOOLEAN
<1>1. now + 1 \in Nat /\ Cycle \in Nat \ {0}
  BY EngineAssumption DEF TypeOK, Slots
<1>2. (now + 1) % Cycle \in 0 .. (Cycle - 1)
  BY <1>1
<1> QED  BY <1>2 DEF Tick, Slots, TypeOK, Entering

(* A block that commits saw pallet-babe's storage unchanged by its own      *)
(* header, for the guard refuses the headers that would have changed it.    *)
LEMMA ExecuteKeepsEngine ==
    ASSUME EngineIInv, NEW d, NEW honest \in BOOLEAN, Execute(d, honest),
           honest => Guard(chain, d)
    PROVE  EngineIInv'
<1> DEFINE c == babe_initialize(chain, d)
<1>1. chain \in Chain /\ GenesisOK(chain) /\ chain.EngineState # "Babe"
  BY DEF EngineIInv, TypeOK, NoPrematureBabeGenesis, GenesisOK
<1>2. c \in Chain /\ c.EngineState = chain.EngineState
  BY <1>1, BabeInitialize
<1>3. chain.EngineState # "Aura" => c = chain
  BY <1>1, BabeInitialize DEF GenesisOK
<1>4. chain.EngineState = "Aura" /\ ~has_pre_runtime_for(d, "BABE") => c = chain
  BY <1>1, BabeInitialize
<1>5. Guard(c, d) => c = chain
  BY <1>1, <1>2, <1>3, <1>4 DEF Guard
<1>6. honest => Guard(c, d)
  <2>1. chain.EngineState = "Aura" /\ Guard(chain, d) => ~has_pre_runtime_for(d, "BABE")
    BY DEF Guard
  <2> QED  BY <1>3, <1>4, <2>1
<1> HIDE DEF c
<1>7. CASE ~Guard(c, d) /\ Rejected("rejected", honest)
  <2>1. last' = [outcome |-> "rejected", honest |-> FALSE] /\ UNCHANGED chain
    BY <1>6, <1>7 DEF Rejected, Outcome
  <2>2. now' \in Slots /\ due' \in BOOLEAN
    BY <1>7, TickTypes DEF Rejected, EngineIInv
  <2> QED  BY <1>1, <2>1, <2>2 DEF EngineIInv, TypeOK, NoPrematureBabeGenesis,
                                  HonestBlocksPassTheGuard
<1>8. CASE Rejected("panicked", honest)
  <2>1. last' = [outcome |-> "panicked", honest |-> honest] /\ UNCHANGED chain
    BY <1>8 DEF Rejected, Outcome
  <2>2. now' \in Slots /\ due' \in BOOLEAN
    BY <1>8, TickTypes DEF Rejected, EngineIInv
  <2> QED  BY <1>1, <2>1, <2>2 DEF EngineIInv, TypeOK, NoPrematureBabeGenesis,
                                  HonestBlocksPassTheGuard
<1>9. CASE /\ Guard(c, d)
           /\ \E call \in {"none", "arm_babe", "schedule_flip"}, n \in Sizes, filled \in BOOLEAN :
                 chain' = Session(Scheduler(c, call), n, filled)
           /\ last' = Outcome("imported", honest)
           /\ Tick(TRUE)
  <2>1. PICK call \in {"none", "arm_babe", "schedule_flip"}, n \in Sizes, filled \in BOOLEAN :
            chain' = Session(Scheduler(chain, call), n, filled)
    BY <1>5, <1>9
  <2>2. chain' \in Chain /\ chain'.EngineState # "Babe" /\ GenesisOK(chain')
    <3>1. /\ Scheduler(chain, call) \in Chain
          /\ Scheduler(chain, call).EngineState # "Babe"
          /\ GenesisOK(Scheduler(chain, call))
      BY <1>1, SchedulerKeepsGenesis
    <3> QED  BY <2>1, <3>1, SessionKeepsGenesis
  <2>3. last' = [outcome |-> "imported", honest |-> honest]
    BY <1>9 DEF Outcome
  <2>4. now' \in Slots /\ due' \in BOOLEAN
    BY <1>9, TickTypes DEF EngineIInv
  <2> QED  BY <2>2, <2>3, <2>4 DEF EngineIInv, TypeOK, NoPrematureBabeGenesis,
                                  HonestBlocksPassTheGuard, GenesisOK
<1> QED  BY <1>7, <1>8, <1>9 DEF Execute, c

LEMMA InitEngine == Init => EngineIInv
<1> SUFFICES ASSUME Init PROVE EngineIInv
  OBVIOUS
<1>1. now \in Slots
  BY EngineAssumption DEF Init, Slots
<1>2. /\ chain \in Chain
      /\ chain.EngineState = "Aura" /\ chain.GenesisSlot = "Unset"
  BY DEF Init, Chain, States
<1>3. last.outcome = "empty" /\ last.honest = FALSE
  BY DEF Init
<1>4. /\ due \in BOOLEAN
      /\ last \in [outcome : {"empty", "imported", "rejected", "panicked"}, honest : BOOLEAN]
  BY DEF Init
<1> QED  BY <1>1, <1>2, <1>3, <1>4 DEF EngineIInv, TypeOK, NoPrematureBabeGenesis,
                                       HonestBlocksPassTheGuard

LEMMA NextEngine == EngineIInv /\ [Next]_vars => EngineIInv'
<1> SUFFICES ASSUME EngineIInv, [Next]_vars PROVE EngineIInv'
  OBVIOUS
<1>0. chain \in Chain /\ GenesisOK(chain) /\ chain.EngineState # "Babe" /\ TypeOK
  BY DEF EngineIInv, TypeOK, NoPrematureBabeGenesis, GenesisOK
<1>1. ASSUME NEW s \in Slots, AuthorUpdated(s) PROVE EngineIInv'
  <2>1. Guard(chain, Proposed(chain, s))
    BY <1>0, ProposedPassesGuard
  <2>2. Execute(Proposed(chain, s), TRUE)
    BY <1>1 DEF AuthorUpdated
  <2> QED  BY <2>1, <2>2, ExecuteKeepsEngine
<1>2. CASE AuthorOther
  <2>1. PICK d \in Headers(now) : Execute(d, FALSE)
    BY <1>2 DEF AuthorOther
  <2> QED  BY <2>1, ExecuteKeepsEngine
<1>3. CASE NobodyAuthors
  <2>1. last' = [outcome |-> "empty", honest |-> FALSE] /\ UNCHANGED chain
    BY <1>3 DEF NobodyAuthors, Rejected, Outcome
  <2>2. now' \in Slots /\ due' \in BOOLEAN
    BY <1>0, <1>3, TickTypes DEF NobodyAuthors, Rejected
  <2> QED  BY <1>0, <2>1, <2>2 DEF EngineIInv, TypeOK, NoPrematureBabeGenesis,
                                  HonestBlocksPassTheGuard
<1>4. CASE ArmBabe \/ ScheduleFlip
  <2>1. chain' \in {arm_babe(chain), schedule_flip(chain)} /\ UNCHANGED <<now, due, last>>
    BY <1>4 DEF ArmBabe, ScheduleFlip, Extrinsic
  <2>2. chain' \in Chain /\ chain'.EngineState # "Babe" /\ GenesisOK(chain')
    BY <1>0, <2>1, CallsKeepGenesis
  <2> QED  BY <2>1, <2>2 DEF EngineIInv, TypeOK, NoPrematureBabeGenesis,
                            HonestBlocksPassTheGuard, GenesisOK
<1>5. CASE UNCHANGED vars
  BY <1>5 DEF vars, EngineIInv, TypeOK, NoPrematureBabeGenesis, HonestBlocksPassTheGuard
<1> QED  BY <1>1, <1>2, <1>3, <1>4, <1>5 DEF Next

(***************************************************************************)
(* The invariant of the transition, for every epoch length, committee size *)
(* and header: it includes that no head is ever in state Babe.             *)
(***************************************************************************)
THEOREM EngineInvariance == Spec => []EngineIInv
BY InitEngine, NextEngine, PTL DEF Spec

(* No block of an updated node is refused by the digest guards, whatever    *)
(* the scheduler and the session did in the blocks before it.               *)
THEOREM HonestBlocksAreSafe == Spec => []HonestBlocksPassTheGuard
<1>1. EngineIInv => HonestBlocksPassTheGuard
  BY DEF EngineIInv
<1> QED  BY <1>1, EngineInvariance, PTL

(* pallet-babe never initializes a genesis epoch from a committed header.   *)
THEOREM BabeGenesisIsSuppressed == Spec => []NoPrematureBabeGenesis
<1>1. EngineIInv => NoPrematureBabeGenesis
  BY DEF EngineIInv
<1> QED  BY <1>1, EngineInvariance, PTL

=============================================================================
