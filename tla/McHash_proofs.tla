---------------------------- MODULE McHash_proofs ----------------------------
(***************************************************************************)
(* For any number of nodes, any depth of confirmation and any size of the  *)
(* cache: a reference that was once accepted is a block of Cardano's main  *)
(* chain for ever, and it is found when the next block is verified.        *)
(*                                                                         *)
(* The invariant that carries both: whatever a node keeps (its cache of    *)
(* stable blocks, the reference of its head) lies on the part of its       *)
(* db-sync that no rollback touches.  It rests on one fact about numbers,  *)
(* ConfirmedIsSettled: a row with SecurityParameter rows above it is not   *)
(* among the at most SecurityParameter rows that may be rolled back.       *)
(***************************************************************************)
EXTENDS McHash, TLAPS

(* The rows of a node's block table that stay. *)
Settled(n) == {MainBlock(i) : i \in 1 .. view[n].synced}

MainBlocks == [no : Int, time : Int, on : {"main"}]

ViewInv ==
    /\ clock \in Int
    /\ main \in Seq(Int)
    /\ view \in [Nodes -> [synced : Nat \ {0}, tail : Seq(Int)]]
    /\ \A n \in Nodes :
          /\ view[n].synced <= Len(main)
          /\ Len(view[n].tail) <= SecurityParameter

KeptInv ==
    /\ cache \in [Nodes -> SUBSET MainBlocks]
    /\ head \in [Nodes -> [slot : Int, ref : MainBlocks \union {None}]]
    /\ \A n \in Nodes :
          /\ cache[n] \subseteq Settled(n)
          /\ head[n].ref \in Settled(n) \union {None}

ProposalInv == proposal # None => proposal.slot \in Int

IInv == ViewInv /\ KeptInv /\ ProposalInv /\ ParentReferenceIsFound

-----------------------------------------------------------------------------
(* A row that is low enough to be confirmed, or is the first of all, is one *)
(* that stays (the comparison of get_stable_block_by_hash, and the limit on *)
(* the number in get_latest_block).                                         *)
LEMMA ConfirmedIsSettled ==
    ASSUME ViewInv, NEW n \in Nodes, NEW b \in Table(n),
           \/ b.no + SecurityParameter <= LatestNumber(n)
           \/ b.no <= 0
    PROVE  b \in Settled(n)
<1>1. CASE b \in {MainBlock(i) : i \in 1 .. view[n].synced}
  BY <1>1 DEF Settled
<1>2. CASE b \in {Block(Number(view[n].synced + i), view[n].tail[i], n) :
                     i \in DOMAIN view[n].tail}
  <2>1. PICK i \in DOMAIN view[n].tail :
            b = Block(Number(view[n].synced + i), view[n].tail[i], n)
    BY <1>2
  <2>2. /\ view[n].synced \in Nat \ {0}
        /\ view[n].tail \in Seq(Int)
        /\ Len(view[n].tail) \in Nat
        /\ Len(view[n].tail) <= SecurityParameter
    BY DEF ViewInv
  <2>3. i \in 1 .. Len(view[n].tail)
    BY <2>1, <2>2
  <2>4. b.no = view[n].synced + i - 1
    BY <2>1, <2>2, <2>3 DEF Block, Number
  <2>5. LatestNumber(n) = view[n].synced + Len(view[n].tail) - 1
    BY <2>2 DEF LatestNumber, Number
  <2>6. SecurityParameter \in Nat
    BY McHashAssumption
  <2>7. \/ view[n].synced + i - 1 + SecurityParameter
               <= view[n].synced + Len(view[n].tail) - 1
        \/ view[n].synced + i - 1 <= 0
    BY <2>4, <2>5
  <2> QED
    BY <2>2, <2>3, <2>6, <2>7
<1> QED
  BY <1>1, <1>2 DEF Table

(* Settled rows are rows of the main chain, and rows of the table. *)
LEMMA SettledRows ==
    ASSUME ViewInv, NEW n \in Nodes
    PROVE  Settled(n) \subseteq MainBlocks /\ Settled(n) \subseteq Table(n)
<1>1. ASSUME NEW i \in 1 .. view[n].synced
      PROVE  MainBlock(i) \in MainBlocks
  BY <1>1 DEF MainBlock, Block, Number, MainBlocks, ViewInv
<1> QED
  BY <1>1 DEF Settled, Table

(* Cardano's growth and db-sync's steps only ever add settled rows. *)
LEMMA SettledGrows ==
    ASSUME ViewInv, NEW n \in Nodes,
           view'[n].synced \in Nat,
           view[n].synced <= view'[n].synced,
           \A i \in 1 .. Len(main) : main'[i] = main[i]
    PROVE  Settled(n) \subseteq Settled(n)'
<1>1. ASSUME NEW i \in 1 .. view[n].synced
      PROVE  i \in 1 .. view'[n].synced /\ MainBlock(i)' = MainBlock(i)
  <2>1. /\ view[n].synced \in Nat
        /\ Len(main) \in Nat
        /\ view[n].synced <= Len(main)
    BY DEF ViewInv
  <2>2. i \in 1 .. view'[n].synced /\ main'[i] = main[i]
    BY <1>1, <2>1
  <2> QED
    BY <2>2 DEF MainBlock, Block, Number
<1> QED
  BY <1>1 DEF Settled

-----------------------------------------------------------------------------
(* The numbers the data source computes with. *)
LEMMA Numbers ==
    ASSUME ViewInv, NEW n \in Nodes
    PROVE  /\ SecurityParameter \in Nat
           /\ StabilityMargin \in Nat
           /\ CacheSize \in Nat
           /\ LatestNumber(n) \in Nat
           /\ \A b \in Table(n) : b.no \in Int
<1>1. /\ view[n].synced \in Nat \ {0}
      /\ view[n].tail \in Seq(Int)
      /\ Len(view[n].tail) \in Nat
  BY DEF ViewInv
<1>2. LatestNumber(n) \in Nat
  BY <1>1 DEF LatestNumber, Number
<1>3. ASSUME NEW b \in Table(n)
      PROVE  b.no \in Int
  <2>1. CASE b \in {MainBlock(i) : i \in 1 .. view[n].synced}
    BY <2>1, <1>1 DEF MainBlock, Block, Number
  <2>2. CASE b \in {Block(Number(view[n].synced + i), view[n].tail[i], n) :
                       i \in DOMAIN view[n].tail}
    <3>1. PICK i \in DOMAIN view[n].tail :
              b = Block(Number(view[n].synced + i), view[n].tail[i], n)
      BY <2>2
    <3>2. i \in Int
      BY <3>1, <1>1
    <3> QED
      BY <3>1, <3>2, <1>1 DEF Block, Number
  <2> QED
    BY <1>3, <2>1, <2>2 DEF Table
<1> QED
  BY <1>2, <1>3, McHashAssumption

(* Both searches for the highest block stop below the confirmations. *)
LEMMA LatestIsSettled ==
    ASSUME ViewInv, NEW n \in Nodes, NEW time,
           NEW b \in get_latest_stable_block_for(n, time)
    PROVE  b \in Settled(n)
<1>1. /\ b \in Table(n)
      /\ b.no <= Monus(LatestNumber(n), SecurityParameter + StabilityMargin)
  BY DEF get_latest_stable_block_for, get_latest_block
<1>2. /\ SecurityParameter \in Nat
      /\ StabilityMargin \in Nat
      /\ LatestNumber(n) \in Nat
      /\ b.no \in Int
  BY <1>1, Numbers
<1>3. \/ b.no + SecurityParameter <= LatestNumber(n)
      \/ b.no <= 0
  BY <1>1, <1>2 DEF Monus
<1> QED
  BY <1>1, <1>3, ConfirmedIsSettled

(* What get_stable_block_by_hash calls stable is settled: it comes from the *)
(* cache, or has its confirmations.                                         *)
LEMMA StableIsSettled ==
    ASSUME ViewInv, KeptInv, NEW n \in Nodes, NEW b, NEW time,
           get_stable_block_by_hash(n, b, time) = "BlockStable"
    PROVE  b \in Settled(n)
<1>1. CASE b \in cache[n]
  BY <1>1 DEF KeptInv
<1>2. CASE b \notin cache[n]
  <2> DEFINE valid == is_stable_block_time_valid(b, time)
             confirmed == HasConfirmations(n, b)
  <2>1. valid \in BOOLEAN /\ confirmed \in BOOLEAN
    BY DEF is_stable_block_time_valid, HasConfirmations
  <2>2. b \in Table(n) /\ confirmed
    <3> HIDE DEF valid, confirmed
    <3>1. "BlockStable" =
            CASE b \in cache[n] /\ valid -> "BlockStable"
              [] ~(b \in cache[n] /\ valid) /\ b \notin Table(n) -> "BlockNotFound"
              [] b \in Table(n) /\ ~valid -> "BlockTimestampOutRange"
              [] b \in Table(n) \ cache[n] /\ valid /\ ~confirmed -> "NotEnoughConfirmations"
              [] b \in Table(n) \ cache[n] /\ valid /\ confirmed -> "BlockStable"
      BY DEF get_stable_block_by_hash, valid, confirmed
    <3> QED
      BY <1>2, <2>1, <3>1
  <2> QED
    BY <2>2, ConfirmedIsSettled DEF HasConfirmations
<1> QED
  BY <1>1, <1>2

(* The rows fill_cache reads above a stable block are stable too. *)
LEMMA FilledIsSettled ==
    ASSUME ViewInv, NEW n \in Nodes, NEW b \in Settled(n)
    PROVE  fill_cache(n, b) \subseteq Settled(n)
<1> DEFINE limit == Monus(LatestNumber(n), SecurityParameter)
           to == Min({b.no + CacheSize, limit})
<1>1. /\ SecurityParameter \in Nat
      /\ CacheSize \in Nat
      /\ LatestNumber(n) \in Nat
      /\ b.no \in Int
  BY Numbers, SettledRows
<1>2. limit \in Nat
  BY <1>1 DEF Monus
<1>3. to \in Int /\ to <= limit
  <2>1. \E x \in {b.no + CacheSize, limit} :
           \A y \in {b.no + CacheSize, limit} : x <= y
    BY <1>1, <1>2
  <2> QED
    BY <1>1, <1>2, <2>1 DEF Min
<1>4. ASSUME NEW c \in Table(n), c.no <= to
      PROVE  c \in Settled(n)
  <2>1. c.no \in Int
    BY <1>4, Numbers
  <2>2. c.no <= limit
    BY <1>2, <1>3, <1>4, <2>1
  <2>3. \/ c.no + SecurityParameter <= LatestNumber(n)
        \/ c.no <= 0
    BY <1>1, <2>1, <2>2 DEF Monus
  <2> QED
    BY <1>4, <2>3, ConfirmedIsSettled
<1> QED
  BY <1>4 DEF fill_cache

-----------------------------------------------------------------------------
(* What a node keeps stays settled while only Cardano and db-sync move. *)
LEMMA KeptWhileChainMoves ==
    ASSUME ViewInv, KeptInv, UNCHANGED <<cache, head>>,
           \A n \in Nodes :
              view'[n].synced \in Nat /\ view[n].synced <= view'[n].synced,
           \A i \in 1 .. Len(main) : main'[i] = main[i]
    PROVE  KeptInv'
<1>1. \A n \in Nodes : Settled(n) \subseteq Settled(n)'
  BY SettledGrows
<1> QED
  BY <1>1 DEF KeptInv

LEMMA TickStep ==
    ASSUME IInv, Tick
    PROVE  IInv'
<1>1. /\ Len(main) \in Nat
      /\ main' \in Seq(Int)
      /\ Len(main) <= Len(main')
      /\ \A i \in 1 .. Len(main) : main'[i] = main[i]
  <2>1. main \in Seq(Int) /\ clock' \in Int
    BY DEF IInv, ViewInv, Tick
  <2>2. main' = Append(main, clock') \/ main' = main
    BY DEF Tick
  <2>3. CASE main' = main
    BY <2>1, <2>3
  <2>4. CASE main' = Append(main, clock')
    <3> DEFINE c == clock'
    <3>1. c \in Int /\ main' = Append(main, c)
      BY <2>1, <2>4
    <3> HIDE DEF c
    <3>2. Append(main, c) \in Seq(Int) /\ Len(Append(main, c)) = Len(main) + 1
      BY <2>1, <3>1
    <3>3. \A i \in 1 .. Len(main) : Append(main, c)[i] = main[i]
      BY <2>1, <3>1
    <3>4. Len(main) \in Nat
      BY <2>1
    <3> QED BY <3>1, <3>2, <3>3, <3>4
  <2> QED
    BY <2>2, <2>3, <2>4
<1>2. ViewInv'
  <2>1. ASSUME NEW n \in Nodes
        PROVE  /\ view'[n].synced <= Len(main')
               /\ Len(view'[n].tail) <= SecurityParameter
    BY <1>1, <2>1 DEF IInv, ViewInv, Tick
  <2> QED
    BY <1>1, <2>1 DEF IInv, ViewInv, Tick
<1>3. KeptInv'
  <2>1. \A n \in Nodes : view'[n].synced \in Nat /\ view[n].synced <= view'[n].synced
    BY DEF IInv, ViewInv, Tick
  <2> QED
    BY <1>1, <2>1, KeptWhileChainMoves DEF IInv, Tick
<1> QED
  BY <1>2, <1>3 DEF IInv, ProposalInv, ParentReferenceIsFound, Tick

LEMMA SetViewStep ==
    ASSUME IInv, NEW n \in Nodes,
           NEW v \in [synced : Nat \ {0}, tail : Seq(Int)],
           view[n].synced <= v.synced,
           v.synced <= Len(main),
           Len(v.tail) <= SecurityParameter,
           SetView(n, v)
    PROVE  IInv'
<1>1. /\ view' = [view EXCEPT ![n] = v]
      /\ UNCHANGED <<clock, main, cache, head, proposal>>
      /\ verdict' = None
  BY DEF SetView
<1>2. ViewInv'
  BY <1>1 DEF IInv, ViewInv
<1>3. \A m \in Nodes : view'[m].synced \in Nat /\ view[m].synced <= view'[m].synced
  BY <1>1 DEF IInv, ViewInv
<1>4. KeptInv'
  BY <1>1, <1>3, KeptWhileChainMoves DEF IInv
<1> QED
  BY <1>1, <1>2, <1>4 DEF IInv, ProposalInv, ParentReferenceIsFound

LEMMA DbSyncStep ==
    ASSUME IInv, NEW n \in Nodes,
           DbSyncFollows(n) \/ DbSyncForks(n) \/ DbSyncRollsBack(n)
    PROVE  IInv'
<1>1. /\ view[n] \in [synced : Nat \ {0}, tail : Seq(Int)]
      /\ view[n].synced <= Len(main)
      /\ Len(view[n].tail) <= SecurityParameter
      /\ Len(main) \in Nat
      /\ clock \in Int
      /\ SecurityParameter \in Nat
  BY McHashAssumption DEF IInv, ViewInv
<1>2. CASE DbSyncFollows(n)
  <2> DEFINE v == [view[n] EXCEPT !.synced = @ + 1]
  <2>1. /\ v \in [synced : Nat \ {0}, tail : Seq(Int)]
        /\ view[n].synced <= v.synced
        /\ v.synced <= Len(main)
        /\ Len(v.tail) <= SecurityParameter
    BY <1>1, <1>2 DEF DbSyncFollows
  <2>2. SetView(n, v)
    BY <1>2 DEF DbSyncFollows
  <2> HIDE DEF v
  <2> QED
    BY <2>1, <2>2, SetViewStep
<1>3. ASSUME NEW t \in Seq(Int), Len(t) <= SecurityParameter,
             SetView(n, [view[n] EXCEPT !.tail = t])
      PROVE  IInv'
  <2> DEFINE v == [view[n] EXCEPT !.tail = t]
  <2>1. /\ v \in [synced : Nat \ {0}, tail : Seq(Int)]
        /\ view[n].synced <= v.synced
        /\ v.synced <= Len(main)
        /\ Len(v.tail) <= SecurityParameter
    BY <1>1, <1>3
  <2>2. SetView(n, v)
    BY <1>3
  <2> HIDE DEF v
  <2> QED
    BY <2>1, <2>2, SetViewStep
<1>4. CASE DbSyncForks(n)
  <2> DEFINE t == Append(view[n].tail, clock)
  <2>1. view[n].tail \in Seq(Int) /\ Len(view[n].tail) < SecurityParameter
    BY <1>1, <1>4 DEF DbSyncForks
  <2>2. t \in Seq(Int) /\ Len(t) <= SecurityParameter
    BY <1>1, <2>1
  <2>3. SetView(n, [view[n] EXCEPT !.tail = t])
    BY <1>4 DEF DbSyncForks
  <2> HIDE DEF t
  <2> QED
    BY <1>3, <2>2, <2>3
<1>5. CASE DbSyncRollsBack(n)
  <2>1. <<>> \in Seq(Int) /\ Len(<<>>) <= SecurityParameter
    BY <1>1
  <2>2. SetView(n, [view[n] EXCEPT !.tail = <<>>])
    BY <1>5 DEF DbSyncRollsBack
  <2> QED
    BY <1>3, <2>1, <2>2
<1> QED
  BY <1>2, <1>4, <1>5

-----------------------------------------------------------------------------
(* Proposing and verifying leave Cardano and the views alone. *)
LEMMA ViewKept ==
    ASSUME ViewInv, UNCHANGED <<clock, main, view>>
    PROVE  ViewInv' /\ \A n \in Nodes : Settled(n)' = Settled(n)
BY DEF ViewInv, Settled, MainBlock, Block, Number

(* A head that moves to a settled reference, with the cache as it was. *)
LEMMA HeadMoves ==
    ASSUME ViewInv, KeptInv, UNCHANGED <<clock, main, view>>,
           NEW n \in Nodes, NEW ref \in Settled(n) \union {None}, NEW slot \in Int,
           NEW blocks \in SUBSET Settled(n),
           cache' = [cache EXCEPT ![n] = blocks],
           head' = [head EXCEPT ![n] = [slot |-> slot, ref |-> ref]]
    PROVE  KeptInv'
<1>1. \A m \in Nodes : Settled(m)' = Settled(m) /\ Settled(m) \subseteq MainBlocks
  BY ViewKept, SettledRows
<1>2. cache' \in [Nodes -> SUBSET MainBlocks] /\ \A m \in Nodes : cache'[m] \subseteq Settled(m)'
  BY <1>1 DEF KeptInv
<1>3. [slot |-> slot, ref |-> ref] \in [slot : Int, ref : MainBlocks \union {None}]
  BY <1>1
<1>4. head' \in [Nodes -> [slot : Int, ref : MainBlocks \union {None}]]
  BY <1>3 DEF KeptInv
<1>5. \A m \in Nodes : head'[m].ref \in Settled(m)' \union {None}
  BY <1>1 DEF KeptInv
<1> QED
  BY <1>2, <1>4, <1>5 DEF KeptInv

(* Steps that touch neither the cache nor a head, and do not panic. *)
LEMMA NothingMoves ==
    ASSUME IInv, UNCHANGED <<clock, main, view, cache, head>>,
           ProposalInv', ParentReferenceIsFound'
    PROVE  IInv'
<1>1. ViewInv' /\ \A n \in Nodes : Settled(n)' = Settled(n)
  BY ViewKept DEF IInv
<1>2. KeptInv'
  BY <1>1 DEF IInv, KeptInv
<1> QED
  BY <1>1, <1>2 DEF IInv

(* Deciding ends the step with a verdict and keeps or forgets the proposal. *)
LEMMA DecideStep ==
    ASSUME ProposalInv, NEW n, NEW outcome, NEW behind, Decide(n, outcome, behind)
    PROVE  /\ ProposalInv'
           /\ outcome # "Panic" => ParentReferenceIsFound'
<1>1. proposal' = None \/ proposal' = proposal
  BY DEF Decide, Done
<1>2. verdict' = [outcome |-> outcome, kind |-> proposal.kind, behind |-> behind]
  BY DEF Decide
<1>3. verdict'.outcome = outcome
  BY <1>2
<1> QED
  BY <1>1, <1>3 DEF ProposalInv, ParentReferenceIsFound

LEMMA ProposeStep ==
    ASSUME IInv, NEW n \in Nodes, Propose(n)
    PROVE  IInv'
<1>1. PICK latest \in get_latest_stable_block_for(n, clock) :
        LET ref == new_proposal(head[n].ref, latest)
        IN  /\ Broadcast(n, ref, IF ref = latest THEN "latest" ELSE "parent")
            /\ head' = [head EXCEPT ![n] = [slot |-> clock, ref |-> ref]]
  BY DEF Propose
<1> DEFINE ref == new_proposal(head[n].ref, latest)
<1>2. ref \in Settled(n) \union {None}
  <2>1. latest \in Settled(n)
    BY <1>1, LatestIsSettled DEF IInv
  <2> QED
    BY <2>1 DEF new_proposal, IInv, KeptInv
<1>3. \E kind : Broadcast(n, ref, kind)
  BY <1>1
<1>4. head' = [head EXCEPT ![n] = [slot |-> clock, ref |-> ref]]
  BY <1>1
<1> HIDE DEF ref
<1>5. PICK kind : Broadcast(n, ref, kind)
  BY <1>3
<1>6. UNCHANGED <<clock, main, view, cache>> /\ verdict' = None
  BY <1>5 DEF Broadcast
<1>7. ProposalInv'
  <2>1. proposal'.slot = clock
    BY <1>5 DEF Broadcast
  <2> QED
    BY <2>1 DEF ProposalInv, IInv, ViewInv
<1>8. KeptInv'
  <2>1. /\ cache' = [cache EXCEPT ![n] = cache[n]]
        /\ cache[n] \in SUBSET Settled(n)
        /\ clock \in Int
    BY <1>6 DEF IInv, ViewInv, KeptInv
  <2> QED
    BY <1>2, <1>4, <1>6, <2>1, HeadMoves DEF IInv
<1> QED
  BY <1>6, <1>7, <1>8, ViewKept DEF IInv, ParentReferenceIsFound

LEMMA ProposeOtherStep ==
    ASSUME IInv, NEW n \in Nodes, ProposeOther(n)
    PROVE  IInv'
<1>1. PICK ref : Broadcast(n, ref, "other")
  BY DEF ProposeOther
<1>2. UNCHANGED <<clock, main, view, cache, head>> /\ verdict' = None /\ proposal'.slot = clock
  BY <1>1 DEF Broadcast, ProposeOther
<1> QED
  BY <1>2, NothingMoves DEF IInv, ViewInv, ProposalInv, ParentReferenceIsFound

LEMMA ClassifyStep ==
    ASSUME IInv, NEW n \in Nodes, Classify(n)
    PROVE  IInv'
<1>1. UNCHANGED <<clock, main, view>> /\ proposal # None
  BY DEF Classify, Verifying
<1>2. ViewInv /\ KeptInv /\ ProposalInv /\ proposal.slot \in Int
  BY <1>1 DEF IInv, ProposalInv
<1> DEFINE found == get_stable_block_by_hash(n, proposal.ref, proposal.slot)
           blocks == IF proposal.ref \in cache[n] THEN cache[n]
                                                  ELSE fill_cache(n, proposal.ref)
<1>3. CASE found = "BlockStable" /\ cache' = [cache EXCEPT ![n] = blocks] /\ Conclude(n)
  <2>1. proposal.ref \in Settled(n)
    BY <1>2, <1>3, StableIsSettled
  <2>2. blocks \in SUBSET Settled(n)
    BY <1>2, <2>1, FilledIsSettled DEF KeptInv
  <2> HIDE DEF found, blocks
  <2>3. CASE Accept(n)
    <3>1. PICK behind : Decide(n, "Ok", behind)
      BY <2>3, Zenon DEF Accept
    <3>2. ProposalInv' /\ ParentReferenceIsFound'
      BY <1>2, <3>1, DecideStep
    <3>3. head' = [head EXCEPT ![n] = [slot |-> proposal.slot, ref |-> proposal.ref]]
      BY <2>3 DEF Accept
    <3>4. KeptInv'
      BY <1>1, <1>2, <1>3, <2>1, <2>2, <3>3, HeadMoves
    <3> QED
      BY <1>1, <1>2, <3>2, <3>4, ViewKept DEF IInv
  <2>4. CASE Decide(n, "Regressed", FALSE) /\ UNCHANGED head
    <3>1. PICK behind : Decide(n, "Regressed", behind)
      BY <2>4, Zenon
    <3>2. ProposalInv' /\ ParentReferenceIsFound'
      BY <1>2, <3>1, DecideStep
    <3>3. \A m \in Nodes : Settled(m)' = Settled(m) /\ Settled(m) \subseteq MainBlocks
      BY <1>1, <1>2, ViewKept, SettledRows
    <3>4. KeptInv'
      BY <1>2, <1>3, <2>2, <2>4, <3>3 DEF KeptInv
    <3> QED
      BY <1>1, <1>2, <3>2, <3>4, ViewKept DEF IInv
  <2>5. CASE head[n].ref # None /\ ~get_block_by_hash(n, head[n].ref)
    <3>1. head[n].ref \in Table(n)
      BY <1>2, <2>5, SettledRows DEF KeptInv
    <3> QED
      BY <2>5, <3>1 DEF get_block_by_hash
  <2> QED
    BY <1>3, <2>3, <2>4, <2>5 DEF Conclude
<1>4. CASE Decide(n, "Invalid", Behind(n)) /\ UNCHANGED <<cache, head>>
  <2>1. ProposalInv' /\ ParentReferenceIsFound'
    BY <1>2, <1>4, DecideStep
  <2> QED
    BY <1>1, <1>4, <2>1, NothingMoves
<1>5. CASE verdict' = None /\ UNCHANGED <<cache, head, proposal>>
  BY <1>1, <1>2, <1>5, NothingMoves DEF ProposalInv, ParentReferenceIsFound
<1> QED
  BY <1>3, <1>4, <1>5 DEF Classify

LEMMA DoubtStep ==
    ASSUME IInv, NEW n \in Nodes, JudgeInvalid(n) \/ Retry(n) \/ NotOurParent(n)
    PROVE  IInv'
<1>1. UNCHANGED <<clock, main, view, cache, head>> /\ ProposalInv
  BY DEF JudgeInvalid, Retry, NotOurParent, IInv
<1>2. ProposalInv' /\ ParentReferenceIsFound'
  <2>1. CASE \E behind : Decide(n, "Invalid", behind) \/ Decide(n, "Awaiting", behind)
    BY <1>1, <2>1, DecideStep
  <2>2. CASE verdict' = None /\ (UNCHANGED proposal \/ Done(n))
    BY <1>1, <2>2 DEF ProposalInv, ParentReferenceIsFound, Done
  <2> QED
    BY <2>1, <2>2 DEF JudgeInvalid, Retry, NotOurParent
<1> QED
  BY <1>1, <1>2, NothingMoves

LEMMA InitIInv ==
    ASSUME Init
    PROVE  IInv
<1>1. /\ Age \in Nat
      /\ ExpectedInterval \in Int
  <2>1. SecurityParameter \in Nat \ {0} /\ StabilityMargin \in Nat /\ MinBoundary \in Nat
    BY McHashAssumption
  <2> QED
    BY <2>1 DEF Age, ExpectedInterval
<1>2. SecurityParameter \in Nat
  BY McHashAssumption
<1>3. clock \in Int
  BY <1>1 DEF Init
<1>4. main \in Seq(Int) /\ Len(main) = Age + 1
  <2>1. \A i \in 1 .. (Age + 1) : Number(i) * ExpectedInterval \in Int
    BY <1>1 DEF Number
  <2> QED
    BY <1>1, <2>1 DEF Init
<1>5. ViewInv
  <2>1. <<>> \in Seq(Int) /\ Len(<<>>) = 0
    OBVIOUS
  <2> QED
    BY <1>1, <1>2, <1>3, <1>4, <2>1 DEF Init, ViewInv
<1>6. KeptInv
  BY DEF Init, KeptInv, Genesis
<1> QED
  BY <1>5, <1>6 DEF Init, IInv, ProposalInv, ParentReferenceIsFound

-----------------------------------------------------------------------------
(* Everything a node keeps of Cardano stays settled. *)
THEOREM McHashInvariance == Spec => []IInv
<1>1. Init => IInv
  BY InitIInv
<1>2. IInv /\ [Next]_vars => IInv'
  <2> SUFFICES ASSUME IInv, [Next]_vars
               PROVE  IInv'
    OBVIOUS
  <2>1. CASE Next
    BY <2>1, TickStep, DbSyncStep, ProposeStep, ProposeOtherStep, ClassifyStep, DoubtStep
       DEF Next
  <2>2. CASE UNCHANGED vars
    BY <2>2, NothingMoves DEF vars, IInv, ProposalInv, ParentReferenceIsFound
  <2> QED
    BY <2>1, <2>2
<1> QED
  BY <1>1, <1>2, PTL DEF Spec

(* A reference that any node has proposed or accepted is a block of        *)
(* Cardano's main chain: get_stable_block_by_hash and get_latest_block     *)
(* only let settled blocks through, and fill_cache only caches such.       *)
THEOREM AcceptedReferencesStay == Spec => []AcceptedReferencesArePermanent
<1>1. IInv => AcceptedReferencesArePermanent
  BY SettledRows DEF IInv, KeptInv, AcceptedReferencesArePermanent, MainBlocks
<1> QED
  BY <1>1, McHashInvariance, PTL

(* The `expect' of new_verification never fails: the parent's reference is *)
(* among the rows of this node's db-sync that no rollback deletes.         *)
THEOREM ParentReferenceStays == Spec => []ParentReferenceIsFound
<1>1. IInv => ParentReferenceIsFound
  BY DEF IInv
<1> QED
  BY <1>1, McHashInvariance, PTL

=============================================================================
