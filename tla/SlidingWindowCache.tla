------------------------- MODULE SlidingWindowCache -------------------------
(***************************************************************************)
(* BulkCachedCNightObservationDataSource: the cNIGHT events of a window of *)
(* Cardano blocks kept in memory, slid forward by a background refresh,    *)
(* with the db-backed source behind it for queries outside the window.     *)
(*                                                                         *)
(* Queries (block authoring, imports, competing forks) and the refresh     *)
(* task run on different threads.  Each acquisition of a lock, and each    *)
(* await, is a step of its own.                                            *)
(***************************************************************************)
EXTENDS CNightDataSource

CONSTANTS
    Readers,           \* threads that may have a query in flight
    Configs,           \* cNIGHT addresses a chain state may hold
    CacheConfig,       \* the addresses the cache was built with at startup
    DbRows,            \* DbRows[c]: the rows db-sync holds for addresses c
    TxCounts,          \* TxCounts[b]: number of transactions of Cardano block b
    Genesis,           \* block of the genesis next_cardano_position
    WindowSize,
    RefreshThreshold,
    StabilityMargin,
    LargeLimit,        \* LARGE_LIMIT, the row limit of a refresh
    None

LastBlock == Len(TxCounts)

ASSUME CacheAssumption ==
    /\ CacheConfig \in Configs
    /\ Genesis \in 1..LastBlock
    /\ {WindowSize, RefreshThreshold, StabilityMargin, LargeLimit} \subseteq Nat
    /\ \A c \in Configs : LargeLimit >= Len(DbRows[c])

VARIABLES
    latest,   \* highest block db-sync holds
    events,   \* all_events
    start,    \* snapshot_start_block
    end,      \* snapshot_end_block
    last,     \* last_observation
    refresh,  \* None, or the refresh that holds refresh_in_flight
    reader    \* reader[r]: the query r is executing, or None

vars == <<latest, events, start, end, last, refresh, reader>>

(* build_cnight_observation_data_source: an empty window that ends just
   before the genesis position. *)
Init ==
    /\ latest = Genesis
    /\ events = <<>>
    /\ start = Genesis - 1
    /\ end = Genesis - 1
    /\ last = None
    /\ refresh = None
    /\ reader = [r \in Readers |-> None]

(* db-sync follows Cardano; rows of blocks that queries or refreshes reach are
   never rolled back. *)
DbSyncAdvances ==
    /\ latest < LastBlock + StabilityMargin
    /\ latest' = latest + 1
    /\ UNCHANGED <<events, start, end, last, refresh, reader>>

-----------------------------------------------------------------------------
(* The refresh task. *)

min_for_block(b) == [block |-> b, tx |-> 0]
max_for_block(b) == [block |-> b, tx |-> LargeLimit]

Monus(a, b) == IF a > b THEN a - b ELSE 0

Stable_wrapping == latest - StabilityMargin

(* get_highest_stable_block_le, for any bound: db-sync may lag behind. *)
Stable == Monus(latest, StabilityMargin)

Larger(a, b) == IF a > b THEN a ELSE b

Smaller(a, b) == IF a < b THEN a ELSE b

plan_refresh_over_gap(anchor) ==
    [from |-> Larger(anchor, end + 1), start |-> start]

(* Where the pull starts and where the new window starts: past a gap the
   window restarts at the follower, else it is trimmed behind the last query. *)
plan_refresh(anchor) ==
    IF anchor > end + 1 THEN [from |-> anchor, start |-> anchor]
    ELSE [from |-> end + 1,
          start |-> IF last = None THEN start
                    ELSE Larger(start, Monus(last.start.block, WindowSize))]

(* First await: the target is clamped to the highest stable block. *)
RefreshClamp ==
    /\ refresh # None
    /\ refresh.pc = "clamp"
    /\ refresh' = [refresh EXCEPT !.pc = "plan", !.target = Smaller(refresh.target, Stable)]
    /\ UNCHANGED <<latest, events, start, end, last, reader>>

RefreshPlan_unchecked ==
    /\ refresh # None
    /\ refresh.pc = "plan"
    /\ refresh' = [refresh EXCEPT !.pc = "slide", !.plan = plan_refresh(refresh.anchor)]
    /\ UNCHANGED <<latest, events, start, end, last, reader>>

RefreshPlan ==
    /\ refresh # None
    /\ refresh.pc = "plan"
    /\ LET plan == plan_refresh(refresh.anchor)
       IN refresh' = IF refresh.target <= end \/ refresh.target < plan.from THEN None
                     ELSE [refresh EXCEPT !.pc = "slide", !.plan = plan, !.anchor = 0]
    /\ UNCHANGED <<latest, events, start, end, last, reader>>

(* slide_events: trim the front, append the extension without sorting. *)
slide_events(existing, extension, new_window_start) ==
    SelectSeq(existing, LAMBDA u : u.pos.block >= new_window_start) \o extension

(* History: a query already checked against the window loses rows it needs. *)
Loses(q) == q # None /\ q.pc = "slice" /\ q.start.block < refresh.plan.start

(* Second await: the rows are pulled; then they are swapped in. *)
RefreshSlide ==
    /\ refresh # None
    /\ refresh.pc = "slide"
    /\ events' = slide_events(events,
                    bulk_pull(DbRows[CacheConfig], min_for_block(refresh.plan.from),
                              max_for_block(refresh.target), LargeLimit),
                    refresh.plan.start)
    /\ refresh' = [refresh EXCEPT !.pc = "set_start"]
    /\ reader' = [r \in Readers |->
                    IF Loses(reader[r]) THEN [reader[r] EXCEPT !.raced = TRUE] ELSE reader[r]]
    /\ UNCHANGED <<latest, start, end, last>>

RefreshSetStart ==
    /\ refresh # None
    /\ refresh.pc = "set_start"
    /\ start' = refresh.plan.start
    /\ refresh' = [refresh EXCEPT !.pc = "set_end"]
    /\ UNCHANGED <<latest, events, end, last, reader>>

RefreshSetEnd ==
    /\ refresh # None
    /\ refresh.pc = "set_end"
    /\ end' = refresh.target
    /\ refresh' = None
    /\ UNCHANGED <<latest, events, start, last, reader>>

(* A db-sync query of the refresh fails, or finds no stable block. *)
RefreshFails ==
    /\ refresh # None
    /\ refresh.pc \in {"clamp", "slide"}
    /\ refresh' = None
    /\ UNCHANGED <<latest, events, start, end, last, reader>>

-----------------------------------------------------------------------------
(* A query: get_utxos_up_to_capacity. *)

(* Positions a chain state can hold: genesis, or the end of an earlier tip. *)
Starts == {min_for_block(Genesis)} \union {TipEnd(TxCounts, b) : b \in Genesis..(LastBlock - 1)}

Live(q) == get_utxos_up_to_capacity(DbRows[q.config], TxCounts, q.start, q.tip)

IsHit(s, tip) == last # None /\ last.tip = tip /\ last.start = s

(* The same-tip cache, consulted first. *)
BeginQuery(r, s, tip, config) ==
    /\ reader[r] = None
    /\ tip \in s.block..latest
    /\ reader' = [reader EXCEPT ![r] =
          [pc |-> IF IsHit(s, tip) THEN "done" ELSE "read_end",
           start |-> s, tip |-> tip, config |-> config, end |-> 0,
           result |-> IF IsHit(s, tip) THEN last.result ELSE None,
           raced |-> IsHit(s, tip) /\ last.raced]]
    /\ UNCHANGED <<latest, events, start, end, last, refresh>>

At(r, pc) == reader[r] # None /\ reader[r].pc = pc

ReadEnd(r) ==
    /\ At(r, "read_end")
    /\ reader' = [reader EXCEPT ![r].pc = "read_start", ![r].end = end]
    /\ UNCHANGED <<latest, events, start, end, last, refresh>>

(* maybe_kick_refresh: single flight. *)
maybe_kick_refresh(q) ==
    refresh' = IF refresh = None /\ q.tip + RefreshThreshold >= q.end
               THEN [pc |-> "clamp", anchor |-> q.start.block,
                     target |-> q.tip + RefreshThreshold + StabilityMargin,
                     plan |-> [from |-> 0, start |-> 0]]
               ELSE refresh

OutsideWindow_end_only(q) == q.tip > q.end

OutsideWindow(q) == q.tip > q.end \/ q.start.block < start

(* Reads snapshot_start_block, kicks a refresh and decides who answers: outside
   the window the db-backed source, whose answer does not depend on when its
   queries run.  A slide that snapshot_start_block does not show yet is a race. *)
ReadStart(r) ==
    /\ At(r, "read_start")
    /\ maybe_kick_refresh(reader[r])
    /\ LET q == reader[r] IN
       reader' = [reader EXCEPT ![r] =
          IF OutsideWindow(q) THEN [q EXCEPT !.pc = "done", !.end = 0, !.result = Live(q)]
          ELSE [q EXCEPT !.pc = "slice", !.end = 0,
                         !.raced = /\ refresh # None /\ refresh.pc = "set_start"
                                   /\ q.start.block < refresh.plan.start]]
    /\ UNCHANGED <<latest, events, start, end, last>>

slice_range(s, e) == SelectSeq(events, LAMBDA u : InRange(u, s, e))

Slice(r) ==
    /\ At(r, "slice")
    /\ LET e == TipEnd(TxCounts, reader[r].tip)
           s == reader[r].start
       IN reader' = [reader EXCEPT ![r].pc = "store",
                        ![r].result = truncate_to_tx_capacity(slice_range(s, e), s, e)]
    /\ UNCHANGED <<latest, events, start, end, last, refresh>>

Store(r) ==
    /\ At(r, "store")
    /\ last' = [start |-> reader[r].start, tip |-> reader[r].tip,
                result |-> reader[r].result, raced |-> reader[r].raced]
    /\ reader' = [reader EXCEPT ![r].pc = "done"]
    /\ UNCHANGED <<latest, events, start, end, refresh>>

Return(r) ==
    /\ At(r, "done")
    /\ reader' = [reader EXCEPT ![r] = None]
    /\ UNCHANGED <<latest, events, start, end, last, refresh>>

Next ==
    \/ DbSyncAdvances
    \/ RefreshClamp \/ RefreshPlan \/ RefreshSlide \/ RefreshSetStart \/ RefreshSetEnd
    \/ RefreshFails
    \/ \E r \in Readers :
        \/ \E s \in Starts, tip \in Genesis..LastBlock, c \in Configs : BeginQuery(r, s, tip, c)
        \/ ReadEnd(r) \/ ReadStart(r) \/ Slice(r) \/ Store(r) \/ Return(r)

Spec == Init /\ [][Next]_vars

-----------------------------------------------------------------------------
(* Types of the shared state. *)
TypeOK ==
    /\ latest \in Nat
    /\ start \in Nat
    /\ end \in Nat
    /\ \A i \in 1..Len(events) : events[i] \in Range(DbRows[CacheConfig])
    /\ last = None \/ last.raced \in BOOLEAN
    /\ refresh = None \/ refresh \in
         [pc : {"clamp", "plan", "slide", "set_start", "set_end"},
          anchor : Nat, target : Nat, plan : [from : Nat, start : Nat]]
    /\ reader \in [Readers -> {None} \union
         [pc : {"read_end", "read_start", "slice", "store", "done"},
          start : Starts, tip : Nat, config : Configs, end : Nat,
          result : {None} \union
             [utxos : Seq(UNION {Range(DbRows[c]) : c \in Configs}), end : CardanoPosition],
          raced : BOOLEAN]]

Covering(from, to) ==
    bulk_pull(DbRows[CacheConfig], min_for_block(Larger(from, Genesis)),
              max_for_block(to), LargeLimit)

Sliding == refresh # None /\ refresh.pc \in {"set_start", "set_end"}

(* Between refreshes the window holds every usable row of the blocks it claims
   to cover, once and in order: plan_refresh and slide_events leave no gap when
   the window jumps, is extended or trimmed, and no refresh that fails half way
   damages it.  Blocks before the genesis position are never asked for. *)
WindowIsComplete ==
    events = IF Sliding THEN Covering(refresh.plan.start, refresh.target)
             ELSE Covering(start, end)

(* An answer is that of the db-backed source, from the cache or not, unless the
   rows of the query were trimmed after it had been checked against the window. *)
UnracedAnswersAreLive ==
    \A r \in Readers : At(r, "done") /\ ~ reader[r].raced => reader[r].result = Live(reader[r])

(* The window never moves back: a refresh planned on stale state does not undo
   the work of an earlier one. *)
WindowMovesForward == [][start' >= start /\ end' >= end]_vars
=============================================================================
