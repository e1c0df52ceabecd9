-------------------------- MODULE CNightDataSource --------------------------
(***************************************************************************)
(* The db-backed cNIGHT data source, as functions of what db-sync holds:   *)
(* rows, a list in the order ObservedUtxoHeader sorts them, and txCounts,  *)
(* the number of transactions of every block.  A row that is not usable    *)
(* (datum that does not decode, address without stake credential) is       *)
(* returned by the SQL query and dropped afterwards.                       *)
(***************************************************************************)
EXTENDS CardanoObservations, Sequences, FiniteSets, SequencesExt

CONSTANTS Capacity,   \* CardanoTxCapacityPerBlock
          RowLimit    \* utxo_overestimate: LIMIT of each of the four queries

(* A block takes one transaction less than the capacity, so a capacity of one
   would take none; the runtime's is 200. *)
ASSUME CapacityAssumption == Capacity \in Nat /\ Capacity >= 2 /\ RowLimit \in Nat \ {0}

(* SQL: block and index at or after start, and before end. *)
InRange(r, start, end) == AtOrAfter(r.pos, start) /\ ~ AtOrAfter(r.pos, end)

(* The first limit rows of a kind, in position order. *)
Query(rows, kind, start, end, limit) ==
    LET found == {i \in 1..Len(rows) : rows[i].utxo.kind = kind /\ InRange(rows[i], start, end)}
    IN {i \in found : Cardinality({j \in found : j <= i}) <= limit}

(* get_registration_utxos and its siblings drop the rows they cannot decode. *)
get_utxos(rows, kind, start, end, limit) ==
    {i \in Query(rows, kind, start, end, limit) : rows[i].usable}

bulk_pull_unsorted(rows, start, end, limit) ==
    LET pulled == UNION {get_utxos(rows, kind, start, end, limit) : kind \in Kinds}
        sorted == SetToSortSeq(pulled, LAMBDA i, j : i > j)
    IN [n \in 1..Len(sorted) |-> rows[sorted[n]]]

bulk_pull(rows, start, end, limit) ==
    LET pulled == UNION {get_utxos(rows, kind, start, end, limit) : kind \in Kinds}
        sorted == SetToSortSeq(pulled, <)
    IN [n \in 1..Len(sorted) |-> rows[sorted[n]]]

(* Ordinal, among the transactions of the list, of the n-th event's. *)
TxOrdinal(events, n) == Cardinality({events[i].pos : i \in 1..n})

truncate_keeping_position(events, start, fallback_end) ==
    LET taken == {n \in 1..Len(events) : TxOrdinal(events, n) < Capacity}
        full  == TxOrdinal(events, Len(events)) < Capacity
        cut   == SubSeq(events, 1, Cardinality(taken))
    IN [utxos |-> cut,
        end |-> IF full THEN fallback_end ELSE IF cut = <<>> THEN start ELSE Last(cut).pos]

truncate_to_tx_capacity(events, start, fallback_end) ==
    LET taken == {n \in 1..Len(events) : TxOrdinal(events, n) < Capacity}
        full  == TxOrdinal(events, Len(events)) < Capacity
        cut   == SubSeq(events, 1, Cardinality(taken))
    IN [utxos |-> cut,
        end |-> IF full THEN fallback_end
                ELSE increment(IF cut = <<>> THEN start ELSE Last(cut).pos)]

TipEnd_off_by_one(txCounts, tip) == [block |-> tip, tx |-> txCounts[tip] - 1]

(* The position of a block is its number and its transaction count. *)
TipEnd(txCounts, tip) == increment([block |-> tip, tx |-> txCounts[tip]])

get_utxos_up_to_capacity(rows, txCounts, start, tip) ==
    LET end == TipEnd(txCounts, tip)
    IN truncate_to_tx_capacity(bulk_pull(rows, start, end, RowLimit), start, end)
=============================================================================
