------------------------- MODULE CNightPallet_proofs -------------------------
(***************************************************************************)
(* The cNIGHT observation pallet for any number of addresses, keys and     *)
(* UTXOs, and any list of UTXOs Cardano can produce.                       *)
(***************************************************************************)
EXTENDS CNightPallet, TLAPS

(* unique_dust_key returns the key of the only mapping of the address. *)
LEMMA UniqueKeyOfOnly ==
    ASSUME NEW m \in Rows, NEW a \in Addrs, NEW u \in Utxos, IsOnly(m, a, u)
    PROVE  unique_dust_key(m, a) = m[a][u] /\ m[a][u] \in Keys
<1>1. u \in EntriesOf(m, a)
  BY DEF IsOnly
<1>2. m[a][u] \in Keys
  BY <1>1 DEF EntriesOf, Rows
<1>3. \A w \in Utxos : IsOnly(m, a, w) => w = u
  BY DEF IsOnly
<1>4. (CHOOSE w \in Utxos : IsOnly(m, a, w)) = u
  BY <1>3
<1> QED BY <1>2, <1>4 DEF unique_dust_key

(* unique_dust_key returns None when the address has no mapping, or several. *)
LEMMA UniqueKeyOfNone ==
    ASSUME NEW m, NEW a, ~ \E u \in Utxos : IsOnly(m, a, u)
    PROVE  unique_dust_key(m, a) = None
  BY DEF unique_dust_key

(* unique_dust_key returns a key of the address or None. *)
LEMMA UniqueKeyType ==
    ASSUME NEW m \in Rows, NEW a \in Addrs
    PROVE  unique_dust_key(m, a) \in Keys \union {None}
  BY UniqueKeyOfOnly, UniqueKeyOfNone

(* unique_dust_key reads the entries of its address only. *)
LEMMA UniqueKeyLocal ==
    ASSUME NEW m, NEW n, NEW a, \A u \in Utxos : m[a][u] = n[a][u]
    PROVE  unique_dust_key(m, a) = unique_dust_key(n, a)
<1>1. EntriesOf(m, a) = EntriesOf(n, a)
  BY DEF EntriesOf
<1>2. \A u : IsOnly(m, a, u) <=> IsOnly(n, a, u)
  BY <1>1 DEF IsOnly
<1>3. (CHOOSE u \in Utxos : IsOnly(m, a, u)) = (CHOOSE u \in Utxos : IsOnly(n, a, u))
  BY <1>2
<1> QED BY <1>2, <1>3 DEF unique_dust_key

(* n is m with the entry of u at address a written. *)
Written(m, n, a, u, k) ==
    /\ n \in Rows
    /\ n[a][u] = k
    /\ \A b \in Addrs, w \in Utxos : b # a \/ w # u => n[b][w] = m[b][w]

(* Writing one entry, fresh or to be removed, never exchanges one unique key
   for another: this is why the two events are enough. *)
LEMMA OneEntryWritten ==
    ASSUME NEW m \in Rows, NEW n, NEW a \in Addrs, NEW u \in Utxos, NEW k,
           Written(m, n, a, u, k), k = None \/ m[a][u] = None
    PROVE  /\ \A b \in Addrs : b # a => unique_dust_key(n, b) = unique_dust_key(m, b)
           /\ unique_dust_key(m, a) # None /\ unique_dust_key(n, a) # None
                => unique_dust_key(m, a) = unique_dust_key(n, a)
<1> USE DEF Written
<1>1. n \in Rows
  OBVIOUS
<1>2. ASSUME NEW b \in Addrs, b # a PROVE unique_dust_key(n, b) = unique_dust_key(m, b)
  <2>1. \A w \in Utxos : n[b][w] = m[b][w] BY <1>2
  <2> QED BY <2>1, UniqueKeyLocal
<1>3. ASSUME unique_dust_key(m, a) # None, unique_dust_key(n, a) # None
      PROVE  unique_dust_key(m, a) = unique_dust_key(n, a)
  <2>1. PICK w \in Utxos : IsOnly(m, a, w)
    BY <1>3, UniqueKeyOfNone
  <2>2. PICK x \in Utxos : IsOnly(n, a, x)
    BY <1>3, UniqueKeyOfNone
  <2>3. \A y \in Utxos : y # u => n[a][y] = m[a][y]
    OBVIOUS
  <2>4. n[a][u] = k
    OBVIOUS
  <2>5. m[a][w] # None /\ n[a][x] # None /\ \A y \in Utxos : m[a][y] # None => y = w
    BY <2>1, <2>2 DEF IsOnly, EntriesOf
  <2>6. \A y \in Utxos : n[a][y] # None => y = x
    BY <2>2 DEF IsOnly, EntriesOf
  <2>7. w = x /\ n[a][x] = m[a][w]
    BY <2>3, <2>4, <2>5, <2>6
  <2>8. unique_dust_key(m, a) = m[a][w]
    BY <2>1, UniqueKeyOfOnly
  <2>9. unique_dust_key(n, a) = n[a][x]
    BY ONLY <2>2, <1>1, UniqueKeyOfOnly
  <2> QED BY <2>7, <2>8, <2>9
<1> QED BY <1>2, <1>3

(* The reader of the events follows the unique key. *)
LEMMA ReindexFollows ==
    ASSUME NEW indexed \in [Addrs -> Keys \union {None}], NEW a \in Addrs,
           NEW new \in Keys \union {None},
           indexed[a] # None /\ new # None => indexed[a] = new
    PROVE  /\ Reindex(indexed, a, indexed[a], new) \in [Addrs -> Keys \union {None}]
           /\ Reindex(indexed, a, indexed[a], new)[a] = new
           /\ \A b \in Addrs : b # a => Reindex(indexed, a, indexed[a], new)[b] = indexed[b]
<1>1. CASE indexed[a] = None /\ new # None
  BY <1>1 DEF Reindex
<1>2. CASE indexed[a] # None /\ new = None
  BY <1>2 DEF Reindex
<1>3. CASE ~ (indexed[a] = None /\ new # None) /\ ~ (indexed[a] # None /\ new = None)
  BY <1>3 DEF Reindex
<1> QED BY <1>1, <1>2, <1>3

IndexedIn(s) == \A a \in Addrs : s.indexed[a] = unique_dust_key(s.mapping, a)

(* Every handler keeps the storage consistent, writes only the mapping entry of
   its UTXO, and changes the owner of a UTXO only together with an event. *)
LEMMA HandleKeeps ==
    ASSUME NEW s \in Storage, NEW u \in ObservedUtxo, StoreAgrees(s), IndexedIn(s),
           u.kind = "Registration" => s.mapping[u.addr][u.utxo] = None
    PROVE  /\ Handle(s, u) \in Storage
           /\ StoreAgrees(Handle(s, u))
           /\ IndexedIn(Handle(s, u))
           /\ \A a \in Addrs, w \in Utxos :
                 w # u.utxo \/ u.kind # "Registration" =>
                     Handle(s, u).mapping[a][w] \in {s.mapping[a][w], None}
           /\ Handle(s, u).unsent = s.unsent
           /\ \A w \in Utxos : ~ (Emits(s, u) /\ w = u.utxo) =>
                 Handle(s, u).owners[w] = s.owners[w]
<1> DEFINE m == s.mapping
           a == u.addr
           x == u.utxo
<1> USE KeysAssumption
<1>0. /\ m \in Rows /\ a \in Addrs /\ x \in Utxos /\ u.key \in Keys \union {None}
      /\ s.indexed \in [Addrs -> Keys \union {None}]
      /\ s.owners \in [Utxos -> Keys \union {None}]
      /\ s.generating \in [Utxos -> Keys \union {None}]
      /\ s.unsent \in SUBSET Utxos
      /\ u.kind \in Kinds
  BY DEF Storage, ObservedUtxo
<1>1. ASSUME NEW k, NEW n, Written(m, n, a, x, k), k = None \/ m[a][x] = None,
             NEW r, r = Reindex(s.indexed, a, unique_dust_key(m, a), unique_dust_key(n, a))
      PROVE  /\ n \in Rows
             /\ r \in [Addrs -> Keys \union {None}]
             /\ \A b \in Addrs : r[b] = unique_dust_key(n, b)
  <2> HIDE DEF m, a, x
  <2>1. /\ n \in Rows
        /\ \A b \in Addrs : b # a => unique_dust_key(n, b) = unique_dust_key(m, b)
        /\ unique_dust_key(m, a) # None /\ unique_dust_key(n, a) # None
             => unique_dust_key(m, a) = unique_dust_key(n, a)
    <3>1. n \in Rows BY <1>1 DEF Written
    <3> QED BY <3>1, <1>0, <1>1, OneEntryWritten
  <2>2. \A b \in Addrs : s.indexed[b] = unique_dust_key(m, b)
    BY DEF IndexedIn, m
  <2>3. unique_dust_key(n, a) \in Keys \union {None}
    BY <2>1, <1>0, UniqueKeyType
  <2>4. /\ Reindex(s.indexed, a, s.indexed[a], unique_dust_key(n, a))
              \in [Addrs -> Keys \union {None}]
        /\ Reindex(s.indexed, a, s.indexed[a], unique_dust_key(n, a))[a] = unique_dust_key(n, a)
        /\ \A b \in Addrs : b # a =>
              Reindex(s.indexed, a, s.indexed[a], unique_dust_key(n, a))[b] = s.indexed[b]
    BY <1>0, <2>1, <2>2, <2>3, ReindexFollows
  <2>5. s.indexed[a] = unique_dust_key(m, a)
    BY <1>0, <2>2
  <2>6. r = Reindex(s.indexed, a, s.indexed[a], unique_dust_key(n, a))
    BY <2>5, <1>1
  <2> QED BY <2>1, <2>2, <2>4, <2>6
<1>2. CASE u.kind = "Registration"
  <2> DEFINE n == [m EXCEPT ![a][x] = u.key]
             r == Reindex(s.indexed, a, unique_dust_key(m, a), unique_dust_key(n, a))
  <2>1. Handle(s, u) = [s EXCEPT !.mapping = n, !.indexed = r]
    BY <1>2 DEF Handle, handle_registration
  <2>2. m[a][x] = None
    BY <1>2
  <2>3. n \in Rows /\ r \in [Addrs -> Keys \union {None}]
        /\ \A b \in Addrs : r[b] = unique_dust_key(n, b)
    <3>1. Written(m, n, a, x, u.key)
      BY <1>0 DEF Rows, Written
    <3> HIDE DEF n
    <3> QED BY <3>1, <1>1, <2>2
  <2>5. \A b \in Addrs, w \in Utxos : w # x => n[b][w] = m[b][w]
    BY <1>0 DEF Rows
  <2> HIDE DEF n, r
  <2>6. /\ Handle(s, u) \in Storage
        /\ Handle(s, u).mapping = n /\ Handle(s, u).indexed = r
        /\ Handle(s, u).owners = s.owners /\ Handle(s, u).generating = s.generating
        /\ Handle(s, u).unsent = s.unsent
    BY <2>1, <2>3 DEF Storage
  <2>7. StoreAgrees(Handle(s, u)) /\ IndexedIn(Handle(s, u))
    BY <2>3, <2>6 DEF StoreAgrees, IndexedIn
  <2> QED BY <2>5, <2>6, <2>7, <1>2
<1>3. CASE u.kind = "Deregistration"
  <2> DEFINE n == [m EXCEPT ![a][x] = None]
             r == Reindex(s.indexed, a, unique_dust_key(m, a), unique_dust_key(n, a))
  <2>1. Handle(s, u) = [s EXCEPT !.mapping = n, !.indexed = r]
    BY <1>3 DEF Handle, handle_registration_removal
  <2>3. n \in Rows /\ r \in [Addrs -> Keys \union {None}]
        /\ \A b \in Addrs : r[b] = unique_dust_key(n, b)
    <3>1. Written(m, n, a, x, None)
      BY <1>0 DEF Rows, Written
    <3> HIDE DEF n
    <3> QED BY <3>1, <1>1
  <2>5. \A b \in Addrs, w \in Utxos : n[b][w] \in {m[b][w], None}
    BY <1>0 DEF Rows
  <2> HIDE DEF n, r
  <2>6. /\ Handle(s, u) \in Storage
        /\ Handle(s, u).mapping = n /\ Handle(s, u).indexed = r
        /\ Handle(s, u).owners = s.owners /\ Handle(s, u).generating = s.generating
        /\ Handle(s, u).unsent = s.unsent
    BY <2>1, <2>3 DEF Storage
  <2>7. StoreAgrees(Handle(s, u)) /\ IndexedIn(Handle(s, u))
    BY <2>3, <2>6 DEF StoreAgrees, IndexedIn
  <2> QED BY <2>5, <2>6, <2>7
<1>4. CASE u.kind = "AssetCreate"
  <2>1. Handle(s, u) = handle_create(s, u)
    BY <1>4 DEF Handle
  <2> DEFINE key == unique_dust_key(m, a)
  <2>2. CASE key = None \/ ~ Constructs(key)
    BY <2>1, <2>2 DEF handle_create
  <2>3. CASE key # None /\ key \in ValidKeys
    <3>1. Handle(s, u) = [s EXCEPT !.owners = [s.owners EXCEPT ![x] = key],
                                   !.generating = [s.generating EXCEPT ![x] = key]]
      BY <2>1, <2>3 DEF handle_create, Constructs
    <3> HIDE DEF key
    <3> DEFINE o == [s.owners EXCEPT ![x] = key]
               g == [s.generating EXCEPT ![x] = key]
    <3>a. /\ o \in [Utxos -> Keys \union {None}] /\ g \in [Utxos -> Keys \union {None}]
          /\ \A w \in Utxos \ s.unsent : g[w] = o[w]
          /\ \A w \in Utxos : o[w] \in ValidKeys \union {None}
          /\ \A w \in Utxos : w # x => o[w] = s.owners[w]
      BY <1>0, <2>3 DEF StoreAgrees
    <3> HIDE DEF o, g
    <3>2. /\ Handle(s, u) \in Storage
          /\ Handle(s, u).mapping = m /\ Handle(s, u).indexed = s.indexed
          /\ Handle(s, u).owners = o /\ Handle(s, u).generating = g
          /\ Handle(s, u).unsent = s.unsent
      BY <1>0, <3>a, <3>1 DEF Storage, o, g
    <3>3. Emits(s, u)
      BY <1>4, <2>3 DEF Emits, Constructs, key
    <3>4. StoreAgrees(Handle(s, u)) /\ IndexedIn(Handle(s, u))
      BY <1>0, <3>a, <3>2 DEF StoreAgrees, IndexedIn
    <3> QED BY <1>0, <3>a, <3>2, <3>3, <3>4
  <2> QED BY <2>2, <2>3 DEF Constructs
<1>5. CASE u.kind = "AssetSpend"
  <2>1. Handle(s, u) = handle_spend(s, u)
    BY <1>5 DEF Handle
  <2>2. s.owners[u.utxo] # None => s.owners[u.utxo] \in ValidKeys
    BY <1>0 DEF StoreAgrees
  <2>3. CASE s.owners[x] = None
    BY <2>1, <2>3 DEF handle_spend
  <2>4. CASE s.owners[x] # None
    <3>1. Handle(s, u) = [s EXCEPT !.owners = [s.owners EXCEPT ![x] = None],
                                   !.generating = [s.generating EXCEPT ![x] = None]]
      BY <2>1, <2>2, <2>4 DEF handle_spend, Constructs
    <3> DEFINE o == [s.owners EXCEPT ![x] = None]
               g == [s.generating EXCEPT ![x] = None]
    <3>a. /\ o \in [Utxos -> Keys \union {None}] /\ g \in [Utxos -> Keys \union {None}]
          /\ \A w \in Utxos \ s.unsent : g[w] = o[w]
          /\ \A w \in Utxos : o[w] \in ValidKeys \union {None}
          /\ \A w \in Utxos : w # x => o[w] = s.owners[w]
      BY <1>0 DEF StoreAgrees
    <3> HIDE DEF o, g
    <3>2. /\ Handle(s, u) \in Storage
          /\ Handle(s, u).mapping = m /\ Handle(s, u).indexed = s.indexed
          /\ Handle(s, u).owners = o /\ Handle(s, u).generating = g
          /\ Handle(s, u).unsent = s.unsent
      BY <1>0, <3>a, <3>1 DEF Storage, o, g
    <3>3. Emits(s, u)
      BY <1>5, <2>2, <2>4 DEF Emits, Constructs
    <3>4. StoreAgrees(Handle(s, u)) /\ IndexedIn(Handle(s, u))
      BY <1>0, <3>a, <3>2 DEF StoreAgrees, IndexedIn
    <3> QED BY <1>0, <3>a, <3>2, <3>3, <3>4
  <2> QED BY <2>3, <2>4
<1> QED BY <1>0, <1>2, <1>3, <1>4, <1>5 DEF Kinds
(* With nothing left to migrate the mappings are those of the new map. *)
LEMMA NothingInV0 ==
    ASSUME v0 = NoRows, NEW s \in Storage, NEW a \in Addrs
    PROVE  unique_dust_key(AllRows(s), a) = unique_dust_key(s.mapping, a)
<1>1. \A u \in Utxos : AllRows(s)[a][u] = s.mapping[a][u]
  BY DEF AllRows, NoRows
<1> QED BY <1>1, UniqueKeyLocal

(* Genesis and upgrade states satisfy the invariant. *)
LEMMA InitPalletIInv == PalletInit => PalletIInv
<1> SUFFICES ASSUME NEW rows \in Rows, NEW owners \in [Utxos -> ValidKeys \union {None}],
                    NEW start \in CardanoPosition, NEW v \in {0, 1},
                    InitPallet(rows, owners, start, v)
             PROVE  PalletIInv
  BY DEF PalletInit
<1> USE DEF InitPallet
<1>1. NoRows \in Rows
  BY DEF NoRows, Rows
<1>2. [a \in Addrs |-> unique_dust_key(rows, a)] \in [Addrs -> Keys \union {None}]
  BY UniqueKeyType
<1>3. PalletTypeOK
  BY <1>1, <1>2, KeysAssumption DEF PalletTypeOK, Storage
<1>4. IndexerSeesRegistrations
  <2> SUFFICES ASSUME NEW a \in Addrs
               PROVE  unique_dust_key(rows, a) = unique_dust_key(AllRows(store), a)
    BY DEF IndexerSeesRegistrations
  <2>1. \A u \in Utxos : rows[a][u] = AllRows(store)[a][u]
    BY DEF AllRows, NoRows, Rows
  <2> QED BY <2>1, UniqueKeyLocal
<1> QED BY <1>3, <1>4 DEF PalletIInv, StoreAgrees, OverlayAgrees

(* Every step of the pallet preserves the invariant. *)
LEMMA StepPalletIInv == PalletIInv /\ [PalletNext]_palletVars => PalletIInv'
<1> SUFFICES ASSUME PalletIInv, [PalletNext]_palletVars PROVE PalletIInv'
  OBVIOUS
<1> USE DEF PalletIInv
<1>1. ASSUME NEW utxos \in Seq(ObservedUtxo), ProcessTokensSkipped(utxos)
      PROVE  PalletIInv'
  BY <1>1 DEF ProcessTokensSkipped, PalletTypeOK, IndexerSeesRegistrations, AllRows,
              OverlayAgrees
<1>2. ASSUME NEW utxos \in Seq(ObservedUtxo), NEW next \in CardanoPosition,
             FreshInput(utxos, store.mapping), ProcessTokensBegin(utxos, next)
      PROVE  PalletIInv'
  <2> USE <1>2 DEF ProcessTokensBegin, MigrationDone
  <2>1. version = 1
    BY DEF PalletTypeOK
  <2>2. \A a \in Addrs : store.indexed[a] = unique_dust_key(store.mapping, a)
    BY <2>1, NothingInV0 DEF PalletTypeOK, IndexerSeesRegistrations
  <2>3. PalletTypeOK'
    BY DEF PalletTypeOK, Call
  <2>4. OverlayAgrees'
    BY <2>1, <2>2 DEF OverlayAgrees
  <2>5. IndexerSeesRegistrations' /\ StoreAgrees(store)'
    BY DEF IndexerSeesRegistrations, AllRows
  <2> QED BY <2>3, <2>4, <2>5
<1>3. ASSUME ProcessUtxo
      PROVE  PalletIInv'
  <2> DEFINE u == Head(call.queue)
             s == call.store
  <2> USE <1>3 DEF ProcessUtxo
  <2>1. call \in Call
    BY DEF PalletTypeOK
  <2>2. /\ s \in Storage /\ u \in ObservedUtxo /\ call.queue \in Seq(ObservedUtxo)
        /\ Tail(call.queue) \in Seq(ObservedUtxo)
        /\ u = call.queue[1] /\ Len(call.queue) \in Nat \ {0}
        /\ Len(Tail(call.queue)) = Len(call.queue) - 1
        /\ \A i \in 1..Len(Tail(call.queue)) : Tail(call.queue)[i] = call.queue[i + 1]
    BY <2>1 DEF Call
  <2>3. u.kind = "Registration" => s.mapping[u.addr][u.utxo] = None
    BY <2>2 DEF OverlayAgrees, FreshInput
  <2>4. /\ Handle(s, u) \in Storage
        /\ StoreAgrees(Handle(s, u))
        /\ IndexedIn(Handle(s, u))
        /\ \A a \in Addrs, w \in Utxos :
              w # u.utxo \/ u.kind # "Registration" =>
                  Handle(s, u).mapping[a][w] \in {s.mapping[a][w], None}
        /\ Handle(s, u).unsent = s.unsent
        /\ \A w \in Utxos : ~ (Emits(s, u) /\ w = u.utxo) =>
              Handle(s, u).owners[w] = s.owners[w]
    <3>1. StoreAgrees(s) /\ IndexedIn(s)
      BY DEF OverlayAgrees, IndexedIn
    <3> QED BY <3>1, <2>2, <2>3, HandleKeeps
  <2>5. /\ call'.store = Handle(s, u) /\ call'.queue = Tail(call.queue)
        /\ call'.next = call.next
        /\ call'.events = IF Emits(s, u) THEN call.events \union {u.utxo} ELSE call.events
        /\ call' \in Call
    <3> DEFINE events == IF Emits(s, u) THEN call.events \union {u.utxo} ELSE call.events
    <3>1. events \in SUBSET Utxos
      BY <2>1, <2>2 DEF Call, ObservedUtxo
    <3>2. call' = [store |-> Handle(s, u), queue |-> Tail(call.queue), next |-> call.next,
                   events |-> events]
      OBVIOUS
    <3> HIDE DEF events
    <3>3. call' \in Call
      BY <3>1, <3>2, <2>1, <2>2, <2>4 DEF Call
    <3> QED BY <3>2, <3>3 DEF events
  <2>6. FreshInput(Tail(call.queue), Handle(s, u).mapping)
    <3> SUFFICES ASSUME NEW i \in 1..Len(Tail(call.queue)),
                        Tail(call.queue)[i].kind = "Registration"
                 PROVE  /\ Handle(s, u).mapping[Tail(call.queue)[i].addr][Tail(call.queue)[i].utxo]
                              = None
                        /\ \A j \in 1..Len(Tail(call.queue)) :
                              /\ Tail(call.queue)[j].kind = "Registration"
                              /\ Tail(call.queue)[j].utxo = Tail(call.queue)[i].utxo
                              => j = i
      BY DEF FreshInput
    <3> DEFINE q == call.queue[i + 1]
    <3>1. i + 1 \in 1..Len(call.queue) /\ 1 \in 1..Len(call.queue) /\ q \in ObservedUtxo
          /\ Tail(call.queue)[i] = q
      BY <2>2
    <3>2. /\ s.mapping[q.addr][q.utxo] = None
          /\ \A j \in 1..Len(call.queue) :
                call.queue[j].kind = "Registration" /\ call.queue[j].utxo = q.utxo => j = i + 1
      BY <3>1 DEF OverlayAgrees, FreshInput
    <3>3. q.utxo # u.utxo \/ u.kind # "Registration"
      BY <2>2, <3>1, <3>2
    <3>4. q.addr \in Addrs /\ q.utxo \in Utxos
      BY <3>1 DEF ObservedUtxo
    <3>5. Handle(s, u).mapping[q.addr][q.utxo] = None
      BY <2>4, <3>2, <3>3, <3>4
    <3>6. \A j \in 1..Len(Tail(call.queue)) :
             Tail(call.queue)[j].kind = "Registration" /\ Tail(call.queue)[j].utxo = q.utxo => j = i
      <4> SUFFICES ASSUME NEW j \in 1..Len(Tail(call.queue)),
                          Tail(call.queue)[j].kind = "Registration",
                          Tail(call.queue)[j].utxo = q.utxo
                   PROVE  j = i
        OBVIOUS
      <4> HIDE DEF ProcessUtxo, PalletIInv, q, u, s
      <4>1. j + 1 \in 1..Len(call.queue) /\ Tail(call.queue)[j] = call.queue[j + 1]
        BY <2>2
      <4>2. j + 1 = i + 1
        BY <4>1, <3>2
      <4> QED BY <4>2
    <3> QED BY <3>1, <3>5, <3>6
  <2>7. OverlayAgrees'
    <3>1. \A w \in Utxos \ call'.events : call'.store.owners[w] = store.owners[w]
      BY <2>4, <2>5 DEF OverlayAgrees
    <3> QED BY <3>1, <2>4, <2>5, <2>6 DEF OverlayAgrees, IndexedIn
  <2>8. PalletTypeOK'
    BY <2>5 DEF PalletTypeOK
  <2>9. IndexerSeesRegistrations' /\ StoreAgrees(store)'
    BY DEF IndexerSeesRegistrations, AllRows
  <2> QED BY <2>7, <2>8, <2>9
<1>4. ASSUME ProcessTokensOk
      PROVE  PalletIInv'
  <2> USE <1>4 DEF ProcessTokensOk
  <2>1. call \in Call /\ call.store \in Storage /\ v0' = NoRows
    BY DEF PalletTypeOK, Call, OverlayAgrees
  <2>2. PalletTypeOK'
    BY <2>1 DEF PalletTypeOK, Call
  <2>3. IndexerSeesRegistrations'
    <3> SUFFICES ASSUME NEW a \in Addrs
                 PROVE  store'.indexed[a] = unique_dust_key(AllRows(store)', a)
      BY DEF IndexerSeesRegistrations
    <3>1. \A u \in Utxos : AllRows(store)'[a][u] = call.store.mapping[a][u]
      BY <2>1 DEF AllRows, NoRows
    <3>2. unique_dust_key(AllRows(store)', a) = unique_dust_key(call.store.mapping, a)
      BY <3>1, UniqueKeyLocal
    <3> QED BY <3>2 DEF OverlayAgrees
  <2>4. StoreAgrees(store)'
    BY DEF OverlayAgrees, StoreAgrees
  <2>5. OverlayAgrees' /\ (version = 1 => v0 = NoRows)'
    BY DEF OverlayAgrees
  <2> QED BY <2>2, <2>3, <2>4, <2>5
<1>5. ASSUME ProcessTokensErr
      PROVE  PalletIInv'
  BY <1>5 DEF ProcessTokensErr, PalletTypeOK, IndexerSeesRegistrations, AllRows,
              OverlayAgrees
<1>6. ASSUME ProcessTokensUnsent
      PROVE  PalletIInv'
  <2> USE <1>6 DEF ProcessTokensUnsent
  <2>1. call \in Call /\ call.store \in Storage /\ store \in Storage /\ v0' = NoRows
    BY DEF PalletTypeOK, Call, OverlayAgrees
  <2>2. /\ store'.mapping = call.store.mapping /\ store'.indexed = call.store.indexed
        /\ store'.owners = call.store.owners /\ store'.generating = store.generating
        /\ store'.unsent = store.unsent \union call.events
        /\ store' \in Storage
    BY <2>1 DEF Storage, Call
  <2>3. PalletTypeOK'
    BY <2>1, <2>2 DEF PalletTypeOK, Call
  <2>4. IndexerSeesRegistrations'
    <3> SUFFICES ASSUME NEW a \in Addrs
                 PROVE  store'.indexed[a] = unique_dust_key(AllRows(store)', a)
      BY DEF IndexerSeesRegistrations
    <3>1. \A u \in Utxos : AllRows(store)'[a][u] = call.store.mapping[a][u]
      BY <2>1, <2>2 DEF AllRows, NoRows
    <3>2. unique_dust_key(AllRows(store)', a) = unique_dust_key(call.store.mapping, a)
      BY <3>1, UniqueKeyLocal
    <3> QED BY <2>2, <3>2 DEF OverlayAgrees
  <2>5. StoreAgrees(store)'
    BY <2>2 DEF OverlayAgrees, StoreAgrees
  <2>6. OverlayAgrees' /\ (version = 1 => v0 = NoRows)'
    BY DEF OverlayAgrees
  <2> QED BY <2>3, <2>4, <2>5, <2>6
<1>7. ASSUME OnFinalize
      PROVE  PalletIInv'
  BY <1>7 DEF OnFinalize, PalletTypeOK, IndexerSeesRegistrations, AllRows, OverlayAgrees
<1>8. ASSUME MigrationStep
      PROVE  PalletIInv'
  <2> USE <1>8 DEF MigrationStep
  <2>1. CASE v0 = NoRows /\ version' = 1 /\ UNCHANGED <<v0, store>>
    BY <2>1 DEF PalletTypeOK, IndexerSeesRegistrations, AllRows, OverlayAgrees
  <2>2. ASSUME NEW a \in Addrs,
               v0' = [v0 EXCEPT ![a] = [u \in Utxos |-> None]],
               store' = [store EXCEPT !.mapping = [store.mapping EXCEPT ![a] =
                            [u \in Utxos |-> IF v0[a][u] # None THEN v0[a][u]
                                             ELSE store.mapping[a][u]]]],
               UNCHANGED version
        PROVE  PalletIInv'
    <3> DEFINE row == [u \in Utxos |-> IF v0[a][u] # None THEN v0[a][u]
                                       ELSE store.mapping[a][u]]
    <3>1. store \in Storage /\ v0 \in Rows /\ version = 0
      BY DEF PalletTypeOK
    <3>2. row \in [Utxos -> Keys \union {None}]
      BY <3>1 DEF Storage, Rows
    <3>3. /\ store'.mapping = [store.mapping EXCEPT ![a] = row]
          /\ store'.owners = store.owners /\ store'.indexed = store.indexed
          /\ store'.generating = store.generating /\ store'.unsent = store.unsent
          /\ store' \in Storage
      <4> HIDE DEF row
      <4>1. [store.mapping EXCEPT ![a] = row] \in Rows
        BY <3>1, <3>2 DEF Storage, Rows
      <4>2. store' = [store EXCEPT !.mapping = [store.mapping EXCEPT ![a] = row]]
        BY <2>2 DEF row
      <4> QED BY <3>1, <4>1, <4>2 DEF Storage
    <3>4. v0' \in Rows
      <4>1. [u \in Utxos |-> None] \in [Utxos -> Keys \union {None}]
        OBVIOUS
      <4> QED BY <2>2, <3>1, <4>1 DEF Rows
    <3>5. \A b \in Addrs, u \in Utxos : AllRows(store)'[b][u] = AllRows(store)[b][u]
      BY <2>2, <3>1, <3>3 DEF AllRows, Rows, Storage
    <3>6. IndexerSeesRegistrations'
      <4>1. ASSUME NEW b \in Addrs
            PROVE  unique_dust_key(AllRows(store)', b) = unique_dust_key(AllRows(store), b)
        BY <3>5, UniqueKeyLocal
      <4> QED BY <3>3, <4>1 DEF IndexerSeesRegistrations
    <3>7. PalletTypeOK'
      BY <2>2, <3>3, <3>4 DEF PalletTypeOK
    <3>8. StoreAgrees(store)' /\ OverlayAgrees'
      BY <3>3 DEF StoreAgrees, OverlayAgrees
    <3> QED BY <2>2, <3>1, <3>6, <3>7, <3>8
  <2> QED BY <2>1, <2>2
<1>9. CASE UNCHANGED palletVars
  BY <1>9 DEF palletVars, PalletTypeOK, IndexerSeesRegistrations, AllRows, OverlayAgrees
<1> QED BY <1>1, <1>2, <1>3, <1>4, <1>5, <1>6, <1>7, <1>8, <1>9 DEF PalletNext

-----------------------------------------------------------------------------
(* The inductive invariant holds throughout. *)
THEOREM PalletInvariance == PalletSpec => []PalletIInv
BY InitPalletIInv, StepPalletIInv, PTL DEF PalletSpec

(* The storage items and the overlay of process_tokens keep their types. *)
THEOREM PalletTypes == PalletSpec => []PalletTypeOK
<1>1. PalletIInv => PalletTypeOK
  BY DEF PalletIInv
<1> QED BY <1>1, PalletInvariance, PTL

(* Whatever Cardano reports, in blocks of any size, the reader of the
   Registration and Deregistration events of handle_registration and
   handle_registration_removal always knows the key handle_create credits. *)
THEOREM IndexersStayInStep == PalletSpec => []IndexerSeesRegistrations
<1>1. PalletIInv => IndexerSeesRegistrations
  BY DEF PalletIInv
<1> QED BY <1>1, PalletInvariance, PTL

(* UtxoOwners and the ledger agree after every step, whichever system
   transactions of process_tokens fail to execute, on every UTXO that was not
   part of one that could not be constructed. *)
THEOREM LedgerStaysInStep == PalletSpec => []LedgerFollowsOwners
<1>1. PalletIInv => LedgerFollowsOwners
  BY DEF PalletIInv, StoreAgrees, LedgerFollowsOwners
<1> QED BY <1>1, PalletInvariance, PTL

(* NextCardanoPosition never moves back: the check of the start of a call still
   holds when its overlay is committed. *)
THEOREM PositionIsMonotonic == PalletSpec => PositionNeverRegresses
<1>1. PalletIInv /\ [PalletNext]_palletVars => [AtOrAfter(position', position)]_palletVars
  <2> SUFFICES ASSUME PalletIInv, PalletNext
               PROVE  AtOrAfter(position', position)
    OBVIOUS
  <2>1. position \in CardanoPosition
    BY DEF PalletIInv, PalletTypeOK
  <2>2. CASE ProcessTokensOk \/ ProcessTokensUnsent
    BY <2>2 DEF ProcessTokensOk, ProcessTokensUnsent, PalletIInv, OverlayAgrees
  <2>3. ASSUME UNCHANGED position
        PROVE  AtOrAfter(position', position)
    BY <2>1, <2>3 DEF AtOrAfter, CardanoPosition
  <2> QED BY <2>2, <2>3 DEF PalletNext, ProcessTokensSkipped, ProcessTokensBegin,
              ProcessUtxo, ProcessTokensErr, OnFinalize, MigrationStep
<1> QED BY <1>1, PalletInvariance, PTL DEF PalletSpec, PositionNeverRegresses
=============================================================================
