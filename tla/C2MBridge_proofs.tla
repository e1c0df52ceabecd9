--------------------------- MODULE C2MBridge_proofs ---------------------------
(* Proofs about the bridge pallets, for any transfers they are handed. *)
EXTENDS C2MBridge, TLAPS

Sound(s) == s \in Storage /\ Owes(s, 0) /\ PaysOnce(s) /\ CounterIsFresh(s)

(* Writing one amount, or the stash, leaves a storage. *)
LEMMA StorageUpdates ==
  ASSUME NEW s \in Storage, NEW m \in Nat, NEW n \in Nat
  PROVE  /\ [s EXCEPT !.treasury = n] \in Storage
         /\ [s EXCEPT !.reserve = n] \in Storage
         /\ [s EXCEPT !.users = n] \in Storage
         /\ [s EXCEPT !.failed = n] \in Storage
         /\ [s EXCEPT !.received = n] \in Storage
         /\ [s EXCEPT !.count = m, !.sum = n] \in Storage
  BY DEF Storage

(* The types of the storage items. *)
LEMMA StorageFields ==
  ASSUME NEW s \in Storage
  PROVE  /\ s.count \in Nat /\ s.sum \in Nat /\ s.counter \in Nat
         /\ s.users \in Nat /\ s.treasury \in Nat /\ s.reserve \in Nat
         /\ s.received \in Nat /\ s.failed \in Nat
         /\ s.approved \in SUBSET Hashes /\ s.nonces \in SUBSET Nat
         /\ s.granted \in [Hashes -> Nat] /\ s.spent \in [Hashes -> Nat]
         /\ s.reused \in BOOLEAN
  BY DEF Storage

(* A system transaction settles what is owed, whether or not it succeeds:
   execute_serialized_tx and its three kinds of transactions. *)
LEMMA SystemTxSettles ==
  ASSUME NEW s \in Storage, NEW amount \in Nat, NEW ok \in BOOLEAN,
         Owes(s, amount), PaysOnce(s), CounterIsFresh(s)
  PROVE  /\ Sound(unlock_to_treasury(s, amount, ok))
         /\ Sound(distribute_reserve(s, amount, ok))
         /\ Sound(distribute_night(s, amount, ok))
<1> DEFINE t == [s EXCEPT !.treasury = s.treasury + amount]
           v == [s EXCEPT !.reserve = s.reserve + amount]
           u == [s EXCEPT !.users = s.users + amount]
           f == [s EXCEPT !.failed = s.failed + amount]
<1>1. t \in Storage /\ v \in Storage /\ u \in Storage /\ f \in Storage
  <2>1. /\ s.treasury + amount \in Nat /\ s.reserve + amount \in Nat
        /\ s.users + amount \in Nat /\ s.failed + amount \in Nat
    BY StorageFields
  <2> QED BY <2>1, StorageUpdates
<1>2. Owes(t, 0) /\ Owes(v, 0) /\ Owes(u, 0) /\ Owes(f, 0)
  BY DEF Storage, Owes
<1>3. PaysOnce(t) /\ PaysOnce(v) /\ PaysOnce(u) /\ PaysOnce(f)
  BY DEF Storage, PaysOnce
<1>4. CounterIsFresh(t) /\ CounterIsFresh(v) /\ CounterIsFresh(u) /\ CounterIsFresh(f)
  BY DEF Storage, CounterIsFresh
<1>5. Sound(t) /\ Sound(v) /\ Sound(u) /\ Sound(f)
  <2> HIDE DEF t, v, u, f
  <2> QED BY <1>1, <1>2, <1>3, <1>4 DEF Sound
<1> QED BY <1>5 DEF unlock_to_treasury, distribute_reserve, distribute_night, Failed

(* The stash takes a transfer in, or is emptied into a flush:
   handle_subminimal_transfer. *)
LEMMA SubminimalIsSound ==
  ASSUME NEW s \in Storage, NEW t \in Transfer, NEW ok \in BOOLEAN, threshold \in Nat,
         Owes(s, t.amount), PaysOnce(s), CounterIsFresh(s)
  PROVE  Sound(handle_subminimal_transfer(s, t, ok))
<1>0. t.amount \in Nat
  BY DEF Transfer
<1>1. CASE s.sum + t.amount > threshold
  <2> DEFINE e == [s EXCEPT !.count = 0, !.sum = 0]
  <2>0. s.sum + t.amount \in Nat /\ 0 \in Nat
    BY <1>0, StorageFields
  <2>1. e \in Storage
    BY <2>0, StorageUpdates
  <2>2. Owes(e, s.sum + t.amount)
    BY <1>0 DEF Storage, Owes
  <2>3. PaysOnce(e) /\ CounterIsFresh(e)
    BY DEF Storage, PaysOnce, CounterIsFresh
  <2>4. handle_subminimal_transfer(s, t, ok) = unlock_to_treasury(e, s.sum + t.amount, ok)
    BY <1>1 DEF handle_subminimal_transfer
  <2> HIDE DEF e
  <2> QED BY <2>0, <2>1, <2>2, <2>3, <2>4, SystemTxSettles
<1>2. CASE ~(s.sum + t.amount > threshold)
  <2> DEFINE e == [s EXCEPT !.count = s.count + 1, !.sum = s.sum + t.amount]
  <2>0. s.count + 1 \in Nat /\ s.sum + t.amount \in Nat
    BY <1>0, StorageFields
  <2>1. e \in Storage
    BY <2>0, StorageUpdates
  <2>2. Owes(e, 0)
    BY <1>0 DEF Storage, Owes
  <2>3. PaysOnce(e) /\ CounterIsFresh(e)
    BY DEF Storage, PaysOnce, CounterIsFresh
  <2>4. handle_subminimal_transfer(s, t, ok) = e
    BY <1>2 DEF handle_subminimal_transfer
  <2> HIDE DEF e
  <2> QED BY <2>1, <2>2, <2>3, <2>4 DEF Sound
<1> QED BY <1>1, <1>2

(* An approval is taken, and a nonce made, before the ledger is called:
   handle_user_transfer. *)
LEMMA UserTransferIsSound ==
  ASSUME NEW s \in Storage, NEW t \in Transfer, NEW ok \in BOOLEAN,
         Owes(s, t.amount), PaysOnce(s), CounterIsFresh(s)
  PROVE  Sound(handle_user_transfer(s, t, ok))
<1> DEFINE h == t.mc_tx_hash
<1>0. t.amount \in Nat /\ h \in Hashes
  BY DEF Transfer
<1>1. CASE h \notin s.approved
  BY <1>0, <1>1, SystemTxSettles DEF handle_user_transfer
<1>2. CASE h \in s.approved
  <2> DEFINE p == [s.spent EXCEPT ![h] = s.spent[h] + 1]
             a == s.approved \ {h}
             n == s.nonces \union {s.counter}
             r == s.reused \/ s.counter \in s.nonces
             e == [s EXCEPT !.spent = p, !.approved = a, !.counter = s.counter + 1,
                            !.nonces = n, !.reused = r]
  <2>1. p \in [Hashes -> Nat] /\ a \in SUBSET Hashes /\ n \in SUBSET Nat
    BY <1>0 DEF Storage
  <2>2. ~r
    <3>1. s.counter \in Nat
      BY DEF Storage
    <3> QED BY <3>1 DEF CounterIsFresh
  <2>3. \A x \in Hashes : s.granted[x] = IF x \in a THEN p[x] + 1 ELSE p[x]
    BY <1>0, <1>2 DEF Storage, PaysOnce
  <2>4. \A x \in n : x < s.counter + 1
    BY DEF Storage, CounterIsFresh
  <2>5. handle_user_transfer(s, t, ok) = distribute_night(e, t.amount, ok)
    BY <1>2 DEF handle_user_transfer, generate_nonce, Spend
  <2>6. r \in BOOLEAN
    OBVIOUS
  <2> HIDE DEF p, a, n, r
  <2>7. e \in Storage
    <3> DEFINE c == s.counter + 1
    <3>1. c \in Nat
      BY StorageFields
    <3> HIDE DEF c
    <3>2. [s EXCEPT !.spent = p, !.approved = a, !.counter = c,
                    !.nonces = n, !.reused = r] \in Storage
      BY <2>1, <2>6, <3>1 DEF Storage
    <3> QED BY <3>2 DEF c
  <2>8. Owes(e, t.amount)
    BY DEF Storage, Owes
  <2>9. PaysOnce(e)
    BY <2>3 DEF Storage, PaysOnce
  <2>10. CounterIsFresh(e)
    BY <2>2, <2>4 DEF Storage, CounterIsFresh
  <2> HIDE DEF e
  <2> QED BY <1>0, <2>5, <2>7, <2>8, <2>9, <2>10, SystemTxSettles
<1> QED BY <1>1, <1>2

(* Whatever the minimum the ledger reports and whoever the recipient is:
   handle_incoming_transfer. *)
LEMMA HandlerIsSound ==
  ASSUME NEW s, Sound(s), NEW t \in Transfer, NEW min \in Nat, NEW ok \in BOOLEAN,
         threshold \in Nat
  PROVE  Sound(handle_incoming_transfer(s, t, min, ok))
<1> USE BridgeAssumption
<1> DEFINE r == [s EXCEPT !.received = s.received + t.amount]
<1>0. s \in Storage /\ t.amount \in Nat
  BY DEF Sound, Transfer
<1>1. r \in Storage
  <2>1. s.received + t.amount \in Nat
    BY <1>0, StorageFields
  <2> QED BY <1>0, <2>1, StorageUpdates
<1>2. Owes(r, t.amount)
  BY <1>0 DEF Sound, Storage, Owes
<1>3. PaysOnce(r) /\ CounterIsFresh(r)
  BY <1>0 DEF Sound, Storage, PaysOnce, CounterIsFresh
<1>4. handle_incoming_transfer(s, t, min, ok) =
        IF t.amount < min THEN handle_subminimal_transfer(r, t, ok)
        ELSE handle_regular_transfer(r, t, ok)
  BY DEF handle_incoming_transfer
<1> HIDE DEF r
<1>5. Sound(handle_subminimal_transfer(r, t, ok))
  BY <1>1, <1>2, <1>3, SubminimalIsSound
<1>6. Sound(handle_regular_transfer(r, t, ok))
  <2>1. /\ Sound(unlock_to_treasury(r, t.amount, ok))
        /\ Sound(distribute_reserve(r, t.amount, ok))
    BY <1>0, <1>1, <1>2, <1>3, SystemTxSettles
  <2>2. Sound(handle_user_transfer(r, t, ok))
    BY <1>1, <1>2, <1>3, UserTransferIsSound
  <2>3. t.recipient \in Recipients \union {"Reserve", "Invalid"}
    BY DEF Transfer
  <2> QED BY <2>1, <2>2, <2>3 DEF handle_regular_transfer
<1> QED BY <1>4, <1>5, <1>6

-----------------------------------------------------------------------------
(* The genesis of both pallets satisfies the inductive invariant. *)
LEMMA PalletInitHolds == PalletInit => PalletIInv
<1> SUFFICES ASSUME NEW s \in Scripts \union {None}, NEW c \in Checkpoints \union {None},
                    NEW config \in Nat, NEW approved \in SUBSET Hashes,
                    InitPallets(s, c, config, approved)
             PROVE  PalletIInv
  BY DEF PalletInit
<1> DEFINE g == [h \in Hashes |-> IF h \in approved THEN 1 ELSE 0]
           z == [h \in Hashes |-> 0]
<1>1. g \in [Hashes -> Nat] /\ z \in [Hashes -> Nat]
  OBVIOUS
<1>2. \A h \in Hashes : g[h] = IF h \in approved THEN z[h] + 1 ELSE z[h]
  OBVIOUS
<1>3. store = [approved |-> approved, count |-> 0, sum |-> 0, counter |-> 0,
               users |-> 0, treasury |-> 0, reserve |-> 0, received |-> 0, failed |-> 0,
               granted |-> g, spent |-> z, nonces |-> {}, reused |-> FALSE]
  BY DEF InitPallets
<1> HIDE DEF g, z
<1>4. store \in Storage
  BY <1>1, <1>3 DEF Storage
<1>5. TypeOK
  BY <1>4 DEF InitPallets, TypeOK
<1>6. FundsAreAccountedFor /\ ApprovalsPayOnce /\ CounterIsFresh(store)
  BY <1>2, <1>3 DEF FundsAreAccountedFor, Owes, ApprovalsPayOnce, PaysOnce, CounterIsFresh
<1> QED BY <1>5, <1>6 DEF PalletIInv

(* Every call and hook of the two pallets keeps it. *)
LEMMA PalletStepKeepsIInv == PalletIInv /\ [PalletNext]_palletVars => PalletIInv'
<1> USE BridgeAssumption
<1> SUFFICES ASSUME PalletIInv, [PalletNext]_palletVars
             PROVE  PalletIInv'
  OBVIOUS
<1>0. TypeOK /\ Sound(store)
  BY DEF PalletIInv, Sound, TypeOK, FundsAreAccountedFor, ApprovalsPayOnce
<1>1. ASSUME Sound(store)', scripts' \in Scripts \union {None},
             checkpoint' \in Checkpoints \union {None}, threshold' \in Nat,
             executed' \in BOOLEAN, call' = None \/ call' \in Call
      PROVE  PalletIInv'
  BY <1>1 DEF PalletIInv, Sound, TypeOK, FundsAreAccountedFor, ApprovalsPayOnce
<1>2. ASSUME NEW transfers \in Seq(Transfer), NEW c \in Checkpoints,
             HandleTransfers(transfers, c)
      PROVE  PalletIInv'
  <2>1. call' \in Call
    BY <1>2 DEF HandleTransfers, Call
  <2> QED BY <1>0, <1>1, <1>2, <2>1 DEF HandleTransfers, TypeOK, Sound
<1>3. ASSUME NEW min_amount \in Nat, NEW ok \in BOOLEAN, HandleTransfer(min_amount, ok)
      PROVE  PalletIInv'
  <2>1. call \in Call /\ call.transfers \in Seq(Transfer) /\ call.transfers # <<>>
    BY <1>0, <1>3 DEF HandleTransfer, TypeOK, Call
  <2>2. Head(call.transfers) \in Transfer /\ Tail(call.transfers) \in Seq(Transfer)
    BY <2>1
  <2>3. call' \in Call
    BY <1>3, <2>1, <2>2 DEF HandleTransfer, Call
  <2>4. threshold \in Nat
    BY <1>0 DEF TypeOK
  <2>5. Sound(store')
    BY <1>0, <1>3, <2>2, <2>4, HandlerIsSound DEF HandleTransfer
  <2> QED BY <1>0, <1>1, <1>3, <2>3, <2>5 DEF HandleTransfer, TypeOK, Sound
<1>4. CASE HandleTransfersEnd
  <2>1. call.data_checkpoint \in Checkpoints
    BY <1>0, <1>4 DEF HandleTransfersEnd, TypeOK, Call
  <2> QED BY <1>0, <1>1, <1>4, <2>1 DEF HandleTransfersEnd, TypeOK, Sound
<1>5. ASSUME NEW s \in Scripts, NEW c \in Checkpoints, set_main_chain_scripts(s, c)
      PROVE  PalletIInv'
  BY <1>0, <1>1, <1>5 DEF set_main_chain_scripts, TypeOK, Sound
<1>6. ASSUME NEW config \in Nat, set_subminimal_transfers_config(config)
      PROVE  PalletIInv'
  BY <1>0, <1>1, <1>6 DEF set_subminimal_transfers_config, TypeOK, Sound
<1>7. ASSUME NEW hashes \in SUBSET Hashes, add_approved_mc_tx_hashes(hashes)
      PROVE  PalletIInv'
  <2> DEFINE a == store.approved \union hashes
             g == [h \in Hashes |-> IF h \in hashes \ store.approved
                                    THEN store.granted[h] + 1 ELSE store.granted[h]]
  <2>1. store \in Storage
    BY <1>0 DEF Sound
  <2>2. a \in SUBSET Hashes /\ g \in [Hashes -> Nat]
    BY <2>1, StorageFields
  <2>3. \A h \in Hashes : g[h] = IF h \in a THEN store.spent[h] + 1 ELSE store.spent[h]
    BY <1>0, <2>1, StorageFields DEF Sound, PaysOnce
  <2>4. store' = [store EXCEPT !.approved = a, !.granted = g]
    BY <1>7 DEF add_approved_mc_tx_hashes
  <2> HIDE DEF a, g
  <2>5. store' \in Storage
    BY <2>1, <2>2, <2>4 DEF Storage
  <2>6. Owes(store', 0) /\ PaysOnce(store') /\ CounterIsFresh(store')
    BY <1>0, <2>1, <2>3, <2>4 DEF Sound, Storage, Owes, PaysOnce, CounterIsFresh
  <2> QED BY <1>0, <1>1, <1>7, <2>5, <2>6 DEF add_approved_mc_tx_hashes, TypeOK, Sound
<1>8. CASE OnFinalize
  <2>1. store \in Storage /\ store' = [store EXCEPT !.counter = 0, !.nonces = {}]
    BY <1>0, <1>8 DEF Sound, OnFinalize
  <2>2. store' \in Storage
    BY <2>1 DEF Storage
  <2>3. Owes(store', 0) /\ PaysOnce(store') /\ CounterIsFresh(store')
    BY <1>0, <2>1 DEF Sound, Storage, Owes, PaysOnce, CounterIsFresh
  <2> QED BY <1>0, <1>1, <1>8, <2>2, <2>3 DEF OnFinalize, TypeOK, Sound
<1>9. CASE UNCHANGED palletVars
  BY <1>0, <1>1, <1>9 DEF palletVars, TypeOK, Sound
<1> QED BY <1>2, <1>3, <1>4, <1>5, <1>6, <1>7, <1>8, <1>9 DEF PalletNext

(* The inductive invariant of the bridge pallets holds whatever transfers,
   governance calls and ledger failures they meet. *)
THEOREM PalletInvariance == PalletSpec => []PalletIInv
<1> QED BY PalletInitHolds, PalletStepKeepsIInv, PTL DEF PalletSpec

(* The storage items keep their types. *)
THEOREM BridgeTypes == PalletSpec => []TypeOK
<1>1. PalletIInv => TypeOK
  BY DEF PalletIInv
<1> QED BY <1>1, PalletInvariance, PTL

(* handle_incoming_transfer neither makes nor loses tokens. *)
THEOREM FundsAreSafe == PalletSpec => []FundsAreAccountedFor
<1>1. PalletIInv => FundsAreAccountedFor
  BY DEF PalletIInv
<1> QED BY <1>1, PalletInvariance, PTL

(* take of ApprovedMcTxHashes spends an approval exactly once. *)
THEOREM ApprovalsAreSafe == PalletSpec => []ApprovalsPayOnce
<1>1. PalletIInv => ApprovalsPayOnce
  BY DEF PalletIInv
<1> QED BY <1>1, PalletInvariance, PTL

(* generate_nonce never repeats a nonce within a block. *)
THEOREM NoncesAreSafe == PalletSpec => []NoncesAreUnique
<1>1. PalletIInv => NoncesAreUnique
  BY DEF PalletIInv, CounterIsFresh, NoncesAreUnique
<1> QED BY <1>1, PalletInvariance, PTL
=============================================================================
