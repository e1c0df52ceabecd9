------------------------- MODULE CommitteeSelection -------------------------
(***************************************************************************)
(* Choosing the committee of block producers: the inherent that stores the *)
(* committee of the next epoch (create_inherent, check_inherent, set), the *)
(* rotation Next -> Queued -> Current at an epoch's first block, and       *)
(* pallet_session, which registers the keys of a committee and applies it  *)
(* one session later.                                                      *)
(*                                                                         *)
(* The author of a block runs create_inherent after the hooks of the new   *)
(* block; everybody else runs check_inherent on the state of its parent.   *)
(* The selection itself is a function of inputs both have (Ariadne, the    *)
(* candidates on Cardano) and of the D-parameter stored on the chain, here *)
(* an arbitrary function drawn for every block.                            *)
(***************************************************************************)
EXTENDS Integers, Sequences, SequencesExt

CONSTANTS Members,          \* records [id, key] a committee may contain
          Committees,       \* sequences of members the selection may return
          GenesisCommittee,
          DParameters,
          SlotsPerEpoch,    \* of this chain
          McSlotsPerEpoch,  \* a Cardano epoch, in slots of this chain
          Boundary,         \* k / f, in slots of this chain
          GenesisSlot, MaxGap, MaxSlot,   \* bounds on time
          None

(* Epochs of Cardano are made of whole epochs of this chain, and no stable *)
(* block that a header may refer to is a Cardano epoch back.               *)
ASSUME SelectionAssumption ==
    /\ {SlotsPerEpoch, McSlotsPerEpoch, Boundary} \subseteq Nat \ {0}
    /\ {GenesisSlot, MaxGap, MaxSlot} \subseteq Nat
    /\ McSlotsPerEpoch % SlotsPerEpoch = 0
    /\ 3 * Boundary + SlotsPerEpoch <= McSlotsPerEpoch
    /\ GenesisSlot >= 2 * McSlotsPerEpoch
    /\ GenesisCommittee \in Committees
    /\ Committees \subseteq Seq(Members)
    /\ None \notin Committees

VARIABLES chain,   \* the state of the head
          last     \* the block of this step, for the properties

vars == <<chain, last>>

Ids == {m.id : m \in Members}

Info(epoch, committee) == [epoch |-> epoch, committee |-> committee]
Call(epoch, validators) == [epoch |-> epoch, validators |-> validators]
Block(author, result) == [author |-> author, result |-> result]

epoch_number(slot) == slot \div SlotsPerEpoch
timestamp_to_mainchain_epoch(slot) == slot \div McSlotsPerEpoch

-----------------------------------------------------------------------------
(* pallet_session: the owner of a key is the one account it is registered   *)
(* for; a key that another account owns cannot be registered.               *)

set_keys(keys, m) ==
    IF \E id \in Ids \ {m.id} : keys[id] = m.key THEN keys ELSE [keys EXCEPT ![m.id] = m.key]

register_committee_keys_last(keys, committee) == FoldLeft(set_keys, keys, committee)

(* The first seat of an account counts, and errors are only logged. *)
register_committee_keys(keys, committee) ==
    LET register(acc, m) ==
            IF m.id \in acc.added THEN acc
            ELSE [added |-> acc.added \union {m.id}, keys |-> set_keys(acc.keys, m)]
    IN  FoldLeft(register, [added |-> {}, keys |-> keys], committee).keys

WithKeys_default(keys, committee) ==
    [i \in DOMAIN committee |-> [id |-> committee[i].id, key |-> keys[committee[i].id]]]

(* The validators that have keys, with their keys. *)
WithKeys(keys, committee) ==
    LET seat(m) == [id |-> m.id, key |-> keys[m.id]]
        known(s) == s.key # None
    IN  SelectSeq([i \in DOMAIN committee |-> seat(committee[i])], known)

NoKeys == [id \in Ids |-> None]
GenesisKeys == register_committee_keys(NoKeys, GenesisCommittee)

Init ==
    /\ chain = [started |-> FALSE, slot |-> GenesisSlot,
                current |-> Info(0, GenesisCommittee),
                queued |-> Info(0, GenesisCommittee),
                next |-> None,
                validators |-> WithKeys(GenesisKeys, GenesisCommittee),
                queuedKeys |-> WithKeys(GenesisKeys, GenesisCommittee),
                nextKeys |-> GenesisKeys,
                d |-> CHOOSE d \in DParameters : TRUE,
                agenda |-> None]
    /\ last = Block("nobody", "ok")

-----------------------------------------------------------------------------
(* The hooks of a block, in the order of the runtime. *)

(* Block 1 gives the committees of the genesis the epoch they serve in. *)
on_initialize(c, epoch) ==
    IF c.started THEN c
    ELSE [c EXCEPT !.started = TRUE, !.current.epoch = epoch, !.queued.epoch = epoch]

(* pallet_scheduler dispatches what is due. *)
Scheduler(c) == IF c.agenda = None THEN c ELSE [c EXCEPT !.d = c.agenda, !.agenda = None]

should_end_session_early(c, epoch) == epoch >= c.queued.epoch /\ c.next # None

should_end_session(c, epoch) == epoch > c.queued.epoch /\ c.next # None

rotate_committee_relabel(c) ==
    [c EXCEPT !.current = Info(epoch_number(c.slot), c.queued.committee),
              !.queued = Info(epoch_number(c.slot), c.next.committee), !.next = None]

rotate_committee_to_next_epoch(c) ==
    [c EXCEPT !.current = Info(c.queued.epoch + 1, c.queued.committee),
              !.queued = c.next, !.next = None]

(* rotate_session: what was queued becomes effective, then new_session. *)
Session(c, epoch) ==
    IF should_end_session(c, epoch)
    THEN LET rotated == rotate_committee_to_next_epoch([c EXCEPT !.validators = c.queuedKeys])
             keys == register_committee_keys(c.nextKeys, rotated.queued.committee)
         IN  [rotated EXCEPT !.nextKeys = keys,
                             !.queuedKeys = WithKeys(keys, rotated.queued.committee)]
    ELSE c

Initialized(slot) ==
    LET epoch == epoch_number(slot)
    IN  Session(Scheduler(on_initialize([chain EXCEPT !.slot = slot], epoch)), epoch)

-----------------------------------------------------------------------------
(* The inherent. *)

get_next_unset_epoch_number(c) ==
    IF c.next # None THEN c.next.epoch + 1 ELSE c.queued.epoch + 1

(* Block 1 asks for the committee of the epoch it is in. *)
mc_epoch_for_next_ariadne_cidp(c, slot) ==
    LET unset == get_next_unset_epoch_number(c)
        epoch == IF unset = 1 THEN epoch_number(slot) ELSE unset
    IN  timestamp_to_mainchain_epoch(epoch * SlotsPerEpoch)

data_epoch(mcEpoch) == mcEpoch - 2

(* The provider hands out inputs only if they were final at the reference. *)
HasInputs(slot, reference) ==
    data_epoch(mc_epoch_for_next_ariadne_cidp(chain, slot))
        < timestamp_to_mainchain_epoch(reference)

create_inherent(c, select) ==
    IF c.next # None THEN None
    ELSE Call(c.queued.epoch + 1,
              IF select[c.d] # None THEN select[c.d] ELSE c.queued.committee)

check_inherent_queued(c, call, select) ==
    call = None \/ call.validators = IF select[c.d] # None THEN select[c.d] ELSE c.queued.committee

check_inherent(c, call, select) ==
    \/ call = None
    \/ call.validators =
         CASE select[c.d] # None -> select[c.d]
           [] select[c.d] = None /\ c.next # None -> c.next.committee
           [] select[c.d] = None /\ c.next = None -> c.queued.committee

is_inherent_required_no(c) == FALSE

is_inherent_required(c) == c.next = None

(* The call is mandatory: an error of it makes the block invalid. *)
SetSucceeds(c, call) ==
    call = None \/ (call.epoch = c.queued.epoch + 1 /\ c.next = None)

set(c, call) ==
    IF call = None THEN c
    ELSE [c EXCEPT !.next = Info(call.epoch, call.validators)]

(* The rest of the network checks the inherents on the parent and executes. *)
Import(author, slot, call, select) ==
    LET valid == /\ check_inherent(chain, call, select)
                 /\ is_inherent_required(chain) => call # None
                 /\ SetSucceeds(Initialized(slot), call)
    IN  /\ last' = Block(author, IF valid THEN "ok" ELSE "refused")
        /\ chain' = IF valid THEN set(Initialized(slot), call) ELSE chain

Slots == (chain.slot + 1) .. (IF chain.slot + MaxGap < MaxSlot THEN chain.slot + MaxGap ELSE MaxSlot)
Selections == [DParameters -> Committees \union {None}]

(* create_inherent panics when it needs inputs and there are none. *)
Panics(slot, reference) == Initialized(slot).next = None /\ ~HasInputs(slot, reference)

AuthorHonest(slot) ==
    \E reference \in (slot - 3 * Boundary) .. (slot - Boundary), select \in Selections :
        IF Panics(slot, reference)
        THEN last' = Block("honest", "panic") /\ UNCHANGED chain
        ELSE Import("honest", slot, create_inherent(Initialized(slot), select), select)

(* Any block: without the call, or with some epoch and committee. *)
AuthorOther(slot) ==
    \E select \in Selections :
        \/ Import("other", slot, None, select)
        \/ \E epoch \in chain.queued.epoch .. (epoch_number(slot) + 1), v \in Committees :
              Import("other", slot, Call(epoch, v), select)

-----------------------------------------------------------------------------
(* Governance, in a block's extrinsics: update_d_parameter, at once ...     *)

UpdateDParameter ==
    /\ chain.started
    /\ \E d \in DParameters \ {chain.d} : chain' = [chain EXCEPT !.d = d]
    /\ last' = Block("nobody", "ok")

(* ... or through the scheduler, in the hooks of the next block. *)
ScheduleDParameter ==
    /\ chain.started
    /\ \E d \in DParameters \ {chain.d} : chain' = [chain EXCEPT !.agenda = d]
    /\ last' = Block("nobody", "ok")

Next ==
    \/ \E slot \in Slots : AuthorHonest(slot) \/ AuthorOther(slot)
    \/ UpdateDParameter

Spec == Init /\ [][Next]_vars

ScheduledSpec == Init /\ [][Next \/ ScheduleDParameter]_vars

-----------------------------------------------------------------------------
Infos == [epoch : Nat, committee : Committees]
Seat == [id : Ids, key : {m.key : m \in Members}]

(* Types of the storage items of the committee and session pallets. *)
TypeOK ==
    /\ chain.slot \in GenesisSlot .. MaxSlot
    /\ {chain.current, chain.queued} \subseteq Infos
    /\ chain.next \in Infos \union {None}
    /\ \A seats \in {chain.validators, chain.queuedKeys} : seats \in Seq(Seat)
    /\ chain.d \in DParameters

(***************************************************************************)
(* A block of an honest author is never lost to the committee inherent:    *)
(* the inputs create_inherent insists on are there, what it proposes after *)
(* the rotation is what check_inherent works out before it, and `set',     *)
(* which is mandatory, succeeds.                                           *)
(***************************************************************************)
HonestBlocksPass == last.author = "honest" => last.result = "ok"

FirstSeat(committee, id) ==
    committee[CHOOSE i \in DOMAIN committee :
        committee[i].id = id /\ \A j \in 1 .. (i - 1) : committee[j].id # id]

(* The key of the account's first seat is one that no other account ever claims. *)
Uncontested(committee, id) ==
    \A m \in Members : m.key = FirstSeat(committee, id).key => m.id = id

(* Whether these are the seats of a session for the committee. *)
SeatsOf(committee, seats) ==
    LET ids == {m.id : m \in Range(committee)}
        uncontested == {id \in ids : Uncontested(committee, id)}
    IN  /\ \E dropped \in SUBSET (ids \ uncontested) :
              [i \in DOMAIN seats |-> seats[i].id]
                  = SelectSeq([i \in DOMAIN committee |-> committee[i].id],
                              LAMBDA id : id \notin dropped)
        /\ \A i \in DOMAIN seats : seats[i].id \in uncontested =>
              seats[i].key = FirstSeat(committee, seats[i].id).key
        /\ \A i, j \in DOMAIN seats :
              seats[i].key = seats[j].key => seats[i].id = seats[j].id

(***************************************************************************)
(* CurrentCommittee and QueuedCommittee name, in order, the validators of  *)
(* the session that runs and of the one after it, whatever epochs were     *)
(* skipped and whatever keys were changed.  An account that sits several   *)
(* times does so with the key of its first seat.  A key that two accounts  *)
(* claim, for which set_keys may fail, is never held by both, and costs    *)
(* nobody but these two their key or their seats.                          *)
(***************************************************************************)
CommitteesAreTheSessions ==
    /\ SeatsOf(chain.current.committee, chain.validators)
    /\ SeatsOf(chain.queued.committee, chain.queuedKeys)

(***************************************************************************)
(* The rotation is never ahead of time, and the committee that serves, the *)
(* one that is queued and the one that is selected stay one epoch apart,   *)
(* also while skipped epochs are made up for.                              *)
(***************************************************************************)
LabelsFollowTheEpochs ==
    /\ chain.current.epoch = chain.queued.epoch
    /\ chain.queued.epoch <= epoch_number(chain.slot)
    /\ chain.next # None => chain.next.epoch = chain.queued.epoch + 1

(***************************************************************************)
(* From block 1 on no epoch is left out and none is served twice: the      *)
(* label of the current committee grows by one with every rotation.        *)
(***************************************************************************)
LabelsAreConsecutive ==
    [][chain.started => \/ chain'.current = chain.current
                        \/ chain'.current.epoch = chain.current.epoch + 1]_vars

(***************************************************************************)
(* At most one block in a row leaves the next committee unset, whoever its *)
(* author: the first block of an epoch may leave out the inherent (it was  *)
(* set on the parent), the block after it may not.                         *)
(***************************************************************************)
NextCommitteeIsSetAgain ==
    [][chain.next = None /\ chain'.slot > chain.slot => chain'.next # None]_vars

=============================================================================
