------------------------- MODULE FederatedAuthority -------------------------
(***************************************************************************)
(* pallet-federated-authority: governance motions that need the approval   *)
(* of several authority bodies (in this runtime the Council and the        *)
(* Technical Committee) before they are dispatched with Root privileges.   *)
(*                                                                         *)
(* A body's collective vote reaches this pallet as an origin that already  *)
(* carries the 2/3 majority; here a body may approve or revoke whenever it *)
(* likes.  A motion is stored under the hash of its call, so the call      *)
(* itself is the key.  An extrinsic that returns an error changes nothing  *)
(* and is a stuttering step.                                               *)
(***************************************************************************)
EXTENDS Integers, FiniteSets

CONSTANTS
    Bodies,              \* authority bodies (AuthId: the collective's pallet index)
    Calls,               \* runtime calls that can be put to a motion
    MaxAuthorityBodies,  \* T::MaxAuthorityBodies, the bound of the approvals set
    MotionDuration,      \* T::MotionDuration, in blocks
    ProportionN,         \* T::MotionApprovalProportion: at least
    ProportionD,         \*   ProportionN / ProportionD of MaxAuthorityBodies
    None,                \* an absent StorageMap entry, or a block that never was
    MaxBlock             \* bound on the block number, for model checking only

(* The runtime's configuration: two bodies, all of which must approve. *)
ASSUME ConfigAssumption ==
    /\ IsFiniteSet(Bodies)
    /\ MaxAuthorityBodies = Cardinality(Bodies)
    /\ MaxAuthorityBodies >= 1
    /\ ProportionN \in Nat \ {0}
    /\ ProportionD = ProportionN
    /\ MotionDuration \in Nat \ {0}
    /\ MaxBlock \in Nat
    /\ None \notin Int

MotionInfo == [approvals : SUBSET Bodies, ends_block : Nat]

ASSUME NoneAssumption == None \notin MotionInfo

EventTypes == {"None", "MotionApproved", "MotionRevoked", "MotionDispatched",
               "MotionExpired"}

VARIABLES
    block,    \* frame_system block number
    motions,  \* Motions: call -> MotionInfo or None
    event,    \* the event of the latest extrinsic of this block
    grant,    \* history: block at which a body gave its standing approval
    credit    \* history: approvals less revocations and dispatches, per body

vars == <<block, motions, event, grant, credit>>

NoEvent(c) == [type |-> "None", call |-> c]

Init ==
    /\ block = 1
    /\ motions = [c \in Calls |-> None]
    /\ event \in {NoEvent(c) : c \in Calls}
    /\ grant = [c \in Calls |-> [b \in Bodies |-> None]]
    /\ credit = [c \in Calls |-> [b \in Bodies |-> 0]]

-----------------------------------------------------------------------------
(* FederatedAuthorityEnsureProportionAtLeast::reached_proportion *)
reached_proportion(n, d) == n * ProportionD >= ProportionN * d

is_motion_approved(total_approvals) ==
    reached_proportion(total_approvals, MaxAuthorityBodies)

has_ended_one_block_late(motion) == block > motion.ends_block

has_ended(motion) == block >= motion.ends_block

motion_remove_skipped(c) == UNCHANGED motions

motion_remove(c) == motions' = [motions EXCEPT ![c] = None]

Deposit(type, c) == event' = [type |-> type, call |-> c]

(* BoundedBTreeSet::try_insert refuses a set that is already full. *)
CanInsert(approvals) == Cardinality(approvals) < MaxAuthorityBodies

NewEndsBlock_subtracted == block - MotionDuration

NewEndsBlock == block + MotionDuration

MotionApprove(b, c) ==
    /\ LET motion == motions[c] IN
       \/ /\ motion # None
          /\ ~ has_ended(motion)
          /\ b \notin motion.approvals
          /\ CanInsert(motion.approvals)
          /\ motions' = [motions EXCEPT ![c] =
                [approvals |-> motion.approvals \union {b},
                 ends_block |-> motion.ends_block]]
       \/ /\ motion = None
          /\ CanInsert({})
          /\ motions' = [motions EXCEPT ![c] =
                [approvals |-> {b}, ends_block |-> NewEndsBlock]]
    /\ Deposit("MotionApproved", c)
    /\ grant' = [grant EXCEPT ![c][b] = block]
    /\ credit' = [credit EXCEPT ![c][b] = @ + 1]
    /\ UNCHANGED block

StoreApprovals(c, left) ==
    motions' = [motions EXCEPT ![c] =
        [approvals |-> left, ends_block |-> motions[c].ends_block]]

AfterRevoke_never_removes(c, left) == StoreApprovals(c, left)

(* When the last approval is gone the motion is removed. *)
AfterRevoke(c, left) ==
    IF left = {} THEN motion_remove(c) ELSE StoreApprovals(c, left)

MotionRevoke(b, c) ==
    /\ motions[c] # None
    /\ ~ has_ended(motions[c])
    /\ b \in motions[c].approvals
    /\ AfterRevoke(c, motions[c].approvals \ {b})
    /\ Deposit("MotionRevoked", c)
    /\ grant' = [grant EXCEPT ![c][b] = None]
    /\ credit' = [credit EXCEPT ![c][b] = @ - 1]
    /\ UNCHANGED block

(***************************************************************************)
(* motion_close, by any signed account.  An approved motion is dispatched  *)
(* as Root whether or not it has ended; the dispatch runs in a storage     *)
(* layer of its own and the motion is removed whatever its result.  The    *)
(* caller's weight bound only decides whether the call is refused.         *)
(***************************************************************************)
MotionCloseApproved(c) ==
    /\ motions[c] # None
    /\ is_motion_approved(Cardinality(motions[c].approvals))
    /\ Deposit("MotionDispatched", c)
    /\ motion_remove(c)
    /\ credit' = [credit EXCEPT ![c] = [b \in Bodies |-> credit[c][b] - 1]]
    /\ UNCHANGED <<block, grant>>

MotionCloseExpired(c) ==
    /\ motions[c] # None
    /\ ~ is_motion_approved(Cardinality(motions[c].approvals))
    /\ has_ended(motions[c])
    /\ Deposit("MotionExpired", c)
    /\ motion_remove(c)
    /\ UNCHANGED <<block, grant, credit>>

(* frame_system: a new block starts with an empty event list. *)
NextBlock ==
    /\ block < MaxBlock
    /\ block' = block + 1
    /\ event' = NoEvent(event.call)
    /\ UNCHANGED <<motions, grant, credit>>

Next ==
    \/ \E c \in Calls :
        \/ \E b \in Bodies : MotionApprove(b, c) \/ MotionRevoke(b, c)
        \/ MotionCloseApproved(c)
        \/ MotionCloseExpired(c)
    \/ NextBlock

Spec == Init /\ [][Next]_vars

-----------------------------------------------------------------------------
(* Types of the storage items and of the history variables. *)
TypeOK ==
    /\ block \in Nat
    /\ motions \in [Calls -> MotionInfo \union {None}]
    /\ event \in [type : EventTypes, call : Calls]
    /\ grant \in [Calls -> [Bodies -> Nat \union {None}]]
    /\ credit \in [Calls -> [Bodies -> Int]]

(* A stored motion always has a standing approval: motion_revoke removes the
   motion with its last approval, so no motion lingers that nobody backs. *)
StoredMotionIsBacked ==
    \A c \in Calls : motions[c] # None => motions[c].approvals # {}

(* A motion is dispatched as Root only when every body has given it an
   approval that it did not revoke, and all these approvals were given within
   MotionDuration blocks of each other, however late motion_close is called
   and however often the motion was revoked, removed and created again. *)
DispatchIsUnanimousInWindow ==
    event.type = "MotionDispatched" =>
        \A b1, b2 \in Bodies :
            /\ grant[event.call][b1] # None
            /\ grant[event.call][b2] # None
            /\ grant[event.call][b1] - grant[event.call][b2] < MotionDuration

(* Every dispatch of a call uses up one unrevoked approval of every body: the
   same approval never lets motion_close dispatch a call twice. *)
NoReplay ==
    \A c \in Calls, b \in Bodies : credit[c][b] >= 0

(* A motion that has ended is closed to votes: its approvals only change by
   motion_close removing it. *)
EndedMotionIsFrozen ==
    [][\A c \in Calls :
         (/\ motions[c] # None
          /\ block >= motions[c].ends_block
          /\ motions'[c] # motions[c])
            => /\ motions'[c] = None
               /\ event'.type \in {"MotionDispatched", "MotionExpired"}]_vars

(* Why the two properties above hold: every approval a stored motion counts was
   given inside the motion's window, which has begun, and is still unspent. *)
ApprovalsStandInWindow ==
    \A c \in Calls : motions[c] # None =>
        /\ motions[c].ends_block - MotionDuration <= block
        /\ \A b \in motions[c].approvals :
            /\ grant[c][b] # None
            /\ motions[c].ends_block - MotionDuration <= grant[c][b]
            /\ grant[c][b] < motions[c].ends_block
            /\ credit[c][b] >= 1

(* The inductive invariant of the pallet. *)
IInv ==
    /\ TypeOK
    /\ StoredMotionIsBacked
    /\ ApprovalsStandInWindow
    /\ DispatchIsUnanimousInWindow
    /\ NoReplay
=============================================================================
