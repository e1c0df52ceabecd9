--------------------- MODULE FederatedAuthority_proofs ----------------------
(***************************************************************************)
(* Proofs about FederatedAuthority, for any number of bodies, calls and    *)
(* blocks.  IInv is inductive; the safety properties follow from it.       *)
(***************************************************************************)
EXTENDS FederatedAuthority, FiniteSetTheorems, TLAPS

(* With the unanimous proportion of this runtime, is_motion_approved on the
   size of a set of bodies means that the set holds every body. *)
LEMMA ApprovedMeansAll ==
    ASSUME NEW S \in SUBSET Bodies,
           is_motion_approved(Cardinality(S))
    PROVE  S = Bodies
<1>1. /\ IsFiniteSet(Bodies)
      /\ IsFiniteSet(S)
      /\ Cardinality(S) \in Nat
      /\ Cardinality(Bodies) \in Nat
      /\ Cardinality(S) <= Cardinality(Bodies)
      /\ Cardinality(S) = Cardinality(Bodies) => S = Bodies
  BY FS_Subset, FS_CardinalityType, ConfigAssumption
<1>2. Cardinality(S) * ProportionN >= ProportionN * Cardinality(Bodies)
  BY ConfigAssumption DEF is_motion_approved, reached_proportion
<1>3. Cardinality(S) >= Cardinality(Bodies)
  BY <1>1, <1>2, ConfigAssumption
<1> QED BY <1>1, <1>3

LEMMA InitIInv == Init => IInv
  BY ConfigAssumption, NoneAssumption
  DEF Init, IInv, TypeOK, NoEvent, EventTypes, StoredMotionIsBacked,
      ApprovalsStandInWindow, DispatchIsUnanimousInWindow, NoReplay

(* Every operation of the pallet, and the passing of a block, preserves IInv. *)
LEMMA StepIInv == IInv /\ [Next]_vars => IInv'
<1> SUFFICES ASSUME IInv, [Next]_vars PROVE IInv'
  OBVIOUS
<1> USE ConfigAssumption, NoneAssumption DEF IInv
<1>1. ASSUME NEW c \in Calls, NEW b \in Bodies, MotionApprove(b, c)
      PROVE  IInv'
  <2>0. PICK S \in SUBSET Bodies, e \in Nat :
          /\ motions' = [motions EXCEPT ![c] = [approvals |-> S \union {b}, ends_block |-> e]]
          /\ \/ motions[c] # None /\ S = motions[c].approvals /\ e = motions[c].ends_block
                /\ block < e
             \/ motions[c] = None /\ S = {} /\ e = block + MotionDuration
    <3>1. CASE motions[c] # None
      <4>1. motions[c] \in MotionInfo
        BY <3>1 DEF TypeOK
      <4>2. /\ block < motions[c].ends_block
            /\ motions' = [motions EXCEPT ![c] =
                             [approvals  |-> motions[c].approvals \union {b},
                              ends_block |-> motions[c].ends_block]]
        BY <1>1, <3>1, <4>1 DEF MotionApprove, has_ended, TypeOK, MotionInfo
      <4> QED BY <3>1, <4>1, <4>2 DEF MotionInfo
    <3>2. CASE motions[c] = None
      <4>1. motions' = [motions EXCEPT ![c] =
                          [approvals |-> {b}, ends_block |-> block + MotionDuration]]
        BY <1>1, <3>2 DEF MotionApprove, NewEndsBlock
      <4>2. {b} = {} \union {b} /\ block + MotionDuration \in Nat
        BY DEF TypeOK
      <4> QED BY <3>2, <4>1, <4>2
    <3> QED BY <3>1, <3>2
  <2>a. /\ block' = block
        /\ event' = [type |-> "MotionApproved", call |-> c]
        /\ grant' = [grant EXCEPT ![c][b] = block]
        /\ credit' = [credit EXCEPT ![c][b] = credit[c][b] + 1]
    BY <1>1 DEF MotionApprove, Deposit
  <2>1. TypeOK'
    <3>1. motions' \in [Calls -> MotionInfo \union {None}]
      BY <2>0 DEF TypeOK, MotionInfo
    <3>2. /\ block' \in Nat
          /\ event' \in [type : EventTypes, call : Calls]
          /\ grant' \in [Calls -> [Bodies -> Nat \union {None}]]
          /\ credit' \in [Calls -> [Bodies -> Int]]
      BY <2>a DEF TypeOK, EventTypes
    <3> QED BY <3>1, <3>2 DEF TypeOK
  <2>2. StoredMotionIsBacked'
    BY <2>0 DEF TypeOK, StoredMotionIsBacked
  <2>3. ApprovalsStandInWindow'
    <3> SUFFICES ASSUME NEW d \in Calls, motions'[d] # None
                 PROVE  /\ motions'[d].ends_block - MotionDuration <= block
                        /\ \A a \in motions'[d].approvals :
                              /\ grant'[d][a] # None
                              /\ motions'[d].ends_block - MotionDuration <= grant'[d][a]
                              /\ grant'[d][a] < motions'[d].ends_block
                              /\ credit'[d][a] >= 1
      BY <2>a DEF ApprovalsStandInWindow
    <3>1. CASE d # c
      BY <3>1, <2>0, <2>a DEF TypeOK, ApprovalsStandInWindow
    <3>2. CASE d = c
      <4>1. motions'[c].approvals = S \union {b} /\ motions'[c].ends_block = e
        BY <2>0 DEF TypeOK
      <4>2. e - MotionDuration <= block /\ block < e
        BY <2>0 DEF TypeOK, ApprovalsStandInWindow
      <4>3. grant'[c][b] = block /\ credit'[c][b] >= 1 /\ block # None
        BY <2>a DEF TypeOK, NoReplay
      <4>4. ASSUME NEW a \in S, a # b
            PROVE  /\ grant'[c][a] = grant[c][a] /\ credit'[c][a] = credit[c][a]
                   /\ grant[c][a] # None /\ credit[c][a] >= 1
                   /\ e - MotionDuration <= grant[c][a] /\ grant[c][a] < e
        BY <4>4, <2>0, <2>a DEF TypeOK, ApprovalsStandInWindow
      <4> QED BY <3>2, <4>1, <4>2, <4>3, <4>4
    <3> QED BY <3>1, <3>2
  <2>4. NoReplay'
    BY <2>a DEF TypeOK, NoReplay
  <2>5. DispatchIsUnanimousInWindow'
    BY <2>a DEF DispatchIsUnanimousInWindow
  <2> QED BY <2>1, <2>2, <2>3, <2>4, <2>5
<1>2. ASSUME NEW c \in Calls, NEW b \in Bodies, MotionRevoke(b, c)
      PROVE  IInv'
  <2> USE <1>2 DEF MotionRevoke, Deposit, AfterRevoke, StoreApprovals, motion_remove
  <2>1. TypeOK'
    BY DEF TypeOK, MotionInfo, EventTypes
  <2>2. StoredMotionIsBacked'
    BY DEF TypeOK, MotionInfo, StoredMotionIsBacked
  <2>3. ApprovalsStandInWindow'
    BY DEF TypeOK, MotionInfo, ApprovalsStandInWindow
  <2>4. NoReplay'
    BY DEF TypeOK, MotionInfo, NoReplay, ApprovalsStandInWindow
  <2>5. DispatchIsUnanimousInWindow'
    BY DEF DispatchIsUnanimousInWindow
  <2> QED BY <2>1, <2>2, <2>3, <2>4, <2>5
<1>3. ASSUME NEW c \in Calls, MotionCloseApproved(c)
      PROVE  IInv'
  <2> USE <1>3 DEF MotionCloseApproved, Deposit, motion_remove
  <2>1. motions[c].approvals = Bodies
    BY ApprovedMeansAll DEF TypeOK, MotionInfo
  <2>2. TypeOK'
    BY DEF TypeOK, EventTypes
  <2>3. StoredMotionIsBacked'
    BY DEF TypeOK, StoredMotionIsBacked
  <2>4. ApprovalsStandInWindow'
    BY DEF TypeOK, ApprovalsStandInWindow
  <2>5. NoReplay'
    BY <2>1 DEF TypeOK, MotionInfo, NoReplay, ApprovalsStandInWindow
  <2>6. DispatchIsUnanimousInWindow'
    BY <2>1 DEF TypeOK, MotionInfo, ApprovalsStandInWindow, DispatchIsUnanimousInWindow
  <2> QED BY <2>2, <2>3, <2>4, <2>5, <2>6
<1>4. ASSUME NEW c \in Calls, MotionCloseExpired(c)
      PROVE  IInv'
  BY <1>4
  DEF MotionCloseExpired, Deposit, motion_remove, TypeOK, EventTypes, NoReplay,
      StoredMotionIsBacked, ApprovalsStandInWindow, DispatchIsUnanimousInWindow
<1>5. ASSUME NextBlock
      PROVE  IInv'
  <2> USE <1>5 DEF NextBlock, NoEvent
  <2>1. TypeOK'
    BY DEF TypeOK, EventTypes
  <2>2. StoredMotionIsBacked' /\ NoReplay' /\ DispatchIsUnanimousInWindow'
    BY DEF StoredMotionIsBacked, NoReplay, DispatchIsUnanimousInWindow
  <2>3. ApprovalsStandInWindow'
    BY DEF TypeOK, MotionInfo, ApprovalsStandInWindow
  <2> QED BY <2>1, <2>2, <2>3
<1>6. ASSUME UNCHANGED vars
      PROVE  IInv'
  BY <1>6
  DEF vars, TypeOK, NoReplay, StoredMotionIsBacked, ApprovalsStandInWindow,
      DispatchIsUnanimousInWindow
<1> QED BY <1>1, <1>2, <1>3, <1>4, <1>5, <1>6 DEF Next

(* IInv holds in every state of every run of the pallet. *)
THEOREM Invariance == Spec => []IInv
  BY InitIInv, StepIInv, PTL DEF Spec

(* The storage items keep their types in every run of the pallet. *)
THEOREM TypeCorrect == Spec => []TypeOK
<1>1. IInv => TypeOK BY DEF IInv
<1> QED BY <1>1, Invariance, PTL

(* motion_close dispatches a call as Root only on unrevoked approvals of all
   bodies, given within MotionDuration blocks of each other. *)
THEOREM UnanimousDispatch == Spec => []DispatchIsUnanimousInWindow
<1>1. IInv => DispatchIsUnanimousInWindow BY DEF IInv
<1> QED BY <1>1, Invariance, PTL

(* No approval is ever used for two dispatches of the same call. *)
THEOREM ApprovalsAreSpentOnce == Spec => []NoReplay
<1>1. IInv => NoReplay BY DEF IInv
<1> QED BY <1>1, Invariance, PTL

(* A motion whose window is over is closed to votes: motion_approve and
   motion_revoke refuse it, and only motion_close takes it out of storage. *)
THEOREM EndedMotionsAreFrozen == Spec => EndedMotionIsFrozen
<1> DEFINE A == \A c \in Calls :
                  (/\ motions[c] # None
                   /\ block >= motions[c].ends_block
                   /\ motions'[c] # motions[c])
                     => /\ motions'[c] = None
                        /\ event'.type \in {"MotionDispatched", "MotionExpired"}
<1>1. IInv /\ [Next]_vars => [A]_vars
  <2> SUFFICES ASSUME IInv, Next PROVE A
    OBVIOUS
  <2> USE DEF IInv, TypeOK
  <2>1. ASSUME NEW c \in Calls, NEW b \in Bodies, MotionApprove(b, c) PROVE A
    BY <2>1 DEF MotionApprove, has_ended
  <2>2. ASSUME NEW c \in Calls, NEW b \in Bodies, MotionRevoke(b, c) PROVE A
    BY <2>2 DEF MotionRevoke, AfterRevoke, StoreApprovals, motion_remove, has_ended
  <2>3. ASSUME NEW c \in Calls, MotionCloseApproved(c) \/ MotionCloseExpired(c) PROVE A
    BY <2>3 DEF MotionCloseApproved, MotionCloseExpired, Deposit, motion_remove
  <2>4. ASSUME NextBlock PROVE A
    BY <2>4 DEF NextBlock
  <2> QED BY <2>1, <2>2, <2>3, <2>4 DEF Next
<1> QED BY <1>1, Invariance, PTL DEF Spec, EndedMotionIsFrozen

(* motion_revoke leaves no motion in storage without an approval. *)
THEOREM MotionsAreBacked == Spec => []StoredMotionIsBacked
<1>1. IInv => StoredMotionIsBacked BY DEF IInv
<1> QED BY <1>1, Invariance, PTL
=============================================================================
