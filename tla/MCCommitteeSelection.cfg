SPECIFICATION Spec
CONSTANTS
  Members <- MCMembers
  Committees <- MCCommittees
  GenesisCommittee <- MCGenesis
  DParameters = {d1, d2}
  SlotsPerEpoch = 2
  McSlotsPerEpoch = 6
  Boundary = 1
  GenesisSlot = 13
  MaxGap = 5
  MaxSlot = 21
  None = None
INVARIANTS TypeOK HonestBlocksPass CommitteesAreTheSessions LabelsFollowTheEpochs
PROPERTIES LabelsAreConsecutive NextCommitteeIsSetAgain
CHECK_DEADLOCK FALSE
