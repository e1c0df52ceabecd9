SPECIFICATION ScheduledSpec
CONSTANTS
  Members <- MCMembers
  Committees <- MCCommittees
  GenesisCommittee <- MCGenesis
  DParameters = {d1, d2}
  SlotsPerEpoch = 2
  McSlotsPerEpoch = 6
  Boundary = 1
  GenesisSlot = 13
  MaxGap = 5
  MaxSlot = 21
  None = None
INVARIANT HonestBlocksPass
CHECK_DEADLOCK FALSE
