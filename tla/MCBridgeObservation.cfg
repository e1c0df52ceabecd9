SPECIFICATION LiveSpec
CONSTANTS
    Scripts = {s1, s2}
    GenesisScripts = s1
    Hashes <- MCHashes
    Recipients <- MCRecipients
    Checkpoints <- MCCheckpoints
    Shapes <- MCShapes
    Backlogs <- MCBacklogs
    MinAmounts = {0, 2}
    Thresholds = {1, 3}
    MaxTransfers = 2
    MaxTxs = 3
    MaxBlocks = 3
    MaxChanges = 1
    MaxGrants = 1
    None = None
INVARIANTS
    TypeOK
    FundsAreAccountedFor
    ApprovalsPayOnce
    NoncesAreUnique
    TransfersAreHandledOnce
    InherentFits
PROPERTY EveryTransferIsHandled
