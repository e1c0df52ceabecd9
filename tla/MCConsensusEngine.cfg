SPECIFICATION LiveSpec
CONSTANTS
    EpochDuration = 3
    Cycle = 6
    Sizes <- MCSizes
    MaxLogs = 3
INVARIANTS
    TypeOK
    HonestBlocksPassTheGuard
    NoPrematureBabeGenesis
PROPERTY ChainKeepsGrowing
