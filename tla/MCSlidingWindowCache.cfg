CONSTANTS
    Readers = {r1, r2}
    Configs = {c1}
    CacheConfig = c1
    DbRows <- MCDbRows
    TxCounts <- MCTxCounts
    Genesis = 2
    WindowSize = 0
    RefreshThreshold = 0
    StabilityMargin = 3
    LargeLimit = 5
    Capacity = 3
    RowLimit = 5
    None = None
SPECIFICATION Spec
SYMMETRY Symmetry
INVARIANTS
    TypeOK
    WindowIsComplete
    UnracedAnswersAreLive
PROPERTIES
    WindowMovesForward
