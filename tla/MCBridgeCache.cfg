SPECIFICATION Spec
CONSTANTS
    Readers = {r1, r2}
    s1 = s1
    s2 = s2
    Scripts = {s1, s2}
    Txs <- MCTxs
    Times <- MCTimes
    SecurityParameter = 1
    StabilityMargin = 1
    MinBoundary = 1
    Lookahead = 1
    MaxTransfers = 2
    None = None
SYMMETRY Symmetry
INVARIANTS
    AnswersAreOfOneFill
    ErrorsAreExplained
