\* A query may reach its row limit.
CONSTANTS
    Addrs = {a1}
    Keys = {k1}
    ValidKeys = {k1}
    Utxos = {1, 2, 3}
    MaxUtxos = 8
    None = None
    Capacity = 3
    RowLimit = 1
    MaxRows = 3
    MaxBlocks = 3
    MaxTxs = 2
    MaxInitial = 1
SPECIFICATION Spec
INVARIANTS
    NoRowBelowEndIsMissing
