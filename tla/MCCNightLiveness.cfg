\* Rows of two Cardano blocks are processed, one transaction at a time.
CONSTANTS
    Addrs = {a1}
    Keys = {k1}
    ValidKeys = {k1}
    Utxos = {1, 2}
    MaxUtxos = 8
    None = None
    Capacity = 2
    RowLimit = 3
    MaxRows = 2
    MaxBlocks = 4
    MaxTxs = 2
    MaxInitial = 1
SPECIFICATION FairSpec
PROPERTIES
    EveryRowIsObserved
