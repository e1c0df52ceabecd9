\* No query reaches its row limit.
CONSTANTS
    Addrs = {a1}
    Keys = {k1, k2, bad}
    ValidKeys = {k1, k2}
    Utxos = {1, 2, 3, 4}
    MaxUtxos = 8
    None = None
    Capacity = 2
    RowLimit = 4
    MaxRows = 4
    MaxBlocks = 3
    MaxTxs = 3
    MaxInitial = 1
SPECIFICATION Spec
SYMMETRY Symmetry
INVARIANTS
    TypeOK
    IndexerSeesRegistrations
    LedgerFollowsOwners
    RegistrationsMatchCardano
    OwnersMatchCardano
    InherentIsAccepted
PROPERTIES
    PositionNeverRegresses
