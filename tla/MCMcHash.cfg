SPECIFICATION Spec
CONSTANTS
    a = a
    b = b
    Nodes <- MCNodes
    SecurityParameter = 1
    StabilityMargin = 1
    MinBoundary = 2
    CacheSize = 1
    MaxRetries = 1
    MaxTime = 6
    None = None
SYMMETRY Symmetry
INVARIANTS
    TypeOK
    AcceptedReferencesArePermanent
    InSyncVerifierAccepts
    ParentReferenceIsFound
