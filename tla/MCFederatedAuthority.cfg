SPECIFICATION Spec
CONSTANTS
    Bodies = {council, technical}
    Calls = {c1, c2}
    MaxAuthorityBodies = 2
    MotionDuration = 2
    ProportionN = 1
    ProportionD = 1
    None = None
    MaxBlock = 6
SYMMETRY Symmetry
INVARIANTS
    TypeOK
    StoredMotionIsBacked
    DispatchIsUnanimousInWindow
    NoReplay
PROPERTIES
    EndedMotionIsFrozen
