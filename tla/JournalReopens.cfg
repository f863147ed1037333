SPECIFICATION UnmixedFairSpec
CONSTANTS
    e1 = e1
    e2 = e2
    e3 = e3
    e4 = e4
    NoExt = none
    Extents = {e1, e2, e3}
    MaxId = 4
    CheckpointLen = 2
    MaxKill = 2
    MaxPower = 1
    MaxRot = 0
    MaxFail = 1
    MaxPins = 2
    TornAppend = TRUE
INVARIANTS
    Recoverable
    PinnedIntact
PROPERTY Reopens
CHECK_DEADLOCK FALSE
