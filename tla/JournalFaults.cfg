SPECIFICATION Spec
CONSTANTS
    e1 = e1
    e2 = e2
    e3 = e3
    e4 = e4
    NoExt = none
    Extents = {e1, e2, e3, e4}
    MaxId = 3
    CheckpointLen = 2
    MaxKill = 1
    MaxPower = 2
    MaxRot = 1
    MaxFail = 1
    MaxPins = 0
    TornAppend = TRUE
INVARIANTS
    IInv
    NoLostAck
    NoForeignStages
PROPERTY ImplementsDurable
SYMMETRY Interchange
CHECK_DEADLOCK FALSE
