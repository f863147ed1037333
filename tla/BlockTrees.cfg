SPECIFICATION Spec
CONSTANTS
    Blocks <- Letters
    Keys <- SomeKeys
    Forbids <- SomeForbids
    EntityDepth <- Depths
    Partition <- Places
    Hash <- Hashes
    Depth = 2
    Values <- Sizes
    Weight <- Weights
    LeafMax = 3
    RunsMax = 2
    MaxSeq = 4
INVARIANTS BlockTypeOK Canonical
PROPERTY ImplementsRows
CHECK_DEADLOCK FALSE
