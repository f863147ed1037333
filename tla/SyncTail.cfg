SPECIFICATION Spec
CONSTANTS
    Blocks <- TwoBlocks
    Touch <- TouchThree
    RetryMax = 2
    MaxOffer = 3
    RequestId = 9
    Budget <- TailFaults
INVARIANTS
    SyncTypeOK
    RootIsPrefix
    ReadyHoldsAll
    RestIsCaughtUp
    OneBlockInFlight
CHECK_DEADLOCK FALSE
