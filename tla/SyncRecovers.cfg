SPECIFICATION FairSpec
CONSTANTS
    Blocks <- TwoBlocks
    Touch <- TouchTwo
    RetryMax = 2
    MaxOffer = 9
    RequestId = 19
    Budget <- RecoverFaults
PROPERTY Recovers
CHECK_DEADLOCK FALSE
