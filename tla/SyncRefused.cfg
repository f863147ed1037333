SPECIFICATION Spec
CONSTANTS
    Blocks <- TwoBlocks
    Touch <- TouchTwo
    RetryMax = 2
    MaxOffer = 2
    RequestId = 9
    Budget <- OneFailure
INVARIANT NoSilentDivergence
CHECK_DEADLOCK FALSE
