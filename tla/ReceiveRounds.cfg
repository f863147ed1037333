SPECIFICATION ExchangeSpec
CONSTANTS
    b1 = b1
    b2 = b2
    B = B
    Blocks = {b1, b2}
    Owners <- TwoOwners
    Sources = {B}
    NoSource = nosource
    NoStage = nostage
    Requests = {}
    Announced <- Exchanged
    OwnerLimit = 2
    MaxWithdraw = 1
    GroupMax = 2
    QueueLimit = 2
    Readers = {}
    MaxJobs = 0
    MaxAuthority = 0
    MaxContinue = 0
    MaxFail = 0
INVARIANTS
    ReceiveTypeOK
    PromotionExact
    AckedDurable
    ReadyExact
CHECK_DEADLOCK FALSE
