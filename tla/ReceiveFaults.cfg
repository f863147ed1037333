SPECIFICATION ReceiveFairSpec
CONSTANTS
    b1 = b1
    b2 = b2
    B = B
    Blocks = {b1, b2}
    Owners <- OneOwner
    Sources = {B}
    NoSource = nosource
    NoStage = nostage
    Requests = {}
    Announced <- SameTwice
    OwnerLimit = 1
    MaxWithdraw = 1
    GroupMax = 2
    QueueLimit = 3
    Readers = {}
    MaxJobs = 0
    MaxAuthority = 0
    MaxContinue = 0
    MaxFail = 1
INVARIANTS
    StagesAgree
    NoOrphanRoots
PROPERTY RoundsEnd
CHECK_DEADLOCK FALSE
