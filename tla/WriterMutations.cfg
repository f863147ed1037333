SPECIFICATION FairSpec
CONSTANTS
    b1 = b1
    A = A
    r1 = r1
    Blocks = {b1}
    Owners = {1}
    Sources = {A}
    NoSource = nosource
    NoStage = nostage
    Requests <- MutationRequests
    GroupMax = 2
    QueueLimit = 5
    Readers = {r1}
    MaxJobs = 2
    MaxAuthority = 1
    MaxContinue = 1
    MaxFail = 1
INVARIANTS
    TypeOK
    Accounts
    NeverAborts
    ReceiptsTile
PROPERTIES
    ImplementsLedger
    Answered
    Joins
CHECK_DEADLOCK FALSE
