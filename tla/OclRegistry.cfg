SPECIFICATION Spec
CONSTANTS
    A = A
    B = B
    C = C
    netadmin = netadmin
    helpop = helpop
    Servers = {A, B, C}
    Links <- Row
    Route <- Along
    Contents <- OneOrBoth
    First <- Both
    RetiredMax = 2
    Budget <- Events
    MaxEvents = 3
INVARIANTS
    OclTypeOK
    ViewExact
    FailClosed
    NoDeadInstance
    RestAgrees
CHECK_DEADLOCK FALSE
