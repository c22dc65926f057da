SPECIFICATION Spec
CONSTANTS
    r1 = r1
    r2 = r2
    r3 = r3
    r4 = r4
    r5 = r5
    Requests <- FiveRequests
    MaxConcurrent = 2
INVARIANTS
    TypeOK
    DecodesBounded
    NoIdleSlot
PROPERTY
    WaitersLeave
CHECK_DEADLOCK FALSE
