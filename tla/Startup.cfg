SPECIFICATION LiveSpec
CONSTANTS
    Workers <- TwoWorkers
    MaxCrashes = 1
INVARIANTS
    TypeOK
    BucketBeforeWork
    RaceLostOnce
    Reachable
PROPERTIES
    OnlyOutagesKill
    EveryoneServes
CHECK_DEADLOCK FALSE
