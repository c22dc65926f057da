SPECIFICATION SafeSpec
CONSTANTS
    s12 = s12
    s25 = s25
    Variants <- BothSizes
    MaxAttempts = 2
    MaxPuts = 2
    Lagging <- LaggingStores
SYMMETRY SizeSymmetry
INVARIANTS
    TypeOK
    OneVerdict
    CompleteMeansServed
    DeadUploadHasNoVariants
    FailedMeansExhausted
    SinglePutServed
    WaitsForAll
PROPERTY
    ImplementsLifecycle
CHECK_DEADLOCK FALSE
