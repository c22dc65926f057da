SPECIFICATION SafeSpec
CONSTANTS
    s12 = s12
    s25 = s25
    Variants <- BothSizes
    MaxAttempts = 2
    MaxPuts = 1
    Lagging <- Reliable
INVARIANT FailedValidateIsRejected
CHECK_DEADLOCK FALSE
