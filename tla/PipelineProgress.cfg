SPECIFICATION Spec
CONSTANTS
    s12 = s12
    s25 = s25
    Variants <- BothSizes
    MaxAttempts = 3
    MaxPuts = 1
    Lagging <- Reliable
INVARIANT
    ReportMeansStatus
PROPERTIES
    StatusDiagram
    WorkflowCloses
    HeardSignalIsValidated
CHECK_DEADLOCK FALSE
