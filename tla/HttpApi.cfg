SPECIFICATION Spec
CONSTANTS
    c1 = c1
    c2 = c2
    v1 = v1
    v2 = v2
    Calls <- TwoCalls
    Clients <- ThreeClients
    Allowed <- OneOrigin
    Variants <- TwoVariants
SYMMETRY Symmetry
INVARIANTS
    TypeOK
    CreatedIsVisible
    CompleteIsServed
    OnlyToMaker
    VerdictIsAskedFor
    OriginsServed
    CreatedIsReaped
PROPERTY
    KeepsLifecycle
CHECK_DEADLOCK FALSE
