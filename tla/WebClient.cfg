SPECIFICATION Spec
CONSTANTS
    alice = alice
    bob = bob
    c1 = c1
    c2 = c2
    k1 = k1
    Users <- TwoUsers
    Calls <- OneCall
    Clicks <- OneClick
    MaxSessions = 2
    MaxUploads = 2
    MaxPolls <- TwoThenOne
    Sizes = 1
INVARIANTS
    TypeOK
    OneIdentity
    OneUpload
    PreviewsLive
PROPERTY UploadReturns
CHECK_DEADLOCK FALSE
