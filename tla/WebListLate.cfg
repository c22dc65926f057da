SPECIFICATION SafeSpec
CONSTANTS
    alice = alice
    bob = bob
    c1 = c1
    c2 = c2
    k1 = k1
    Users <- TwoUsers
    Calls <- TwoCalls
    Clicks <- OneClick
    MaxSessions = 2
    MaxUploads = 1
    MaxPolls <- JustOne
    Sizes = 1
INVARIANT ListIsOwn
CHECK_DEADLOCK FALSE
