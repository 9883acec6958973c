SPECIFICATION FairSpec
CONSTANTS
    User = {"ann", "bob"}
    Client = {"a1", "b1"}
    UserOf <- MCUserOf
    Nobody = "nobody"
    Openers = {"a1"}
    Typists = {}
    Present = {}
    KEY_ROTATION_THRESHOLD = 2
    FaultKinds = {"drop", "reload"}
    MaxSessions = 1
    MaxMessages = 0
    MaxKeys = 3
    MaxFaults = 1
INVARIANTS
    TypeOK
    PublishedHalfIsHeld
PROPERTIES
    RequestIsAnswered
CHECK_DEADLOCK FALSE
