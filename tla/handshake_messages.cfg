SPECIFICATION Spec
CONSTANTS
    User = {"ann", "bob"}
    Client = {"a1", "b1"}
    UserOf <- MCUserOf
    Nobody = "nobody"
    Openers = {"a1", "b1"}
    Typists = {"a1", "b1"}
    Present = {"a1", "b1"}
    KEY_ROTATION_THRESHOLD = 1
    FaultKinds = {"refuse"}
    MaxSessions = 2
    MaxMessages = 1
    MaxKeys = 2
    MaxFaults = 1
INVARIANTS
    SameKeysAfterOneAnswer

    
CHECK_DEADLOCK FALSE
