SPECIFICATION Spec
CONSTANTS
    User = {"ann", "bob", "carol"}
    Client = {"a1"}
    UserOf <- MCUserOf
    Nobody = "nobody"
    Openers = {"a1"}
    Typists = {"a1"}
    Present = {}
    KEY_ROTATION_THRESHOLD = 2
    FaultKinds = {}
    MaxSessions = 2
    MaxMessages = 1
    MaxKeys = 4
    MaxFaults = 0
INVARIANTS
    RelayedAsTyped
CHECK_DEADLOCK FALSE
