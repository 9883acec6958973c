SPECIFICATION Spec
CONSTANTS
    User = {"ann", "bob"}
    Device = {"a1", "b1", "b2"}
    Sid = {"sa1", "sb1", "sb2"}
    Owner <- MCOwner
    DeviceOf <- MCDeviceOf
    Nobody = "nobody"
    Payloads <- AllCopies
    Timers = {"off"}
    Senders = {"ann"}
    Deleters = {"ann"}
    Readers = {}
    Callers = {}
    REPLAY_LIMIT = 2
    KEY_ROTATION_THRESHOLD = 2
    RegistryShared = TRUE
    MaxMessages = 1
    MaxSessions = 0
    MaxInFlight = 2
    MaxFaults = 0
INVARIANTS
    
    NoPushLost
PROPERTIES
    WipedStaysWiped
CHECK_DEADLOCK FALSE
