SPECIFICATION FairSpec
CONSTANTS
    User = {"ann", "bob"}
    Device = {"a1", "b1"}
    Sid = {"sa1", "sb1"}
    Owner <- MCOwner
    DeviceOf <- MCDeviceOf
    Nobody = "nobody"
    Payloads <- AllCopies
    Timers = {"off", "running"}
    Senders = {"ann"}
    Deleters = {"bob"}
    Readers = {"bob"}
    Callers = {}
    REPLAY_LIMIT = 2
    KEY_ROTATION_THRESHOLD = 2
    RegistryShared = TRUE
    MaxMessages = 1
    MaxSessions = 0
    MaxInFlight = 2
    MaxFaults = 1

    
PROPERTIES
    ExpiredIsWiped
    
CHECK_DEADLOCK FALSE
