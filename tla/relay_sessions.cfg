SPECIFICATION Spec
CONSTANTS
    User = {"ann", "bob"}
    Device = {"a1", "b1"}
    Sid = {"sa1", "sb1"}
    Owner <- MCOwner
    DeviceOf <- MCDeviceOf
    Nobody = "nobody"
    Payloads <- AllCopies
    Timers = {"off"}
    Senders = {"ann"}
    Deleters = {}
    Readers = {}
    Callers = {"ann", "bob"}
    REPLAY_LIMIT = 2
    KEY_ROTATION_THRESHOLD = 1
    RegistryShared = TRUE
    MaxMessages = 1
    MaxSessions = 2
    MaxInFlight = 2
    MaxFaults = 0
INVARIANTS
    OneActiveSession
    PendingRequestReachesCallee
CHECK_DEADLOCK FALSE
