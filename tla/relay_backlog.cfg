SPECIFICATION Spec
CONSTANTS
    User = {"ann", "bob"}
    Device = {"a1", "b1", "b2"}
    Sid = {"sa1", "sb1", "sb2"}
    Owner <- MCOwner
    DeviceOf <- MCDeviceOf
    Nobody = "nobody"
    Payloads <- SomeCopies
    Timers = {"off"}
    Senders = {"ann"}
    Deleters = {}
    Readers = {}
    Callers = {}
    REPLAY_LIMIT = 1
    KEY_ROTATION_THRESHOLD = 2
    RegistryShared = TRUE
    MaxMessages = 2
    MaxSessions = 0
    MaxInFlight = 2
    MaxFaults = 0
INVARIANTS
    TypeOK
    PresenceAccurate
    NothingLeftBehind
    OnlineNeverReplayed
CHECK_DEADLOCK FALSE
