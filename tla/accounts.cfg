SPECIFICATION Spec
CONSTANTS
    Username = {ann, bob}
    Password = {p, q}
    Absent = Absent
    FaultKinds = {"close", "lose", "revoke", "expire"}
    MaxKeys = 4
    MaxIds = 3
    MaxFaults = 3
INVARIANTS
    TypeOK
    
PROPERTIES
    LoginEndsInAgreement
CHECK_DEADLOCK FALSE
