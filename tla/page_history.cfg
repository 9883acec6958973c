SPECIFICATION Spec
CONSTANTS
    Conv = {bob, carol}
    Nobody = nobody
    Slot = {1, 2}
    Room = 1
    HISTORY_LIMIT = 2
    Id <- NoneTyped
    Msg <- TwoMessages
    Typist = FALSE
    Elsewhere = {"theirs"}
    Timed = {"theirs"}
    Clicks = {"me", "logout"}
    MaxOpens = 1
INVARIANTS
    TypeOK
    
PROPERTIES
    ImplementsAtomicStore
SYMMETRY PeersAlike
CHECK_DEADLOCK FALSE
