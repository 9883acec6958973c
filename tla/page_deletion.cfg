SPECIFICATION Spec
CONSTANTS
    Conv = {bob, carol}
    Nobody = nobody
    Slot = {1, 2}
    Room = 9
    HISTORY_LIMIT = 2
    Id <- NoneTyped
    Msg <- TwoMessages
    Typist = FALSE
    Elsewhere = {"theirs"}
    Timed = {}
    Clicks = {"peer"}
    MaxOpens = 2
PROPERTIES
    DeletionIsStored
SYMMETRY PeersAlike
CHECK_DEADLOCK FALSE
