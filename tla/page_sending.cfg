SPECIFICATION FairSpec
CONSTANTS
    Conv = {bob, carol}
    Nobody = nobody
    Slot = {1, 2}
    Room = 9
    HISTORY_LIMIT = 2
    Id <- OneTyped
    Msg <- TwoMessages
    Typist = TRUE
    Elsewhere = {"mine"}
    Timed = {}
    Clicks = {"everyone", "reload"}
    MaxOpens = 2
INVARIANTS
    SendingBubbleIsQueued
    EchoStaysInConversation

    
CHECK_DEADLOCK FALSE
