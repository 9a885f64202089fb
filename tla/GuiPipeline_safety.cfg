SPECIFICATION FairSpec
CONSTANTS
    GUI_OP_QUEUE_LENGTH = 2
    NOTIFY_QUEUE_LENGTH = 3
    Channels = {"1"}
    MaxSearches = 1
INVARIANTS
    TypeOK
    ScreenCatchesUp
PROPERTIES
    EndsOnHomeScreen
CHECK_DEADLOCK FALSE
