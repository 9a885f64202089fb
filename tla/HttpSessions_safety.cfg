SPECIFICATION Spec
CONSTANTS
    MAX_USERS = 2
    TIMEOUT = 2
    Word = 5
    MaxTime = 11
    MaxLogins = 3
INVARIANTS
    TypeOK
    OneSlotPerToken
    ActivityIsRecorded
    ExpiryIsExact
    EndedStaysEnded
PROPERTIES
    ImplementsSessionService
CHECK_DEADLOCK FALSE
