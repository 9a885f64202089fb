SPECIFICATION Spec
CONSTANTS
    MAX_USERS = 1
    TIMEOUT = 2
    Word = 8
    MaxTime = 6
    MaxLogins = 2
PROPERTIES
    LoginOpensSession
CHECK_DEADLOCK FALSE
