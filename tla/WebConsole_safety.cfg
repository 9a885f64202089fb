SPECIFICATION FairSpec
CONSTANTS
    Browsers = {b1, b2}
    MAX_USERS = 1
    MaxLogins = 2
    TOTAL_CHUNK_BUFFERS = 1
    Connections = 2
    MaxClicks = 2
    MaxUploads = 2
    MaxFailures = 1
INVARIANTS
    TypeOK
    OpenPageIsAuthorised
    AnsweredLogoutEndsSession
PROPERTIES
    PagesComeToRest
CHECK_DEADLOCK FALSE
