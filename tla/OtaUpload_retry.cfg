SPECIFICATION Spec
CONSTANTS
    Buffers = {b1, b2, b3}
    OTA_QUEUE_LENGTH = 3
    EVENT_QUEUE_LENGTH = 2
    Chunks = 1
    Versions = {3}
    RunningVersion = 2
    LastInvalid = 4
    DescriptionReadable = TRUE
    MaxUploads = 2
    MaxFaults = 1
PROPERTIES
    FailedUpdateCanBeRepeated
CHECK_DEADLOCK FALSE
