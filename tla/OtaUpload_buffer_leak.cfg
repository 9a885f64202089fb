SPECIFICATION FairSpec
CONSTANTS
    Buffers = {b1, b2, b3}
    OTA_QUEUE_LENGTH = 3
    EVENT_QUEUE_LENGTH = 2
    Chunks = 1
    Versions = {3}
    RunningVersion = 2
    LastInvalid = 4
    DescriptionReadable = TRUE
    MaxUploads = 4
    MaxFaults = 0
PROPERTIES
    UploadGetsABuffer
CHECK_DEADLOCK FALSE
