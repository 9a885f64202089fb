SPECIFICATION FairSpec
CONSTANTS
    Buffers = {b1, b2}
    OTA_QUEUE_LENGTH = 2
    EVENT_QUEUE_LENGTH = 2
    Chunks = 2
    Versions = {1, 3, 4}
    RunningVersion = 2
    LastInvalid = 4
    DescriptionReadable = TRUE
    MaxUploads = 3
    MaxFaults = 1
INVARIANTS
    TypeOK
    BuffersConserved
    ChunksInOrder
    BootsOnlyNewerWholeImage
    IdleHoldsNoHandle
PROPERTIES
    ImplementsImageSlots
    WaitsOnlyForLostBuffers
CHECK_DEADLOCK FALSE
