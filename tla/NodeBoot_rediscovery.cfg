SPECIFICATION Spec
CONSTANTS
    MAX_WIFI_CHANNEL = 3
    DELEGATE_QUEUE_LENGTH = 2
    EVENT_QUEUE_LENGTH = 2
    MaxLosses = 0
    MaxFaults = 0
    MaxCommands = 0
    MaxUploads = 0
    MaxPowerLosses = 0
    Versions = {1, 2, 3}
    ShippedVersion = 1
    Broken = {}
    HZ = 2
    MS = 4
    Word = 14
    Interval = 2
    Period = 1
    StartTicks = {0}
    MaxTicks = 5
INVARIANTS
    InterfacesCreated
CHECK_DEADLOCK FALSE
