SPECIFICATION FairSpec
CONSTANTS
    MAX_WIFI_CHANNEL = 4
    DELEGATE_QUEUE_LENGTH = 2
    EVENT_QUEUE_LENGTH = 2
    MaxLosses = 1
    MaxFaults = 1
    MaxCommands = 1
    MaxUploads = 2
    MaxPowerLosses = 1
    Versions = {1, 2, 3}
    ShippedVersion = 1
    Broken = {2}
    HZ = 2
    MS = 4
    Word = 14
    Interval = 2
    Period = 1
    StartTicks = {3}
    MaxTicks = 6
INVARIANTS
    TypeOK
    ScanIsOneThread
    AccessPointNearPeer
    UpdatesFromConfirmedImage
    RediscoveryOnTime
PROPERTIES
    EarlyOnlyAfterWrap
    ImplementsUpdateContract
    TrialsEnd
    ServesAgain
CHECK_DEADLOCK FALSE
