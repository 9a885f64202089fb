SPECIFICATION FairSpec
CONSTANTS
    QUEUE_SIZE = 2
    TIMER_QUEUE_LENGTH = 2
    MaxCommands = 7
INVARIANTS
    TypeOK
    NoShootThrough
    MotionInv
    SpeedNeverWraps
    MotorNeverStranded
    WorkIsBounded
    NoEarlyCircularWait
    StatusIsSettled
PROPERTIES
    ImplementsActuator
    Settles
    UndisturbedCommandSucceeds
CHECK_DEADLOCK FALSE
