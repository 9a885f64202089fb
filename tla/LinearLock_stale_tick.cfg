SPECIFICATION PunctualSpec
CONSTANTS
    QUEUE_SIZE = 2
    TIMER_QUEUE_LENGTH = 2
    MaxCommands = 3
PROPERTIES
    TickOnlyAdvances
CHECK_DEADLOCK FALSE
