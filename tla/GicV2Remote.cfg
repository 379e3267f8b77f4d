CONSTANTS
    ListRegisters = 2
    Interrupts <- MCSecondary
    Priority <- MCPrioritySecondary
    Owned = {}
    NETWORK <- MCNetwork
    SPURIOUS = SPURIOUS
    MaxEvents = 6
SPECIFICATION QuietSpec
PROPERTIES
    AcknowledgedIsEnded
\* The environment may be quiet and everything delivered.
CHECK_DEADLOCK FALSE
