SPECIFICATION XudcSpec
CONSTANTS
    Bounds <- MCBounds
    EventLimit = 32
\* The host may have done what it was going to do.
CHECK_DEADLOCK FALSE
INVARIANTS ChannelInvariant
PROPERTIES DataAreInOrder ChannelStaysOpen
