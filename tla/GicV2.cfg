CONSTANTS
    ListRegisters = 2
    Interrupts <- MCMixed
    Priority <- MCPriorityMixed
    Owned <- MCBothOwned
    NETWORK <- MCNetwork
    SPURIOUS = SPURIOUS
    MaxEvents = 4
SPECIFICATION LocalSpec
CHECK_DEADLOCK FALSE
INVARIANTS ForwardingInvariant
PROPERTIES EachIsServedOnce AcknowledgedIsEnded LineIsDelivered
