SPECIFICATION InterruptsSpec
CONSTANTS
    Ids <- MCIds
    MAINTENANCE = 25
    Owned = {71}
    BitWord <- MCWord
    ByteWord <- MCByteWord
    Bytes = {0, 160, 163}
    Attributes = {0, 1}
    USB = USB
    NETWORK = NETWORK
    Looked = {NETWORK}
    Cpus = {c0, c1}
    Boot = c0
    Priorities = {0, 160}
CHECK_DEADLOCK FALSE
INVARIANTS PublicationInvariant
PROPERTIES GuestSeesPlainRegisters ProtectedAreUntouched NoInterruptIsLost
