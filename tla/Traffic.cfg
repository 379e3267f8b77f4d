SPECIFICATION TrafficSpec
CONSTANTS
    QUEUE_SIZE = 2
    ROUNDS = 3
    BlockFrames = 2
    Filters <- MCFilters
    HostKinds = {"peer", "management", "empty"}
    GuestKinds = {"peer", "all"}
    MaxFrames = 2
    MaxBuffers = 2
    MaxChanges = 2
    NTB_SIZE = 90
    FRAME_SIZE = 18
    MAX_DATAGRAMS = 3
    Limits = {40, 80, 130}
    HostBlocks <- SomeBlocks
    RX_CAPACITY = 2
    TX_CAPACITY = 2
    Chunk = 2
    MaxIn = 3
    MaxOut = 3
    MaxToggles = 2
CHECK_DEADLOCK FALSE
INVARIANTS BlocksAreSound BytesAreKept
PROPERTIES OrderIsKept GuestFramesAreKept NeitherStarves ConsoleIsServed
