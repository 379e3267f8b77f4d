CONSTANTS
    U64 = 18
    GUEST_RAM_BASE = 4
    GUEST_RAM_END = 16
    Protected <- MCProtected
    MAX_IMAGES = 2
    Byte <- MCByte
    InitialMemory <- MCMemory
    Crc <- MCCrc
    OfferedBundles <- MCBundles
    OfferedImages <- MCImages
    Chunks <- MCChunks
    Fallback = Fallback
    None = None
    Manifests <- MCManifests
    Commands = {"Status", "Abort", "Boot"}
    MaxSessions = 3
SPECIFICATION ClientSpec
PROPERTY AbortPermitsNewTransfer
\* The monitor may be parked without USB, and the sessions may be used up.
CHECK_DEADLOCK FALSE
