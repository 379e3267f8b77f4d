CONSTANTS
    CPU_COUNT = 3
    CPUs <- MCCPUs
    NoCPU = NoCPU
    RAM_BASE = 16
    IPA_LIMIT = 40
    RESIDENT_BASE = 24
    RESIDENT_SIZE = 8
    Word32 = 64
    Targets = {2}
    Calls <- MCCalls
    BootLaunch = BootLaunch
    NoLaunch = NoLaunch
SPECIFICATION PsciFairSpec
\* Every CPU may have turned itself off.
CHECK_DEADLOCK FALSE
INVARIANTS PowerInvariant
PROPERTIES ImplementsPowerDomain CpuOnCompletes
