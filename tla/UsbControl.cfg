SPECIFICATION UsbControlSpec
CONSTANTS
    Slots = 2
    Codings = {c1, c2}
    DEFAULT = c1
    MaxRequests = 3
    MAX_LINE_SIZE = 3
    OutputSize = 2
    Typed <- MCTyped
    MaxSessions = 3
CHECK_DEADLOCK FALSE
INVARIANTS PipeInvariant ControlInvariant
PROPERTIES HostIsServed ToolIsServed
