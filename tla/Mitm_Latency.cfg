SPECIFICATION Spec
CONSTANTS
    Byte = {c}
    Overrides = {c}
    NoByte = noByte
    CmdSize = 2
    ReplySize = 3
    Capacity = 3
    RxDepth = 1
    Assumed = {"healthy", "smbus"}
    Track = FALSE
CHECK_DEADLOCK TRUE
INVARIANTS
    TypeOK
    NoUnderrun
    ReadIsAwaited
    OverflowNoticed
    NoStaleAnswer
