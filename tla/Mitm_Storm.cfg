SPECIFICATION FairSpec
CONSTANTS
    Byte = {c}
    Overrides = {}
    NoByte = noByte
    CmdSize = 3
    ReplySize = 3
    Capacity = 2
    RxDepth = 1
    Assumed = {"prompt", "healthy", "smbus", "fits"}
    Track = FALSE
CHECK_DEADLOCK TRUE
PROPERTIES
    OverflowPasses
