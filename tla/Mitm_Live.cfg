SPECIFICATION FairSpec
CONSTANTS
    Byte = {c}
    Overrides = {}
    NoByte = noByte
    CmdSize = 3
    ReplySize = 2
    Capacity = 3
    RxDepth = 1
    Assumed = {"prompt", "paced"}
    Track = FALSE
CHECK_DEADLOCK TRUE
PROPERTIES
    ReadIsAnswered
    DisplayIsServed
