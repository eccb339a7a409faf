SPECIFICATION Spec
CONSTANTS
    Byte = {c, d}
    Overrides = {d}
    NoByte = noByte
    CmdSize = 3
    ReplySize = 3
    Capacity = 4
    RxDepth = 1
    Assumed = {"prompt", "paced", "healthy", "smbus", "fits"}
    Track = TRUE
CHECK_DEADLOCK TRUE
INVARIANTS
    NeverHappens
    WholeMessages
    OverrideNotBypassed
    BatteryReleased
PROPERTIES
    ForwardsEverything
