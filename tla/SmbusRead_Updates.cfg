SPECIFICATION Spec
CONSTANTS
    Value = {0, 1, 2}
    Lengths = {1, 3, 4}
    MaxLength = 2
    ReplySize = 5
    Stats = {"SERIAL_NUMBER", "MANUFACTURER_DATA", "MANUFACTURER_NAME"}
    Sharing = 2
INVARIANTS
    NoOverrun
    BusReleased
    ValidMeansReply
