SPECIFICATION CrcSpec
CONSTANTS
    Address = {0, 1, 3}
    Commands = {{3}, {0, 2, 3}, {5}}
    Bytes = {{}, {0, 2, 5, 7}, {1, 6}, {0, 1, 2, 3, 4, 5, 6, 7}}
    MaxReply = 3
    MaxFlips = 2
CHECK_DEADLOCK FALSE
INVARIANTS
    ChecksumIsSmbus
    AcceptedIffIntact
