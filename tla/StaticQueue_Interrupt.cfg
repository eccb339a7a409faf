SPECIFICATION Spec
CONSTANTS
    Max = 4
    Value = {v1, v2}
    Garbage = garbage
    Preempts = TRUE
    MaxDropped = 2
CHECK_DEADLOCK TRUE
INVARIANTS
    NoDataRace
PROPERTIES
    HeldElementStable
    ImplementsFifo
