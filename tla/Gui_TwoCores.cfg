SPECIFICATION FairSpec
CONSTANTS
    MaxBoxes = 18
    MaxRects = 8
    MaxLines = 8
    MaxObjects = 34
    LastPage = 2
CHECK_DEADLOCK TRUE
INVARIANTS
    PoolsSuffice
    ChangesAreShown
    BindingIsWhole
PROPERTIES
    SelectsWhatIsShown
    FallsAsleep
