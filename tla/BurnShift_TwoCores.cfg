SPECIFICATION FairSpec
CONSTANTS
    Size = 4
    XMargins = {0, 2}
    YMargins = {1, 2}
    Wrap = 8
CHECK_DEADLOCK TRUE
INVARIANTS
    WithinLimit
    PanelShowsFrame
PROPERTIES
    DriftsBack
