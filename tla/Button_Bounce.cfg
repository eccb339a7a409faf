SPECIFICATION FairSpec
CONSTANTS
    Debounce = 3
    Interval = 5
    Delay = 8
    Late = 2
    Pool = 6
    Bounces = 4
    Prompt = TRUE
CHECK_DEADLOCK TRUE
INVARIANTS
    SettledIsPin
PROPERTIES
    RepeatsArePaced
    ReportsPresses
    SteadyIsReported
