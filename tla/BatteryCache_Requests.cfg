SPECIFICATION FairSpec
CONSTANTS
    Count = 2
    Reply = {r}
    NoReply = noReply
    Pages = {{1, 2}}
    Retry = 1
    LongLived = {}
    Period = 1
    LongPeriod = 1
    Failing = {2}
CHECK_DEADLOCK TRUE
INVARIANTS
    ShownIsWhole
    DerivedFromRead
    RequestNoticed
PROPERTIES
    RequestServed
    LockIsServed
