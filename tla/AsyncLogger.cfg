CONSTANTS
    Thread = {t1, t2}
    Capacity = 2
    MaxCalls = 2
SPECIFICATION FairSpec
INVARIANTS
    TypeOK
    CallsAccounted
PROPERTIES
    LogReturns
    StopReturns
CHECK_DEADLOCK FALSE
