CONSTANTS
    Quotes <- MCWide
    Limits <- MCLimits
    Mode = "kraken"
    MaxUpdates = 1
    MaxFaults = 0
    MaxRestarts = 0
SPECIFICATION Spec
INVARIANT NoGhostOrders
CHECK_DEADLOCK FALSE
