CONSTANTS
    Quotes <- MCQuotes
    Limits <- MCLimits
    Mode = "kraken"
    MaxUpdates = 2
    MaxFaults = 1
    MaxRestarts = 2
SPECIFICATION FairSpec
INVARIANTS
    TypeOK
    JournalBrackets
    FailsClosed
PROPERTIES
    StartsUp
    LossNoticed
CHECK_DEADLOCK FALSE
