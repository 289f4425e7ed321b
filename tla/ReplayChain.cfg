CONSTANTS
    Quotes <- MCQuotes
    Limits <- MCLimits
    MaxUpdates = 3
    MaxTime = 1
    MaxFaults = 1
SPECIFICATION Spec
INVARIANTS
    MergeFaithful
    ReplayReproduces
CHECK_DEADLOCK FALSE
