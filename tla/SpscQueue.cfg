CONSTANTS
    Item = {a, b}
    NoItem = NoItem
    Capacity = 3
    CounterMod = 2
SPECIFICATION FairSpec
INVARIANTS
    TypeOK
    NoDataRace
PROPERTIES
    RefinesFifo
    NeitherSideStarves
