CONSTANTS
    Proc = {p1, p2, p3}
    Limit <- MCLimit
    MaxCount = 2
SPECIFICATION Spec
SYMMETRY Symmetry
INVARIANTS
    TypeOK
    TripsRecorded
    HaltHonoured
PROPERTY FirstReasonWins
