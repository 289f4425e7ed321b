CONSTANTS
    MaxRuns = 3
    MaxAppends = 3
SPECIFICATION Spec
INVARIANTS
    TypeOK
    AckedByCleanRunRecovered
PROPERTY RecoveryOnlyGrows
CHECK_DEADLOCK FALSE
