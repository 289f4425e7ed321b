CONSTANTS
    MaxRuns = 3
    MaxAppends = 3
SPECIFICATION Spec
INVARIANT AckedRecovered
CHECK_DEADLOCK FALSE
