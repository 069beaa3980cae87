SPECIFICATION Spec
CONSTANTS
    Requests = {r1, r2, r3}
    Threshold = 2
    Duration = 2
    MaxTime = 3
    MaxFailures = 4
SYMMETRY Symmetry
INVARIANTS
    NoUndercount
    LockFollows
    LockStopsGuessing
PROPERTIES
    OnlyEarlierLoginsMoveTheLock
