SPECIFICATION Spec
CONSTANTS
    N = 3
    NoCommit = NoCommit
    MaxParents = 2
    MaxDate = 1
INVARIANTS NothingMissed
CHECK_DEADLOCK FALSE
