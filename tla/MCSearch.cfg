SPECIFICATION Spec
CONSTANTS
    N = 4
    NoCommit = NoCommit
    MaxParents = 2
    MaxDate = 1
INVARIANTS FollowsRule NothingBehindBoundary LinearNothingMissed LinearNewestFound NothingMissedOffBranch
PROPERTIES SearchEnds
CHECK_DEADLOCK FALSE
