SPECIFICATION FairSpec
CONSTANTS
    c1 = c1
    c2 = c2
    k1 = k1
    n1 = n1
    t1 = t1
    t2 = t2
    Commit = {c1, c2}
    NoCommit = NoCommit
    NoConfig = NoConfig
    Tick = {t1, t2}
    Key = {k1}
    Name = {n1}
    NoKey = NoKey
    Date <- Dates2
    History <- Linear2
    Own <- Own2x1
    MaySign <- Sign2x1
    Bare = {c1}
    Required = {1}
    Period = {1}
    Second = 2
    MaxDate = 1
    MaxAge = 2
    Operator = {"push", "sign", "trust", "unconfigure"}
    Fault = {"clone", "terraform"}
INVARIANTS StatusTellsOutcome
PROPERTIES RunsKeepInterval RecordFollowsApply GuardReleased HeadDelivered
