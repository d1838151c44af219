SPECIFICATION Spec
CONSTANTS
    c1 = c1
    c2 = c2
    k1 = k1
    n1 = n1
    t1 = t1
    t2 = t2
    Commit = {c1, c2}
    NoCommit = NoCommit
    NoConfig = NoConfig
    Tick = {t1, t2}
    Key = {k1}
    Name = {n1}
    NoKey = NoKey
    Date <- Dates2
    History <- Linear2
    Own <- Own2x1
    MaySign <- Sign2x1
    Bare = {}
    Required = {1}
    Period = {0}
    Second = 1
    MaxDate = 1
    MaxAge = 1
    Operator = {"push", "sign", "unsign", "trust", "distrust", "configure"}
    Fault = {"storage", "clone", "terraform", "crash", "orphan"}
SYMMETRY Ticks
INVARIANTS TypeOK GuardMatchesRun NothingFromTheFuture
PROPERTIES NeverBehindBoundary
