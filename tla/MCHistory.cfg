SPECIFICATION HSpec
CONSTANTS
    c1 = c1
    k1 = k1
    n1 = n1
    k2 = k2
    n2 = n2
    t1 = t1
    Commit = {c1}
    NoCommit = NoCommit
    NoConfig = NoConfig
    Tick = {t1}
    Key = {k1, k2}
    Name = {n1, n2}
    NoKey = NoKey
    Date <- Dates1
    History <- Linear1
    Own <- Own1x0
    MaySign <- Sign1x2
    Bare = {}
    Required = {1, 2}
    Period = {0}
    Second = 1
    MaxDate = 0
    MaxAge = 1
    Operator = {"sign", "unsign", "trust", "distrust", "configure"}
    Fault = {"terraform", "crash"}
SYMMETRY Keys
INVARIANTS StablePolicyMet
PROPERTIES DeliversOnlySigned
