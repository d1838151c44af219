SPECIFICATION Spec
CONSTANTS
    c1 = c1
    c2 = c2
    c3 = c3
    c4 = c4
    o1 = o1
    o2 = o2
    o3 = o3
    Commit = {c1, c2, c3, c4}
    NoCommit = NoCommit
    Object = {o1, o2, o3}
    Wanted <- Wanted4
    Claimed <- Claimed4
    Carried = {c2}
    Bare = {c4}
    Fault = {"storage", "disk", "read", "terraform", "killed", "crash"}
INVARIANTS TypeOK StateKnowsTarget ExactOnSuccess
PROPERTIES KeepsPromise
