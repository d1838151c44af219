SPECIFICATION Spec
CONSTANTS
    Token = {v1, v2, v3, v4}
    NoToken = NoToken
    None = None
    Handler = {h1}
    Checker = {q1, q2}
    Periods = {3, 4}
    Requests = {"set"}
    Fault = {}
INVARIANTS TokenNeverExpires
CHECK_DEADLOCK FALSE
SYMMETRY Symmetry
