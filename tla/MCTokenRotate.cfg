SPECIFICATION Spec
CONSTANTS
    Token = {v1, v2, v3, v4}
    NoToken = NoToken
    None = None
    Handler = {h1, h2}
    Checker = {q1}
    Periods = {3}
    Requests = {"update", "rotate", "set", "replace", "clear", "delete"}
    Fault = {"storage", "vault", "crash"}
INVARIANTS TypeOK StoredTokenLive
PROPERTIES TokenPreserved
CHECK_DEADLOCK FALSE
SYMMETRY Symmetry
