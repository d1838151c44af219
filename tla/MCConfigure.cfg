SPECIFICATION Spec
CONSTANTS
    Handler = {h1, h2}
    Value = {v1, v2, bad}
    Unusable = {bad}
    Empty = Empty
    Absent = Absent
    NoEntry = NoEntry
    Given = {v1, v2, bad, Absent}
    Fault = {"storage", "crash"}
SYMMETRY Requests
INVARIANTS TypeOK UrlPresent
PROPERTIES ActsAtOnce
