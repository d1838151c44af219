SPECIFICATION Spec
CONSTANTS
    Keyring = {r1, r2, r3}
    Signature = {s1, s2, s3}
    MaxNotes = 2
    Required <- RequiredValues
INVARIANTS AcceptsOnlySigned DisjointAccepted VerdictCountsSigners
PROPERTIES CheckEnds
CHECK_DEADLOCK FALSE
