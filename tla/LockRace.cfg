CONSTANTS
    Client = {c1, c2}
    Lockname = {a}
    MaxCalls = 1
    Failures = {"kill"}
SPECIFICATION Spec
INVARIANT LocksBalance
CHECK_DEADLOCK FALSE
