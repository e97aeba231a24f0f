CONSTANTS
    Client = {c1, c2}
    Lockname = {a}
    MaxCalls = 2
    Failures = {"crash"}
SPECIFICATION Spec
INVARIANT TypeOK
PROPERTY ImplementsLockSpec
CHECK_DEADLOCK FALSE
