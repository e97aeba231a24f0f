CONSTANTS
    Server = {s1, s2, s3}
    None = None
    DeadPings = 1
    MaxLate = 1
    MaxViewnum = 4
    Clerk = {c1, c2}
    MaxPut = 2
    Faults = {"crash", "early"}
SYMMETRY Symmetry
SPECIFICATION Spec
INVARIANTS TypeOK GetsAreFresh PutsArePreserved ReplicasIdentical
CONSTRAINT Instance
CHECK_DEADLOCK FALSE
