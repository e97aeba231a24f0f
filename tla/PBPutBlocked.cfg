CONSTANTS
    Server = {s1, s2}
    None = None
    DeadPings = 1
    MaxLate = 1
    MaxViewnum = 3
    Clerk = {c1}
    MaxPut = 1
    Faults = {"crash"}
SPECIFICATION FairSpec
PROPERTY PutsReturn
CHECK_DEADLOCK FALSE
