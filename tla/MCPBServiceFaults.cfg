CONSTANTS
    Server = {s1, s2}
    None = None
    DeadPings = 1
    MaxLate = 1
    MaxViewnum = 2
    Clerk = {c1}
    MaxPut = 0
    Faults = {"crash", "early", "kill", "restart", "quick", "slow", "unreliable"}
SYMMETRY Symmetry
SPECIFICATION Spec
INVARIANT OnePrimaryPerView
CHECK_DEADLOCK FALSE
