CONSTANTS
    Server = {s1, s2}
    None = None
    DeadPings = 1
    MaxLate = 2
    MaxViewnum = 4
SPECIFICATION FairSpec
INVARIANTS TypeOK PastViewsAcked PanicOnlyIfTickLate
PROPERTY RestartedPrimaryLeavesView
CHECK_DEADLOCK FALSE
