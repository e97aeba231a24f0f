CONSTANTS
    Client = {c1, c2}
    Lockname = {a}
    MaxCalls = 1
    Failures = {"crash", "kill", "dying"}
SPECIFICATION FairSpec
PROPERTY CallsReturn
CHECK_DEADLOCK FALSE
