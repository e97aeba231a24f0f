CONSTANTS
    Versions = {1, 4}
    Calls = {c1, c2}
    Slaves = {}
    Base = 2
    SaveQueueLength = 1
    BufferSize = 3
    MaxPuts = 3
    MaxCrashes = 1
    Servers = {"abuf", "sserver", "dserver"}
    Users = {u1, u2}
    Remote = {u1}
    MaxInserts = 2
    Subs = {f1, f2}
    MaxPending = 1
    MaxItems = 2
    MaxBatch = 1
    MaxFetches = 1
    Urls = 3
    PollerIds = {p1, p2}
    Silent = {1}
    MaxErrors = 1
    Replicas = {1}
    Rpcs = {h1, h2}
    MaxRpcs = 1
    MaxOrders = 1
    Parts = {2, 3}
    Clients = {k1, k2}
    Deaf = {k1}
    Capacity = 1
    MaxSaid = 1
SPECIFICATION FairSpec
PROPERTIES PutsEnd AckedGetsSaved OpsReturn CloseEnds PolledForEver EveryoneHears
CHECK_DEADLOCK FALSE
