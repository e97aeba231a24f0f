CONSTANTS
    Versions = {0, 1, 2, 3, 4}
    Calls = {c1, c2}
    Slaves = {s1}
    Base = 2
    SaveQueueLength = 1
    BufferSize = 3
    MaxPuts = 3
    MaxCrashes = 1
    Servers = {"abuf", "sserver", "dserver"}
    Users = {u1, u2, u3}
    Remote = {u1, u2}
    MaxInserts = 2
    Subs = {f1, f2}
    MaxPending = 1
    MaxItems = 3
    MaxBatch = 2
    MaxFetches = 2
    Urls = 3
    PollerIds = {p1, p2}
    Silent = {1}
    MaxErrors = 1
    Replicas = {1, 2}
    Rpcs = {h1, h2}
    MaxRpcs = 2
    MaxOrders = 2
    Parts = {2, 3}
    Clients = {k1, k2}
    Deaf = {k1}
    Capacity = 1
    MaxSaid = 2
SYMMETRY Symmetry
SPECIFICATION Spec
INVARIANTS KeysUnique NothingDropped CachesAgree KeysContiguous EachItemOnce
           ClosedAfterAll OneOwner OneResultPerKind CountsExact OkMeansServed
PROPERTY BufferImplements
CHECK_DEADLOCK FALSE
