\* Two servers, two libstores with one call at a time each, one key, two writes.
\* A lease lasts a second, the guard and the delay of an answer as long, and
\* three seconds let a lease be asked for, granted, run out and be forgotten.
\* The run ends when the clock and the writes are used up.
SPECIFICATION Spec
CHECK_DEADLOCK FALSE
CONSTANTS
    l1 = l1
    l2 = l2
    k1 = k1
    Servers <- TwoNodes
    Keys = {k1}
    Hash <- HashOfKey
    Items = {x}
    Libs = {l1, l2}
    Readers <- OneEach
    Writers <- OneEach
    LEASE_SECONDS = 1
    LEASE_GUARD_SECONDS = 1
    QUERY_CACHE_SECONDS = 1
    QUERY_CACHE_THRESH = 1
    MaxDelay = 1
    MaxTime = 3
    MaxQueries = 2
    MaxWrites = 2
INVARIANTS TypeOK RevokedBeforeWrite KeysHaveOneServer
