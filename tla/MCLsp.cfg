\* One client and the server, sequence numbers that wrap; two lost packets, or an epoch that comes too
\* early, or a close.  The system may stop: a server that panicked, a client
\* that has exited.
SPECIFICATION FairSpec
CHECK_DEADLOCK FALSE
CONSTANTS
    Clients = {c1}
    SeqMod = 2
    EpochLimit = 4
    MaxWrites <- TwoAndOne
    MaxConns = 2
    MaxFaults = 2
INVARIANTS TypeOK StreamsInOrder AckedMeansReceived ConnectionsKept
PROPERTY WritesDelivered
