CONSTANTS
    t1 = t1
    t2 = t2
    e1 = e1
    NoPid <- MCNoPid
    Threads <- MCThreads
    Engines <- MCEngines
    UserOf <- MCUserOf
    Pids <- MCPids
    MaxZombies <- MCMaxZombies
SPECIFICATION FairSpec
INVARIANTS
    TypeOK
    LiveIsListed
    OneTranscoder
PROPERTIES
    ImplementsProcessTable
    DeathReported
CHECK_DEADLOCK FALSE
