CONSTANTS
    t1 = t1
    t2 = t2
    e1 = e1
    NoPid <- MCNoPid
    Threads <- MCThreads
    Engines <- MCEngines
    UserOf <- MCUserOf
    Pids <- MCPids
    MaxZombies <- MCMaxZombies
SPECIFICATION Spec
INVARIANT ReapedIsForgotten
CHECK_DEADLOCK FALSE
