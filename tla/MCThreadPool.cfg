CONSTANTS
    t1 = t1
    t2 = t2
    t3 = t3
    c1 = c1
    c2 = c2
    NoTask = NoTask
    Tasks <- MCTasks
    Clients <- MCClients
    InitialSize <- MCInitialSize
    Capacity <- MCCapacity
SPECIFICATION FairSpec
INVARIANTS
    TypeOK
    WorkingCountExact
    NoLostWakeup
    TaskInOnePlace
    DestroyedIsQuiet
PROPERTIES
    ImplementsTaskQueue
    AcceptedTaskRuns
    DtorReturns
CHECK_DEADLOCK FALSE
