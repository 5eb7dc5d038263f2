CONSTANTS
    k1 = k1
    k2 = k2
    NoTask = NoTask
    ListenTask = ListenTask
    Main = Main
    Conns <- MCConns
    Tasks <- MCTasks
    Clients <- MCClients
    InitialSize <- MCInitialSize
    MaxThreadNum <- MCMaxThreadNum
    Capacity <- MCCapacity
SPECIFICATION ServerSpec
INVARIANTS
    ServerTypeOK
    HandlerLimit
PROPERTIES
    StopEndsLoop
    PostedConnHandled
CHECK_DEADLOCK FALSE
