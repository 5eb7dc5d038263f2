CONSTANTS
    u1 = u1
    u2 = u2
    InPorts <- MCInPorts
    OutPorts <- MCOutPorts
    Foreign <- MCForeign
    Unbound <- MCUnbound
    Controllers <- MCControllers
    MaxFd <- MCMaxFd
    MaxRuns <- MCMaxRuns
SPECIFICATION FairSpec
INVARIANTS
    TableWellFormed
    MaskMatchesTable
PROPERTIES
    DatagramRepeated
    StopReturns
CHECK_DEADLOCK FALSE
