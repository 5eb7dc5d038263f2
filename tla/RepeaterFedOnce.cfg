CONSTANTS
    u1 = u1
    u2 = u2
    InPorts <- MCInPorts
    OutPorts <- MCOutPorts
    Foreign <- MCForeign
    Unbound <- MCUnbound
    Controllers <- MCOneController
    MaxFd <- MCMaxFd
    MaxRuns <- MCMaxRuns
SPECIFICATION Spec
INVARIANT DestFedOnce
