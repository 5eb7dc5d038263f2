CONSTANTS
    MaxStarts <- MCMaxStarts
SPECIFICATION FairSpec
INVARIANTS
    TypeOK
    FileIsWhole
    CancelledIsQuiet
PROPERTIES
    CancelReturns
CHECK_DEADLOCK FALSE
