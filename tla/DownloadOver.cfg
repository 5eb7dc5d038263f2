CONSTANTS
    MaxStarts <- MCMaxStarts
SPECIFICATION Spec
INVARIANT OverIsFinished
CHECK_DEADLOCK FALSE
