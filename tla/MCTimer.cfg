CONSTANTS
    e1 = e1
    e2 = e2
    NoEvent = NoEvent
    Events <- MCEvents
    Timeouts <- MCTimeouts
    MaxTime <- MCMaxTime
SPECIFICATION FairSpec
INVARIANTS
    SleepNotTooLong
PROPERTIES
    ImplementsAlarmClock
    EventFires
    DtorReturns
CHECK_DEADLOCK FALSE
