CONSTANTS
    e1 = e1
    e2 = e2
    e3 = e3
    Events <- MCEvents
    Conflicts <- MCConflicts
    Base <- MCBase
    NoEvent = NoEvent
    MaxQueue = 3
SPECIFICATION Spec
INVARIANT EventConsumedOnce
CHECK_DEADLOCK FALSE
