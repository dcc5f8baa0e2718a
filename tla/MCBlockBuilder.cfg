CONSTANTS
    e1 = e1
    e2 = e2
    e3 = e3
    Events <- MCEvents
    Conflicts <- MCConflicts
    Base <- MCBase
    NoEvent = NoEvent
    MaxQueue = 3
SPECIFICATION Spec
INVARIANT TypeOK
PROPERTY SealedBlockFrozen
CHECK_DEADLOCK FALSE
