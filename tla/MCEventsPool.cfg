CONSTANTS
    Events = {a, b, c}
    NoEvent = NoEvent
    MaxQueue = 4
SPECIFICATION PoolSpec
INVARIANT TypeOK
INVARIANT MapCoveredByQueue
PROPERTY SetRefinement
PROPERTY EventuallyServed
