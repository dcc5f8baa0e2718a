CONSTANTS
    Events = {a, b, c}
    NoEvent = NoEvent
    MaxQueue = 4
SPECIFICATION PoolSpec
PROPERTY FifoRefinement
