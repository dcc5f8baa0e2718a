CONSTANTS
    a = a
    b = b
    z = z
    Hashes <- MCHashes
    EventEpoch <- MCEventEpoch
    Window = 3
    StartEpoch = 1
    MaxEpoch = 4
    MaxForward = 4
SPECIFICATION Spec
INVARIANT NoDuplicateForward
CHECK_DEADLOCK FALSE
