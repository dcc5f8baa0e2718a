CONSTANTS
    ByteBase = 2
    HashSize = 1
    TokenSize = 1
    SignatureSize = 1
    TimeLen = 2
    Events <- MCEventsWithEmpty
    NonceSize = 1
    Overhead = 1
    MaxMsgs = 2
    Segmented = TRUE
SPECIFICATION Spec
INVARIANT NeverCrashes
CHECK_DEADLOCK FALSE
