CONSTANTS
    ByteBase = 2
    HashSize = 1
    TokenSize = 1
    SignatureSize = 1
    TimeLen = 2
    Events <- MCEvents
    NonceSize = 1
    Overhead = 1
    MaxMsgs = 2
    Segmented = FALSE
SPECIFICATION Spec
INVARIANT TypeOK
PROPERTY AllForwarded
CHECK_DEADLOCK FALSE
