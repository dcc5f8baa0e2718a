CONSTANTS
    ByteBase = 2
    HashSize = 2
    TokenSize = 2
    SignatureSize = 2
    TimeLen = 2
SPECIFICATION Spec
INVARIANT BlockRoundTrip
CHECK_DEADLOCK FALSE
