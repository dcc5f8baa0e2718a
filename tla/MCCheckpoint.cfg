CONSTANTS
    Hashes = {h1, h2}
    ZeroHash = ZeroHash
    Events = {x}
    MaxEpoch = 5
    MaxRecent = 3
SPECIFICATION Spec
INVARIANT CheckpointMatchesReference
