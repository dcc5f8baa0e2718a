CONSTANTS
    h1 = h1
    h2 = h2
    h3 = h3
    v1 = v1
    v2 = v2
    v3 = v3
    Hashes = {h1, h2, h3}
    ZeroHash = ZeroHash
    Events = {x}
    Validators = {v1, v2, v3}
    Proposals <- MCProposals
    Deposited <- MCDeposited
    TotalStake = 3
    Committed = 0
    MaxRecent = 3
SPECIFICATION Spec



PROPERTY CheckpointMonotone
CHECK_DEADLOCK FALSE
