CONSTANTS
    p1 = p1
    p2 = p2
    a1 = a1
    a2 = a2
    i1 = i1
    d1 = d1
    None = None
    Trusted <- MCTrusted
    Attendees <- MCAttendees
    Inbound = {i1}
    Dialed = {d1}
    Routed = {r1}
    r1 = r1
    MaxBroadcasts = 1
    MaxBlocks = 1
SPECIFICATION Spec
INVARIANT NoMapRace
CHECK_DEADLOCK FALSE
