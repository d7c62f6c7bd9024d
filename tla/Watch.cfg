CONSTANTS
    Stream = {s1}
    i1 = i1
    i2 = i2
    root = root
    eve = eve
    Ident = {i1, i2}
    Owner <- MCOwner
    Group <- MCGroup
    Delta <- MCDelta
    Request <- MCRequest
    Root = root
    QueueCap = 2
    SocketCap = 1
SPECIFICATION FairSpec
INVARIANTS TypeOK Attended DescribedOnce
PROPERTIES ImplementsBroadcast EndedIsForgotten StalledIsDropped
