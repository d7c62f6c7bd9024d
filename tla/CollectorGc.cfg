CONSTANTS
    Tgid = {g1}
    Proc = {p1}
    Chunk = {c1}
    Opaque = {}
    TrafficCap = 1
    PidCap = 1
    RingCap = 1
    Reuse = "never"
    Faults = {}
SPECIFICATION Spec
PROPERTIES NothingPending
