CONSTANTS
    Tgid = {g1}
    Proc = {p1, p2}
    Chunk = {c1, c2}
    Opaque = {}
    TrafficCap = 1
    PidCap = 1
    RingCap = 1
    Reuse = "settled"
    Faults = {}
SPECIFICATION Spec
INVARIANTS ReRegisters
