CONSTANTS
    Tgid = {g1, g2}
    Proc = {p1, p2}
    Chunk = {c1, c2}
    Opaque = {}
    TrafficCap = 1
    PidCap = 1
    RingCap = 1
    Reuse = "any"
    Faults = {"map", "upsert", "flush", "restart"}
SPECIFICATION FairSpec
INVARIANTS TypeOK ReadOnce EagerlyNamed ChargedToSender
PROPERTIES DropsOnlyOnFailure DeadAreEvicted
