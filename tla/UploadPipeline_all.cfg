SPECIFICATION Spec
CONSTANTS
    w1 = w1
    w2 = w2
    Workers = {w1, w2}
    NoOwner = NoOwner
    t1 = t1
    Events = {t1}
    Faults = {"crash", "stop", "rebalance", "db", "media", "kafka", "api"}
    MaxLog = 2
    MaxDisruptions = 3
    Bitrates <- AllBitrates
SYMMETRY Symmetry
INVARIANT TypeOK
INVARIANT ReadyComplete
INVARIANT StreamHasObject
INVARIANT CommittedAttempted
PROPERTY NeverBack
CHECK_DEADLOCK FALSE
