SPECIFICATION Spec
CONSTANTS
    w1 = w1
    w2 = w2
    Workers = {w1, w2}
    NoOwner = NoOwner
    t1 = t1
    t2 = t2
    Events = {t1, t2}
    Faults = {"rebalance", "media"}
    MaxLog = 2
    MaxDisruptions = 1
    Bitrates <- TwoBitrates
PROPERTY ReadyFinal
CHECK_DEADLOCK FALSE
