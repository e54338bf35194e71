SPECIFICATION FairSpec
CONSTANTS
    w1 = w1
    w2 = w2
    Workers = {w1, w2}
    NoOwner = NoOwner
    t1 = t1
    t2 = t2
    Events = {t1, t2}
    Faults = {"rebalance", "media"}
    MaxLog = 2
    MaxDisruptions = 2
    Bitrates <- TwoBitrates
INVARIANT AcceptedInReach
PROPERTY Processed
CHECK_DEADLOCK FALSE
