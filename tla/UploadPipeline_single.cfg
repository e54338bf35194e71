SPECIFICATION Spec
CONSTANTS
    w1 = w1
    w2 = w2
    Workers = {w1, w2}
    NoOwner = NoOwner
    t1 = t1
    t2 = t2
    Events = {t1, t2}
    Faults = {"crash", "stop", "media", "kafka", "api"}
    MaxLog = 3
    MaxDisruptions = 2
    Bitrates <- TwoBitrates
SYMMETRY Symmetry
INVARIANT AcceptedNotLost
INVARIANT IndexedReady
INVARIANT StrandedBounded
PROPERTY CommitForward
PROPERTY ClaimExclusive
PROPERTY LifecycleSpec
CHECK_DEADLOCK FALSE
