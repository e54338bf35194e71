SPECIFICATION FairSpec
CONSTANTS
    w1 = w1
    w2 = w2
    w3 = w3
    Workers = {w1, w2, w3}
    NoOwner = NoOwner
    t1 = t1
    Events = {t1}
    Faults = {"crash", "stop", "rebalance", "kafka"}
    MaxLog = 2
    MaxDisruptions = 2
INVARIANT CountMatchesEvents
INVARIANT OverCountBounded
INVARIANT WithinReach
INVARIANT HandlersBounded
INVARIANT CommittedDone
PROPERTY EveryPlayCounted
CHECK_DEADLOCK FALSE
