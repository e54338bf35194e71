SPECIFICATION GroupSpec
CONSTANTS
    w1 = w1
    w2 = w2
    Workers = {w1, w2}
    NoOwner = NoOwner
    e = e
    Events = {e}
    Faults = {"crash", "stop", "rebalance", "handler"}
    MaxLog = 3
    MaxDisruptions = 2
SYMMETRY WorkerSymmetry
INVARIANT CommittedDone
CHECK_DEADLOCK FALSE
