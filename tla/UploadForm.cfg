SPECIFICATION FairSpec
CONSTANTS
    t1 = t1
    t2 = t2
    Tracks = {t1, t2}
    BitrateSet = {64, 128}
    r1 = r1
    r2 = r2
    Reads = {r1, r2}
    ReadFaults = {"cache", "row", "net"}
INVARIANT CachedComplete
INVARIANT RowsTrue
INVARIANT ShownReadyIsReady
PROPERTY EndIsNoticed
CHECK_DEADLOCK FALSE
