SPECIFICATION Spec
CONSTANTS
    t1 = t1
    t2 = t2
    Tracks = {t1, t2}
    BitrateSet = {64, 128}
    r1 = r1
    r2 = r2
    Reads = {r1, r2}
    ReadFaults = {"net"}
PROPERTY ReadyStays
CHECK_DEADLOCK FALSE
