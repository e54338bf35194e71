SPECIFICATION Spec
CONSTANTS
    Capacity = 4
    Cost = 2
    MaxLag = 1
    MaxTime = 12
    MaxBack = 3
    MaxLost = 1
    a1 = a1
    a2 = a2
    Attempts = {a1, a2}
    MaxAttempts = 2
    Window = 3
    MaxSends = 2
    MaxDropped = 1
    MaxOver = 2
    n1 = n1
    n2 = n2
    n3 = n3
    Nodes = {n1, n2, n3}
    NoNode = NoNode
    Positions = {0, 1, 2, 3, 4}
    VNodes = 2
    u1 = u1
    u2 = u2
    u3 = u3
    Users = {u1, u2, u3}
    Cap = 2
    MaxTweets = 3
    MaxFollows = 3
    t1 = t1
    t2 = t2
    t3 = t3
    Tracks = {t1, t2, t3}
    NoTrack = NoTrack
    Limit = 1
    MaxAddedAt = 4
    s1 = s1
    s2 = s2
    Songs = {s1, s2}
    Bitrates = {64}
    q1 = q1
    Queries = {q1}
    l1 = l1
    Lists = {l1}
    r1 = r1
    r2 = r2
    Requests = {r1, r2}
    api1 = api1
    api2 = api2
    Apis = {api1, api2}
    worker1 = worker1
    Indexers = {worker1}
    MaxLosses = 1
    MaxFailures = 1
INVARIANT SharedBounded
INVARIANT ScriptsAgree
INVARIANT AtMostTwice
INVARIANT GetFindsMember
INVARIANT WalkComplete
INVARIANT OffersPlayable
INVARIANT ServingHasSchema
INVARIANT IndexMapped
PROPERTY LockoutEnds
PROPERTY OnlyNeighboursMove
PROPERTY ShowsDeliveries
PROPERTY EveryoneServesIfStarted
CHECK_DEADLOCK FALSE
