SPECIFICATION AccountsSpec
CONSTANTS
    u1 = u1
    u2 = u2
    Users = {u1, u2}
    e1 = e1
    e2 = e2
    Emails = {e1, e2}
    Nobody = Nobody
    Erased = Erased
    Faults = {}
    MaxRequests = 4
    MaxPlaylists = 1
SYMMETRY Symmetry
INVARIANT OwnersCanDelete
CHECK_DEADLOCK FALSE
