CONSTANTS
    i1 = i1
    i2 = i2
    i3 = i3
    Invite = {i1, i2, i3}
    LastHost = 3
    MaxPending = 2
    MaxPerHour = 2
    Hour = 1
    InviteTtl = 2
    Quarantine = 2
    PruneAfter = 2
    MaxTime = 4
SPECIFICATION ReadErrorSpec
SYMMETRY InviteSymmetry
INVARIANTS
    MembersHaveDistinctIPs
CHECK_DEADLOCK FALSE
