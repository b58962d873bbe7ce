CONSTANTS
    i1 = i1
    i2 = i2
    i3 = i3
    Invite = {i1, i2, i3}
    LastHost = 4
    MaxPending = 2
    MaxPerHour = 2
    Hour = 1
    InviteTtl = 2
    Quarantine = 2
    PruneAfter = 2
    MaxTime = 3
SPECIFICATION Spec
SYMMETRY InviteSymmetry
INVARIANTS
    TypeOK
    LiveIPsDistinct
    SharedOnlyAfterRetention
    AdmittedOnceInTime
    RevokedNotAdmitted
    Limits
    ToldIsDurable
PROPERTIES
    QuarantineKept
    ImplementsLedger
CHECK_DEADLOCK FALSE
