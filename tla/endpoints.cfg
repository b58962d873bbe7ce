SPECIFICATION PeerSpec
CONSTANTS
    h1 = h1
    h2 = h2
    t1 = t1
    t2 = t2
    Host = {h1, h2}
    Lists <- RosterAndDns
    StaleAfter = 2
    InitialBackoff = 1
    MaxBackoff = 2
    MaxFailures = 2
    FallbackWindow = 2
    Tick = {t1, t2}
    MaxWait = 1
    MaxUpdates = 1
INVARIANTS
    ActiveIsProved
    OutageIsMeant
PROPERTIES
    PreviousIsKept
    Reconnects
