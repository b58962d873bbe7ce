SPECIFICATION FairSpec
CONSTANTS
    anc = anc
    m1 = m1
    m2 = m2
    ipA = ipA
    ip1 = ip1
    ip2 = ip2
    e1 = e1
    e2 = e2
    e3 = e3
    c1 = c1
    c2 = c2
    Key = {anc, m1, m2}
    IP = {ipA, ip1, ip2}
    Subnet = "subnet"
    Endpoint = {e1, e2, e3}
    Rosters <- MCRosters
    Me = m1
    Listens = FALSE
    Strange <- MCStrange
    Spelling <- Spellings
    Caller = {c1, c2}
    MaxCalls = 3
INVARIANTS
    TypeOK
    OneAtATime
    SettledAgrees
    AppliedFits
PROPERTIES
    CallsReturn
