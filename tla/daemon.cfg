SPECIFICATION Spec
CONSTANTS
    p1 = p1
    p2 = p2
    n1 = n1
    n2 = n2
    m1 = m1
    m2 = m2
    Proc = {p1, p2}
    Name = {n1, n2}
    Member = {m1, m2}
    MaxGen = 3
SYMMETRY DaemonSymmetry
INVARIANTS
    OneDaemon
    FileIsGood
    OneIdentity
    PeersAreConsumed
PROPERTIES
    RoleIsFinal
