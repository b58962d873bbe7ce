SPECIFICATION SerialSpec
CONSTANTS
    p1 = p1
    p2 = p2
    a1 = a1
    a2 = a2
    c1 = c1
    c2 = c2
    Resource = {p1, p2}
    Ip = {a1, a2}
    Call = {c1}
    MaxId = 3
SYMMETRY ListenerSymmetry
INVARIANTS
    AdvertisedAtRest
    DisabledIsUnmapped
    MappingsAreJournaled
