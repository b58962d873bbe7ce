SPECIFICATION Spec
CONSTANTS
    p1 = p1
    p2 = p2
    c1 = c1
    Resource = {p1, p2}
    Call = {c1}
    MaxId = 3
    MaxCuts = 2
SYMMETRY PortSymmetry
INVARIANTS
    JournalNamesMappings
    FileIsMap
    NoResurrection
PROPERTIES
    SweepLeavesNone
