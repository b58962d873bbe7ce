SPECIFICATION Spec
CONSTANTS
    s1 = s1
    s2 = s2
    Platform = {"linux", "darwin", "win32"}
    Subnet = {s1, s2}
    Resource = {"tcp", "udp"}
    MaxId = 4
SYMMETRY SubnetSymmetry
INVARIANTS
    AppliedIsRestricted
    OverlayPasses
    RulesAreJournaled
