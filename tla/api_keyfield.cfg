SPECIFICATION Spec
CONSTANTS
    s1 = s1
    c1 = c1
    c2 = c2
    k1 = k1
    k2 = k2
    b1 = b1
    b2 = b2
    x1 = x1
    x2 = x2
    Session = {s1}
    Conn = {c1, c2}
    Key = {k1, k2}
    Body = {b1, b2}
    Stream = {x1, x2}
    MaxStreams = 1
    MaxRequests = 2
    Window = 2
    SessionTtl = 2
    IdempotencyTtl = 2
    MaxTime = 4
SYMMETRY ApiSymmetry
PROPERTIES
    KeyIsOwn
CHECK_DEADLOCK FALSE
