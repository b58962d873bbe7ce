---------------------------- MODULE MCApiServer ----------------------------
(* ApiServer for TLC: one session, two requests at a time, two streams.    *)
EXTENDS ApiServer, TLC

CONSTANTS s1, c1, c2, k1, k2, b1, b2, x1, x2

ApiSymmetry ==
    Permutations(Conn) \cup Permutations(Key) \cup Permutations(Body) \cup Permutations(Stream)
=============================================================================
