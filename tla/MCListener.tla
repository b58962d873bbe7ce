----------------------------- MODULE MCListener -----------------------------
(***************************************************************************)
(* Listener for TLC: two ports, two addresses, one or two calls.           *)
(***************************************************************************)
EXTENDS Listener, TLC

CONSTANTS p1, p2, a1, a2, c1, c2

ListenerSymmetry ==
    Permutations(Resource) \cup Permutations(Ip) \cup Permutations(Call)
=============================================================================
