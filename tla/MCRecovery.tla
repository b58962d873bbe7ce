----------------------------- MODULE MCRecovery -----------------------------
(***************************************************************************)
(* Recovery for TLC: one call at a time, two ports, a few journal entries. *)
(***************************************************************************)
EXTENDS Recovery, TLC

CONSTANTS p1, p2, c1

PortSymmetry == Permutations(Resource)
=============================================================================
