---------------------------- MODULE MCGameGuard ----------------------------
(***************************************************************************)
(* GameGuard for TLC: the three platforms, two subnets, two applications.  *)
(***************************************************************************)
EXTENDS GameGuard, TLC

CONSTANTS s1, s2

SubnetSymmetry == Permutations(Subnet)
=============================================================================
