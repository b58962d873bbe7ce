------------------------------ MODULE MCDaemon ------------------------------
(* Daemon for TLC: two processes, two names, one member or two.            *)
EXTENDS Daemon, TLC

CONSTANTS p1, p2, n1, n2, m1, m2

DaemonSymmetry == Permutations(Proc) \cup Permutations(Name) \cup Permutations(Member)
=============================================================================
