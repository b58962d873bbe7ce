-------------------------- MODULE MCInviteLifecycle --------------------------
(* Small instances of InviteLifecycle for TLC. *)
EXTENDS InviteLifecycle, TLC

CONSTANTS i1, i2, i3

\* Ids are drawn at random and never compared but for equality.
InviteSymmetry == Permutations(Invite)
=============================================================================
