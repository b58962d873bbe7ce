---------------------------- MODULE InviteLedger ----------------------------
(***************************************************************************)
(* What the invite store promises, without clock, memory, file or failure  *)
(* (class comment of src/src/invite-lifecycle.ts, lines 75 to 81): an      *)
(* invite that was handed out moves along                                  *)
(*     pending -> consumed | revoked | expired -> forgotten                *)
(* and never back, and its IP is its own until it is closed or forgotten.  *)
(*                                                                         *)
(* One step may move any number of invites: one expireDue() closes all     *)
(* that are due, and one write of the file carries every change that an    *)
(* earlier write failed to carry.                                          *)
(***************************************************************************)
EXTENDS Integers

CONSTANTS Invite, LastHost

VARIABLES
    status,     \* where each invite is
    ip          \* the overlay IP it was handed out with; 0 before

ledgerVars == <<status, ip>>

Host == 2 .. LastHost
Status == {"unissued", "pending", "consumed", "revoked", "expired", "forgotten"}
Closed == {"consumed", "revoked", "expired"}

\* Invites whose IP nobody else may be given.
Holding(st) == {i \in Invite : st[i] \in {"pending", "consumed"}}

\* The ways an invite that was handed out may go in one write: any distance
\* along the machine, never back.
Onward(from) ==
    {from} \cup (IF from = "pending" THEN Closed ELSE {})
           \cup (IF from \in {"pending"} \cup Closed THEN {"forgotten"} ELSE {})

LedgerInit ==
    /\ status = [i \in Invite |-> "unissued"]
    /\ ip = [i \in Invite |-> 0]

\* Hand out i at an IP that nobody holds.
Offer(i) ==
    /\ status[i] = "unissued"
    /\ \E h \in Host :
          /\ \A j \in Holding(status) : ip[j] # h
          /\ ip' = [ip EXCEPT ![i] = h]
    /\ status' = [status EXCEPT ![i] = "pending"]

\* Some invites are consumed, revoked, expired or forgotten.
Advance ==
    /\ status' \in [Invite -> Status]
    /\ \A i \in Invite : status'[i] \in Onward(status[i])
    /\ UNCHANGED ip

LedgerNext == Advance \/ \E i \in Invite : Offer(i)

Spec == LedgerInit /\ [][LedgerNext]_ledgerVars
=============================================================================
