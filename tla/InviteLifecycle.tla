--------------------------- MODULE InviteLifecycle ---------------------------
(***************************************************************************)
(* The anchor's invite store (src/src/invite-lifecycle.ts) as the daemon   *)
(* drives it (createInvite and importReply of src/src/services.ts).        *)
(*                                                                         *)
(* `mem' is the object's two fields that the properties depend on, `disk'  *)
(* the last snapshot that writeJsonAtomically renamed into place.  Every   *)
(* method runs to its end on the event loop; it changes `mem' first and    *)
(* only then calls persist(), which may throw.  A handler stops at the     *)
(* first throw.  The process may die between any two steps, in particular  *)
(* between the persist of createInvite and the one of bindDigest.          *)
(*                                                                         *)
(* The last group of variables is history: what the rest of the world has  *)
(* been told.  No guard of the program reads it, except that a reply can   *)
(* only exist for an invite that was handed out.                           *)
(***************************************************************************)
EXTENDS Integers, FiniteSets

CONSTANTS
    Invite,         \* invite ids; randomBytes(12) never repeats one
    LastHost,       \* last host number of the subnet; the anchor is host 1
    MaxPending,     \* MAX_PENDING
    MaxPerHour,     \* MAX_INVITES_PER_HOUR
    Hour,           \* the rate window (3600 s in the code)
    InviteTtl,      \* DEFAULT_INVITE_TTL_SEC
    Quarantine,     \* QUARANTINE_SEC
    PruneAfter,     \* PRUNE_AFTER_SEC
    MaxTime         \* bound of the model: the clock stops here

ASSUME InviteFinite == IsFiniteSet(Invite)
ASSUME ParametersAreNat ==
    /\ LastHost \in Nat /\ MaxTime \in Nat
    /\ MaxPending \in Nat /\ MaxPerHour \in Nat
    /\ Hour \in Nat /\ InviteTtl \in Nat \ {0}
    /\ Quarantine \in Nat /\ PruneAfter \in Nat
\* 30 days, 24 hours, 1 hour.
ASSUME RetentionIsLongest == PruneAfter >= Quarantine /\ PruneAfter >= Hour

VARIABLES
    now,        \* the injected clock, in whole units; 0 is before any invite
    mem,        \* this.invites and this.quarantine
    disk,       \* invite-state.json
    binding,    \* the invite between createInvite() and bindDigest(), or None
    minted,     \* history: ids that were ever generated
    offered,    \* history: invites returned to the user, with IP and time
    admitted,   \* history: replies that were accepted, how often and when
    revoked,    \* history: revocations that returned without an error
    released    \* history: when the IP of an offered invite was last released

vars == <<now, mem, disk, binding, minted, offered, admitted, revoked, released>>
history == <<minted, offered, admitted, revoked, released>>

Host == 2 .. LastHost
None == "none"
State == {"absent", "pending", "consumed", "revoked", "expired"}

\* An InviteRecord; a missing map entry is a record in state "absent".
Record == [state : State, ip : Host \cup {0}, issuedAt : Nat, expiresAt : Nat,
           consumedAt : Nat, bound : BOOLEAN]
Absent == [state |-> "absent", ip |-> 0, issuedAt |-> 0, expiresAt |-> 0,
           consumedAt |-> 0, bound |-> FALSE]

Snapshot == [invites : [Invite -> Record], quarantine : [Host -> Nat]]
EmptySnapshot == [invites |-> [i \in Invite |-> Absent],
                  quarantine |-> [h \in Host |-> 0]]

-----------------------------------------------------------------------------
(* Reading a snapshot *)

InState(s, st) == {i \in Invite : s.invites[i].state = st}
Live(s) == {i \in Invite : s.invites[i].state \in {"pending", "consumed"}}

\* Mutants: a consumed invite's IP is forgotten; the scan starts at the anchor;
\* only open invites count for the rate.
UsedIPsPendingOnly(s) == {s.invites[i].ip : i \in InState(s, "pending")}
FreeIPsFromAnchor(s, t) ==
    ((1 .. LastHost) \ {s.invites[i].ip : i \in Live(s)})
        \ {h \in Host : s.quarantine[h] > t}
IssuedLastHourPending(s, t) ==
    {i \in InState(s, "pending") : t - s.invites[i].issuedAt < Hour}

\* usedIPs() and quarantinedIPs(); the anchor's own IP is not a Host.
UsedIPs(s) == {s.invites[i].ip : i \in Live(s)}
QuarantinedIPs(s, t) == {h \in Host : s.quarantine[h] > t}
FreeIPs(s, t) == (Host \ UsedIPs(s)) \ QuarantinedIPs(s, t)

\* allocateIP(): the lowest free host.
AllocateIP(s, t) == CHOOSE h \in FreeIPs(s, t) : \A g \in FreeIPs(s, t) : h <= g

IssuedLastHour(s, t) ==
    {i \in Invite : /\ s.invites[i].state # "absent"
                    /\ t - s.invites[i].issuedAt < Hour}

(* Changing a snapshot *)

\* Mutants: releasing one host drops the other entries; an invite is due
\* whatever its state; retention counts from the issue.
ReleaseIPsOnly(q, H, t) == [h \in Host |-> IF h \in H THEN t + Quarantine ELSE 0]
DueAnyState(s, t) == {i \in Live(s) : t >= s.invites[i].expiresAt}
TerminalAtIssue(r) == r.issuedAt

\* releaseIP() of every host in H: drop what has run out, restart the rest.
ReleaseIPs(q, H, t) ==
    [h \in Host |-> IF h \in H THEN t + Quarantine
                    ELSE IF q[h] > t THEN q[h] ELSE 0]

Due(s, t) == {i \in Invite : /\ s.invites[i].state = "pending"
                             /\ t >= s.invites[i].expiresAt}

\* The loop of expireDue().
Expired(s, t) ==
    IF Due(s, t) = {} THEN s
    ELSE [invites |-> [i \in Invite |->
                         IF i \in Due(s, t)
                         THEN [s.invites[i] EXCEPT !.state = "expired"]
                         ELSE s.invites[i]],
          quarantine |-> ReleaseIPs(s.quarantine,
                                    {s.invites[i].ip : i \in Due(s, t)}, t)]

WithRecord(s, i, r) == [s EXCEPT !.invites[i] = r]

NewRecord(h, t) ==
    [state |-> "pending", ip |-> h, issuedAt |-> t, expiresAt |-> t + InviteTtl,
     consumedAt |-> 0, bound |-> FALSE]

ConsumedRecord(r, t) == [r EXCEPT !.state = "consumed", !.consumedAt = t]

Revoke(s, i, t) ==
    [invites |-> [s.invites EXCEPT ![i].state = "revoked"],
     quarantine |-> ReleaseIPs(s.quarantine, {s.invites[i].ip}, t)]

\* prune(): terminalAt is consumedAt ?? expiresAt, also for a revoked record.
TerminalAt(r) == IF r.state = "consumed" THEN r.consumedAt ELSE r.expiresAt
Prunable(s, t) ==
    {i \in Invite : /\ s.invites[i].state \notin {"absent", "pending"}
                    /\ t - TerminalAt(s.invites[i]) >= PruneAfter}
Pruned(s, t) ==
    [invites |-> [i \in Invite |-> IF i \in Prunable(s, t) THEN Absent
                                   ELSE s.invites[i]],
     quarantine |-> ReleaseIPs(s.quarantine, {}, t)]

-----------------------------------------------------------------------------
(* Steps *)

\* persist() of snapshot s over the file d: renamed into place, or it throws.
Saved(s) == disk' = s
SaveThrows(d) == disk' = d

\* What the file holds once the leading expireDue() of a handler has returned.
AfterExpiry(s) == IF Due(s, now) = {} THEN disk ELSE Expired(s, now)

\* History: the hosts of offered invites in I are released now.
Noted(s, I, off, rel, t) ==
    [h \in Host |-> IF \E i \in I : off[i].at > 0 /\ s.invites[i].ip = h
                    THEN t ELSE rel[h]]
NoteReleased(I) == released' = Noted(mem, I, offered, released, now)

Init ==
    /\ now = 1
    /\ mem = EmptySnapshot /\ disk = EmptySnapshot
    /\ binding = None
    /\ minted = {}
    /\ offered = [i \in Invite |-> [ip |-> 0, at |-> 0]]
    /\ admitted = [i \in Invite |-> [times |-> 0, at |-> 0]]
    /\ revoked = {}
    /\ released = [h \in Host |-> 0]

Idle == binding = None

\* expireDue() on its own, or in a handler that then refuses its request; its
\* persist may throw, and then the handler that called it is over as well.
ExpireDue ==
    /\ Idle
    /\ Due(mem, now) # {}
    /\ mem' = Expired(mem, now)
    /\ Saved(Expired(mem, now)) \/ SaveThrows(disk)
    /\ NoteReleased(Due(mem, now))
    /\ UNCHANGED <<now, binding, minted, offered, admitted, revoked>>

\* countPending() >= MAX_PENDING
AtPendingLimit(s) == Cardinality(InState(s, "pending")) >= MaxPending

\* createInvite(): when the last persist throws, the record stays in memory
\* and the caller never gets to bindDigest().
CreateInvite(i) ==
    LET s == Expired(mem, now)
        made == WithRecord(s, i, NewRecord(AllocateIP(s, now), now))
    IN  /\ Idle
        /\ i \notin minted
        /\ ~ AtPendingLimit(s)
        /\ Cardinality(IssuedLastHour(s, now)) < MaxPerHour
        /\ FreeIPs(s, now) # {}
        /\ mem' = made
        /\ \/ Saved(made) /\ binding' = i
           \/ SaveThrows(AfterExpiry(mem)) /\ binding' = None
        /\ minted' = minted \cup {i}
        /\ NoteReleased(Due(mem, now))
        /\ UNCHANGED <<now, offered, admitted, revoked>>

\* Mutants of the next three actions: the throw of persist() is swallowed.
BindDigestUnsaved ==
    LET r == [mem.invites[binding] EXCEPT !.bound = TRUE]
    IN  /\ binding # None
        /\ mem' = WithRecord(mem, binding, r)
        /\ Saved(mem') \/ SaveThrows(disk)
        /\ offered' = [offered EXCEPT ![binding] = [ip |-> r.ip, at |-> r.issuedAt]]
        /\ binding' = None
        /\ UNCHANGED <<now, minted, admitted, revoked, released>>
ConsumeByDigestUnsaved(i) ==
    LET s == Expired(mem, now)
    IN  /\ Idle /\ offered[i].at > 0
        /\ s.invites[i].state = "pending" /\ s.invites[i].bound
        /\ mem' = WithRecord(s, i, ConsumedRecord(s.invites[i], now))
        /\ Saved(mem') \/ SaveThrows(disk)
        /\ admitted' = [admitted EXCEPT ![i] = [times |-> @.times + 1, at |-> now]]
        /\ NoteReleased(Due(mem, now))
        /\ UNCHANGED <<now, binding, minted, offered, revoked>>
RevokeInviteUnsaved(i) ==
    /\ Idle /\ mem.invites[i].state = "pending"
    /\ mem' = Revoke(mem, i, now)
    /\ Saved(mem') \/ SaveThrows(disk)
    /\ revoked' = revoked \cup {i}
    /\ NoteReleased({i})
    /\ UNCHANGED <<now, binding, minted, offered, admitted>>

\* bindDigest(), after which services.createInvite returns the invite.
BindDigest ==
    LET i == binding
        r == [mem.invites[i] EXCEPT !.bound = TRUE]
        s == WithRecord(mem, i, r)
    IN  /\ binding # None
        /\ mem' = s
        /\ \/ /\ Saved(s)
              /\ offered' = [offered EXCEPT ![i] = [ip |-> r.ip, at |-> r.issuedAt]]
           \/ /\ SaveThrows(disk)
              /\ offered' = offered
        /\ binding' = None
        /\ UNCHANGED <<now, minted, admitted, revoked, released>>

\* consumeByDigest() for a reply to invite i; importReply then admits the peer.
\* Its input is a reply to an invite that a user was given, with the digest of
\* that invite: `offered' and `bound' say so, and are no checks of the code,
\* which takes any digest (validateReplyPayload() wants one that is not empty).
ConsumeByDigest(i) ==
    LET s == Expired(mem, now)
        done == WithRecord(s, i, ConsumedRecord(s.invites[i], now))
    IN  /\ Idle
        /\ offered[i].at > 0
        /\ s.invites[i].state = "pending"
        /\ s.invites[i].bound
        /\ mem' = done
        /\ \/ /\ Saved(done)
              /\ admitted' = [admitted EXCEPT ![i] = [times |-> @.times + 1, at |-> now]]
           \/ /\ SaveThrows(AfterExpiry(mem))
              /\ admitted' = admitted
        /\ NoteReleased(Due(mem, now))
        /\ UNCHANGED <<now, binding, minted, offered, revoked>>

\* revoke(); it does not call expireDue() first.
RevokeInvite(i) ==
    /\ Idle
    /\ mem.invites[i].state = "pending"
    /\ mem' = Revoke(mem, i, now)
    /\ \/ Saved(Revoke(mem, i, now)) /\ revoked' = revoked \cup {i}
       \/ SaveThrows(disk) /\ revoked' = revoked
    /\ NoteReleased({i})
    /\ UNCHANGED <<now, binding, minted, offered, admitted>>

\* prune(): the file is only written when a record went.
Prune ==
    /\ Idle
    /\ mem' = Pruned(mem, now)
    /\ IF Prunable(mem, now) = {} THEN disk' = disk
       ELSE Saved(Pruned(mem, now)) \/ SaveThrows(disk)
    /\ UNCHANGED <<now, binding, history>>

\* storeIdempotency() writes the whole snapshot, whatever it holds by now.
StoreIdempotency ==
    /\ Idle
    /\ Saved(mem)
    /\ UNCHANGED <<now, mem, binding, history>>

\* The process dies and comes back: a new object loads the file.
Restart ==
    /\ mem' = disk
    /\ binding' = None
    /\ UNCHANGED <<now, disk, history>>

\* ensureInviteLifecycle() of services.ts keeps the new object even if its
\* load() threw: the next request finds it, empty, and works on it.
StartUnloaded ==
    /\ mem' = EmptySnapshot
    /\ binding' = None
    /\ UNCHANGED <<now, disk, history>>

Tick ==
    /\ now < MaxTime
    /\ now' = now + 1
    /\ UNCHANGED <<mem, disk, binding, history>>

\* What the daemon calls; nothing in src/ outside the tests calls prune() or
\* storeIdempotency().
DaemonNext ==
    \/ \E i \in Invite : CreateInvite(i) \/ ConsumeByDigest(i) \/ RevokeInvite(i)
    \/ ExpireDue \/ BindDigest \/ Restart \/ Tick

Next == DaemonNext \/ Prune \/ StoreIdempotency

\* The daemon where reading invite-state.json may fail once in a while.
ReadErrorNext == DaemonNext \/ StartUnloaded

ReadErrorSpec == Init /\ [][ReadErrorNext]_vars
DaemonSpec == Init /\ [][DaemonNext]_vars
Spec == Init /\ [][Next]_vars

-----------------------------------------------------------------------------
(* Properties *)

OfferedRecord == [ip : Nat, at : Nat]
AdmittedRecord == [times : Nat, at : Nat]

\* Every variable has its type; in particular a record always holds one of the
\* five states and an IP that came out of allocateIP().
TypeOK ==
    /\ now \in Nat
    /\ mem \in Snapshot
    /\ disk \in Snapshot
    /\ binding \in Invite \cup {None}
    /\ minted \in SUBSET Invite
    /\ offered \in [Invite -> OfferedRecord]
    /\ admitted \in [Invite -> AdmittedRecord]
    /\ revoked \in SUBSET Invite
    /\ released \in [Host -> Nat]

\* No overlay IP is held by two live invites, neither in memory nor in the
\* file a restart would load, whatever persists failed in between (usedIPs()
\* and allocateIP()).
DistinctLiveIPs(s) ==
    \A i, j \in Live(s) : s.invites[i].ip = s.invites[j].ip => i = j
LiveIPsDistinct == DistinctLiveIPs(mem) /\ DistinctLiveIPs(disk)

\* Two members that were both admitted share an overlay IP only if the store
\* forgot the first one: its record was at the end of the retention window
\* (prune()) before the second was admitted.
SharedOnlyAfterRetention ==
    \A i, j \in Invite :
        /\ i # j
        /\ admitted[i].times > 0 /\ admitted[j].times > 0
        /\ offered[i].ip = offered[j].ip
        => \/ admitted[i].at - admitted[j].at >= PruneAfter
           \/ admitted[j].at - admitted[i].at >= PruneAfter

\* An invite admits at most one reply, across failed persists, restarts and
\* prunes (the 409 of consumeByDigest()).
AdmittedAtMostOnce == \A i \in Invite : admitted[i].times <= 1

\* Nobody is admitted on an invite once its lifetime is over (the expireDue()
\* at the head of consumeByDigest()).
AdmittedInTime ==
    \A i \in Invite :
        admitted[i].times > 0 => admitted[i].at < offered[i].at + InviteTtl

\* The two together: who holds an invite is admitted once and in time, or not.
AdmittedOnceInTime == AdmittedAtMostOnce /\ AdmittedInTime

\* A revocation that was confirmed to the user holds: the invite has not
\* admitted and never will admit a member, also after a restart.
RevokedNotAdmitted == \A i \in revoked : admitted[i].times = 0

\* Of the invites handed out, at most MaxPerHour lie within any one window,
\* although failed persists and restarts take records away from the count.
HourlyLimit ==
    Cardinality({i \in Invite : offered[i].at > 0 /\ now - offered[i].at < Hour})
        <= MaxPerHour

\* At most MaxPending invites can still be answered.
PendingLimit ==
    /\ Cardinality(InState(mem, "pending")) <= MaxPending
    /\ Cardinality(InState(disk, "pending")) <= MaxPending

\* Both limits of createInvite().
Limits == HourlyLimit /\ PendingLimit

\* The IP of an invite that was handed out is not given to another one within
\* the quarantine that starts when it was last released (releaseIP()), even if
\* the release itself never reached the file.
QuarantineKept ==
    [][\A i \in minted' \ minted :
          LET h == mem'.invites[i].ip
          IN  released[h] > 0 => now - released[h] >= Quarantine]_vars

\* What was ever handed out, admitted or revoked is still what the file says,
\* so a restart loses nothing that somebody was told.
ToldIsDurable ==
    \A i \in Invite :
        LET r == disk.invites[i]
            forgotten(t) == r.state = "absent" /\ now - t >= PruneAfter
        IN  /\ admitted[i].times > 0 =>
                  \/ r.state = "consumed" /\ r.consumedAt = admitted[i].at
                  \/ forgotten(admitted[i].at)
            /\ i \in revoked /\ offered[i].at > 0 =>
                  r.state = "revoked" \/ forgotten(offered[i].at)
            /\ offered[i].at > 0 =>
                  \/ r.state # "absent" /\ r.bound /\ r.ip = offered[i].ip
                  \/ forgotten(offered[i].at)

\* Two members never hold one overlay IP: what "collision-free" promises.
\* The daemon as it is wired keeps it, a caller of prune() does not.
MembersHaveDistinctIPs ==
    \A i, j \in Invite :
        /\ admitted[i].times > 0 /\ admitted[j].times > 0
        /\ offered[i].ip = offered[j].ip
        => i = j

-----------------------------------------------------------------------------
(* The inductive invariant: what holds of a snapshot by itself, and what it   *)
(* must still say of everything the world was told.  Both hold of memory and  *)
(* of the file, because every write copies one and every restart the other.   *)

Coherent(s, t, ids) ==
    /\ DistinctLiveIPs(s)
    /\ Cardinality(IssuedLastHour(s, t)) <= MaxPerHour
    /\ Cardinality(InState(s, "pending")) <= MaxPending
    /\ \A i \in Invite :
          LET r == s.invites[i]
          IN  r.state # "absent" =>
                 /\ i \in ids
                 /\ r.ip \in Host
                 /\ r.issuedAt \in 1 .. t
                 /\ r.expiresAt = r.issuedAt + InviteTtl
                 /\ r.state = "consumed" =>
                       /\ r.consumedAt \in r.issuedAt .. t
                       /\ r.consumedAt < r.expiresAt

Remembers(s, t, off, adm, rev) ==
    \A i \in Invite :
        LET r == s.invites[i]
        IN  /\ off[i].at > 0 =>
                  \/ /\ r.state # "absent" /\ r.bound
                     /\ r.ip = off[i].ip /\ r.issuedAt = off[i].at
                  \/ r.state = "absent" /\ t - off[i].at >= PruneAfter
            /\ adm[i].times > 0 =>
                  \/ r.state = "consumed" /\ r.consumedAt = adm[i].at
                  \/ r.state = "absent" /\ t - adm[i].at >= PruneAfter
            /\ i \in rev => r.state \in {"revoked", "absent"}

\* A host released within the quarantine is in it, or (when the release did
\* not reach the file) still held there by an invite that was handed out.
KeepsQuarantine(s, t, off, rel) ==
    \A h \in Host :
        rel[h] > 0 /\ t - rel[h] < Quarantine =>
           \/ s.quarantine[h] >= rel[h] + Quarantine
           \/ \E i \in Invite :
                 /\ off[i].at > 0 /\ s.invites[i].ip = h
                 /\ \/ s.invites[i].state = "pending"
                    \/ /\ s.invites[i].state = "consumed"
                       /\ s.invites[i].consumedAt >= rel[h]

Sound(s) ==
    /\ Coherent(s, now, minted)
    /\ Remembers(s, now, offered, admitted, revoked)
    /\ KeepsQuarantine(s, now, offered, released)

History ==
    /\ now > 0
    /\ binding # None =>
          /\ mem.invites[binding].state # "absent"
          /\ offered[binding].at = 0
    /\ \A h \in Host : released[h] <= now
    /\ \A i \in Invite :
          /\ offered[i].at > 0 => i \in minted /\ offered[i].at <= now
          /\ i \in revoked => i \in minted
          /\ admitted[i].times > 0 =>
                offered[i].at > 0 /\ admitted[i].at <= now
          /\ offered[i].at > 0 /\ mem.invites[i].state = "pending" =>
                disk.invites[i].state = "pending"

\* IInv is inductive, and the safety properties above follow from it.
IInv ==
    /\ Sound(mem) /\ Sound(disk)
    /\ History
    /\ SharedOnlyAfterRetention
    /\ AdmittedAtMostOnce /\ AdmittedInTime /\ RevokedNotAdmitted

-----------------------------------------------------------------------------
(* What the file shows of an invite that was handed out follows the state     *)
(* machine of InviteLedger, through crashes and failed persists.              *)

LedgerStatus ==
    [i \in Invite |-> IF offered[i].at = 0 THEN "unissued"
                      ELSE IF disk.invites[i].state = "absent" THEN "forgotten"
                      ELSE disk.invites[i].state]
LedgerIP == [i \in Invite |-> offered[i].ip]

Ledger == INSTANCE InviteLedger WITH status <- LedgerStatus, ip <- LedgerIP

\* The durable store implements the ledger.
ImplementsLedger == Ledger!Spec
=============================================================================
