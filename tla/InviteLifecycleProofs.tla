------------------------ MODULE InviteLifecycleProofs ------------------------
(***************************************************************************)
(* Theorems about InviteLifecycle, for any set of invites and any values of *)
(* the limits that satisfy the module's assumptions.                        *)
(***************************************************************************)
EXTENDS InviteLifecycle, NaturalsInduction, FiniteSetTheorems, TLAPS

-----------------------------------------------------------------------------
(* What the operators on snapshots return *)

\* allocateIP() returns a free host whenever there is one.
LEMMA AllocateIPIsFree ==
    ASSUME NEW s, NEW t, FreeIPs(s, t) # {}
    PROVE  AllocateIP(s, t) \in FreeIPs(s, t)
<1>1. FreeIPs(s, t) \subseteq Nat
    BY ParametersAreNat DEF FreeIPs, Host
<1>2. PICK h \in FreeIPs(s, t) : \A g \in FreeIPs(s, t) : ~ (<<g, h>> \in OpToRel(<, Nat))
    BY <1>1, NatLessThanWellFounded, WFMin
<1>3. ASSUME NEW g \in FreeIPs(s, t) PROVE h <= g
  <2>1. <<g, h>> \in OpToRel(<, Nat) <=> g < h
      BY <1>1 DEF OpToRel
  <2>2. h \in Nat /\ g \in Nat
      BY <1>1
  <2>3. ~ (<<g, h>> \in OpToRel(<, Nat))
      BY <1>2
  <2>4. ~ (g < h)
      BY <2>1, <2>3
  <2>5. QED
      BY <2>2, <2>4
<1>4. QED
    BY <1>2, <1>3 DEF AllocateIP

LEMMA AllocateIPIsHost ==
    ASSUME NEW s, NEW t, FreeIPs(s, t) # {}
    PROVE  /\ AllocateIP(s, t) \in Host
           /\ AllocateIP(s, t) \notin UsedIPs(s)
           /\ ~ (s.quarantine[AllocateIP(s, t)] > t)
    BY AllocateIPIsFree DEF FreeIPs, QuarantinedIPs

\* releaseIP() keeps the list well formed.
LEMMA ReleaseIPsType ==
    ASSUME NEW t \in Nat, NEW q \in [Host -> Nat], NEW H
    PROVE  ReleaseIPs(q, H, t) \in [Host -> Nat]
    BY ParametersAreNat DEF ReleaseIPs

\* expireDue() changes nothing but the state of the due records and their IPs.
LEMMA ExpiredType ==
    ASSUME NEW t \in Nat, NEW s \in Snapshot
    PROVE  Expired(s, t) \in Snapshot
<1>1. CASE Due(s, t) = {}
    BY <1>1 DEF Expired
<1>2. CASE Due(s, t) # {}
  <2>1. \A i \in Invite : [s.invites[i] EXCEPT !.state = "expired"] \in Record
    BY DEF Snapshot, Record, State
  <2>2. [i \in Invite |-> IF i \in Due(s, t)
                          THEN [s.invites[i] EXCEPT !.state = "expired"]
                          ELSE s.invites[i]] \in [Invite -> Record]
    BY <2>1 DEF Snapshot
  <2>3. ReleaseIPs(s.quarantine, {s.invites[i].ip : i \in Due(s, t)}, t) \in [Host -> Nat]
    BY ReleaseIPsType DEF Snapshot
  <2>4. QED
    BY <1>2, <2>2, <2>3 DEF Expired, Snapshot
<1>3. QED
    BY <1>1, <1>2

LEMMA WithRecordType ==
    ASSUME NEW s \in Snapshot, NEW i \in Invite, NEW r \in Record
    PROVE  WithRecord(s, i, r) \in Snapshot
    BY DEF WithRecord, Snapshot

LEMMA RevokeType ==
    ASSUME NEW t \in Nat, NEW s \in Snapshot, NEW i \in Invite
    PROVE  Revoke(s, i, t) \in Snapshot
<1>1. [s.invites EXCEPT ![i].state = "revoked"] \in [Invite -> Record]
    BY DEF Snapshot, Record, State
<1>2. ReleaseIPs(s.quarantine, {s.invites[i].ip}, t) \in [Host -> Nat]
    BY ReleaseIPsType DEF Snapshot
<1>3. QED
    BY <1>1, <1>2 DEF Revoke, Snapshot

LEMMA PrunedType ==
    ASSUME NEW t \in Nat, NEW s \in Snapshot
    PROVE  Pruned(s, t) \in Snapshot
<1>1. Absent \in Record
    BY DEF Absent, Record, State
<1>2. [i \in Invite |-> IF i \in Prunable(s, t) THEN Absent ELSE s.invites[i]]
         \in [Invite -> Record]
    BY <1>1 DEF Snapshot
<1>3. ReleaseIPs(s.quarantine, {}, t) \in [Host -> Nat]
    BY ReleaseIPsType DEF Snapshot
<1>4. QED
    BY <1>2, <1>3 DEF Pruned, Snapshot

LEMMA NewRecordType ==
    ASSUME NEW t \in Nat, NEW h \in Host
    PROVE  NewRecord(h, t) \in Record
    BY ParametersAreNat DEF NewRecord, Record, State

LEMMA ConsumedRecordType ==
    ASSUME NEW t \in Nat, NEW r \in Record
    PROVE  ConsumedRecord(r, t) \in Record
    BY DEF ConsumedRecord, Record, State

LEMMA NoteReleasedType ==
    ASSUME now \in Nat, released \in [Host -> Nat], NEW I, NoteReleased(I)
    PROVE  released' \in [Host -> Nat]
    BY DEF NoteReleased, Noted

-----------------------------------------------------------------------------
(* Types *)

LEMMA InitType == Init => TypeOK
<1> SUFFICES ASSUME Init PROVE TypeOK
    OBVIOUS
<1>1. EmptySnapshot \in Snapshot
    BY DEF EmptySnapshot, Snapshot, Record, State, Absent
<1>2. QED
    BY <1>1 DEF Init, TypeOK, OfferedRecord, AdmittedRecord, None

LEMMA NextType == TypeOK /\ [Next]_vars => TypeOK'
<1> SUFFICES ASSUME TypeOK, [Next]_vars PROVE TypeOK'
    OBVIOUS
<1>t. now \in Nat /\ mem \in Snapshot /\ disk \in Snapshot /\ released \in [Host -> Nat]
    BY DEF TypeOK
<1>e. Expired(mem, now) \in Snapshot /\ AfterExpiry(mem) \in Snapshot
    BY <1>t, ExpiredType DEF AfterExpiry
<1>1. ASSUME NEW i \in Invite, CreateInvite(i) PROVE TypeOK'
  <2> DEFINE s == Expired(mem, now)
  <2> DEFINE made == WithRecord(s, i, NewRecord(AllocateIP(s, now), now))
  <2>1. made \in Snapshot
    BY <1>1, <1>t, <1>e, AllocateIPIsHost, NewRecordType, WithRecordType DEF CreateInvite
  <2>2. released' \in [Host -> Nat]
    BY <1>1, <1>t, NoteReleasedType DEF CreateInvite
  <2>3. QED
    BY <1>1, <1>e, <2>1, <2>2 DEF CreateInvite, TypeOK, Saved, SaveThrows
<1>2. ASSUME NEW i \in Invite, ConsumeByDigest(i) PROVE TypeOK'
  <2> DEFINE s == Expired(mem, now)
  <2> DEFINE done == WithRecord(s, i, ConsumedRecord(s.invites[i], now))
  <2>1. ConsumedRecord(s.invites[i], now) \in Record
    BY <1>t, <1>e, ConsumedRecordType DEF Snapshot
  <2>2. done \in Snapshot
    BY <1>e, <2>1, WithRecordType
  <2>3. released' \in [Host -> Nat]
    BY <1>2, <1>t, NoteReleasedType DEF ConsumeByDigest
  <2>4. [admitted EXCEPT ![i] = [times |-> @.times + 1, at |-> now]]
           \in [Invite -> AdmittedRecord]
    BY DEF TypeOK, AdmittedRecord
  <2>5. QED
    BY <1>2, <1>e, <2>2, <2>3, <2>4 DEF ConsumeByDigest, TypeOK, Saved, SaveThrows
<1>3. ASSUME NEW i \in Invite, RevokeInvite(i) PROVE TypeOK'
  <2>1. released' \in [Host -> Nat]
    BY <1>3, <1>t, NoteReleasedType DEF RevokeInvite
  <2>2. Revoke(mem, i, now) \in Snapshot
    BY <1>t, RevokeType
  <2>3. QED
    BY <1>3, <2>1, <2>2 DEF RevokeInvite, TypeOK, Saved, SaveThrows
<1>4. CASE ExpireDue
  <2>1. released' \in [Host -> Nat]
    BY <1>4, <1>t, NoteReleasedType DEF ExpireDue
  <2>2. QED
    BY <1>4, <1>e, <2>1 DEF ExpireDue, TypeOK, Saved, SaveThrows
<1>5. CASE BindDigest
  <2> DEFINE r == [mem.invites[binding] EXCEPT !.bound = TRUE]
  <2>0. binding \in Invite
    BY <1>5 DEF BindDigest, TypeOK
  <2>1. r \in Record
    BY <1>t, <2>0 DEF Snapshot, Record
  <2>2. WithRecord(mem, binding, r) \in Snapshot
    BY <1>t, <2>0, <2>1, WithRecordType
  <2>3. [ip |-> r.ip, at |-> r.issuedAt] \in OfferedRecord
    BY <2>1, ParametersAreNat DEF OfferedRecord, Record, Host
  <2>4. QED
    BY <1>5, <2>2, <2>3 DEF BindDigest, TypeOK, Saved, SaveThrows
<1>6. CASE Restart
    BY <1>6 DEF Restart, TypeOK, history
<1>7. CASE Tick
    BY <1>7 DEF Tick, TypeOK, history
<1>8. CASE Prune
  <2>1. Pruned(mem, now) \in Snapshot
    BY <1>t, PrunedType
  <2>2. QED
    BY <1>8, <2>1 DEF Prune, TypeOK, history, Saved, SaveThrows
<1>9. CASE StoreIdempotency
    BY <1>9 DEF StoreIdempotency, TypeOK, history, Saved
<1>10. CASE UNCHANGED vars
    BY <1>10 DEF vars, TypeOK
<1>11. QED
    BY <1>1, <1>2, <1>3, <1>4, <1>5, <1>6, <1>7, <1>8, <1>9, <1>10 DEF Next, DaemonNext

\* Every reachable state of the store is well typed: allocateIP() never hands
\* out a number outside the subnet's hosts, whatever the sizes and limits.
THEOREM TypeCorrect == Spec => []TypeOK
<1>1. Init => TypeOK
    BY InitType
<1>2. TypeOK /\ [Next]_vars => TypeOK'
    BY NextType
<1>3. QED
    BY <1>1, <1>2, PTL DEF Spec

-----------------------------------------------------------------------------
(* Closing invites: expireDue() and revoke() *)

\* u is s with some pending invites expired or revoked.
Closes(s, u) ==
    \A i \in Invite :
        LET r == s.invites[i]
            c == u.invites[i]
        IN  /\ c.ip = r.ip /\ c.issuedAt = r.issuedAt /\ c.expiresAt = r.expiresAt
            /\ c.consumedAt = r.consumedAt /\ c.bound = r.bound
            /\ \/ c.state = r.state
               \/ r.state = "pending" /\ c.state \in {"expired", "revoked"}

\* expireDue() reads as: the due records become expired, the others stay.
LEMMA ExpiredStates ==
    ASSUME NEW t \in Nat, NEW s \in Snapshot, NEW i \in Invite
    PROVE  Expired(s, t).invites[i].state =
              IF i \in Due(s, t) THEN "expired" ELSE s.invites[i].state
    BY DEF Expired, Snapshot, Record

LEMMA ExpiredCloses ==
    ASSUME NEW t \in Nat, NEW s \in Snapshot
    PROVE  Closes(s, Expired(s, t))
    BY DEF Closes, Expired, Due, Snapshot, Record

LEMMA RevokeCloses ==
    ASSUME NEW t \in Nat, NEW s \in Snapshot, NEW i \in Invite,
           s.invites[i].state = "pending"
    PROVE  Closes(s, Revoke(s, i, t))
    BY DEF Closes, Revoke, Snapshot, Record

\* A subset of the invites is finite, and no larger than its superset.
LEMMA CountSubset ==
    ASSUME NEW A \in SUBSET Invite, NEW B \in SUBSET A
    PROVE  /\ Cardinality(A) \in Nat /\ Cardinality(B) \in Nat
           /\ Cardinality(B) <= Cardinality(A)
<1>1. IsFiniteSet(A)
    BY InviteFinite, FS_Subset
<1>2. IsFiniteSet(B) /\ Cardinality(B) <= Cardinality(A)
    BY <1>1, FS_Subset
<1>3. QED
    BY <1>1, <1>2, FS_CardinalityType

LEMMA CountAdd ==
    ASSUME NEW A \in SUBSET Invite, NEW i, NEW n \in Nat,
           Cardinality(A) < n
    PROVE  Cardinality(A \cup {i}) <= n
<1>1. IsFiniteSet(A)
    BY InviteFinite, FS_Subset
<1>2. Cardinality(A) \in Nat
    BY <1>1, FS_CardinalityType
<1>3. Cardinality(A \cup {i}) = IF i \in A THEN Cardinality(A) ELSE Cardinality(A) + 1
    BY <1>1, FS_AddElement
<1>4. QED
    BY <1>2, <1>3

LEMMA ClosesCoherent ==
    ASSUME NEW s \in Snapshot, NEW u \in Snapshot, NEW t \in Nat, NEW ids,
           Coherent(s, t, ids), Closes(s, u)
    PROVE  Coherent(u, t, ids)
<1>1. DistinctLiveIPs(u)
    BY DEF Coherent, Closes, DistinctLiveIPs, Live
<1>2. IssuedLastHour(u, t) = IssuedLastHour(s, t)
    BY DEF Closes, IssuedLastHour
<1>3. InState(u, "pending") \subseteq InState(s, "pending")
    BY DEF Closes, InState
<1>4. Cardinality(InState(u, "pending")) <= MaxPending
  <2>1. InState(s, "pending") \subseteq Invite
    BY DEF InState
  <2>2. QED
    BY <1>3, <2>1, CountSubset, ParametersAreNat DEF Coherent
<1>5. QED
    BY <1>1, <1>2, <1>4 DEF Coherent, Closes

LEMMA ExpiredRemembers ==
    ASSUME NEW s \in Snapshot, NEW t \in Nat, NEW off, NEW adm, NEW rev,
           Remembers(s, t, off, adm, rev)
    PROVE  Remembers(Expired(s, t), t, off, adm, rev)
<1>1. Closes(s, Expired(s, t))
    BY ExpiredCloses
<1>2. QED
    BY <1>1 DEF Closes, Remembers

LEMMA RevokeRemembers ==
    ASSUME NEW s \in Snapshot, NEW t \in Nat, NEW off, NEW adm, NEW rev,
           NEW i \in Invite, s.invites[i].state = "pending",
           Remembers(s, t, off, adm, rev)
    PROVE  Remembers(Revoke(s, i, t), t, off, adm, rev \cup {i})
<1>1. Closes(s, Revoke(s, i, t))
    BY RevokeCloses
<1>2. Revoke(s, i, t).invites[i].state = "revoked"
    BY DEF Revoke, Snapshot, Record
<1>3. QED
    BY <1>1, <1>2 DEF Closes, Remembers

-----------------------------------------------------------------------------
(* Adding and changing one record: createInvite(), bindDigest(), consume *)

LEMMA WithRecordReads ==
    ASSUME NEW s \in Snapshot, NEW i \in Invite, NEW r
    PROVE  /\ WithRecord(s, i, r).quarantine = s.quarantine
           /\ WithRecord(s, i, r).invites[i] = r
           /\ \A j \in Invite \ {i} : WithRecord(s, i, r).invites[j] = s.invites[j]
    BY DEF WithRecord, Snapshot

LEMMA CreateCoherent ==
    ASSUME NEW s \in Snapshot, NEW t \in Nat \ {0}, NEW ids, Coherent(s, t, ids),
           NEW i \in Invite, i \notin ids,
           NEW h \in Host, h \notin UsedIPs(s),
           ~ AtPendingLimit(s), Cardinality(IssuedLastHour(s, t)) < MaxPerHour
    PROVE  Coherent(WithRecord(s, i, NewRecord(h, t)), t, ids \cup {i})
<1> DEFINE r == NewRecord(h, t)
<1> DEFINE u == WithRecord(s, i, r)
<1>r. /\ r.state = "pending" /\ r.ip = h /\ r.issuedAt = t
      /\ r.expiresAt = t + InviteTtl /\ r.consumedAt = 0
    BY DEF NewRecord
<1>a. s.invites[i].state = "absent"
    BY DEF Coherent
<1>u. u.invites[i] = r /\ \A j \in Invite \ {i} : u.invites[j] = s.invites[j]
    BY WithRecordReads
<1> HIDE DEF u, r
<1>1. Live(u) = Live(s) \cup {i}
    BY <1>r, <1>u DEF Live
<1>2. DistinctLiveIPs(u)
    BY <1>1, <1>r, <1>u, <1>a DEF DistinctLiveIPs, Coherent, UsedIPs, Live
<1>3. Cardinality(IssuedLastHour(u, t)) <= MaxPerHour
  <2>1. IssuedLastHour(u, t) \subseteq IssuedLastHour(s, t) \cup {i}
    BY <1>u DEF IssuedLastHour
  <2>2. IssuedLastHour(s, t) \in SUBSET Invite
    BY DEF IssuedLastHour
  <2>3. Cardinality(IssuedLastHour(s, t) \cup {i}) <= MaxPerHour
    BY <2>2, CountAdd, ParametersAreNat
  <2>4. QED
    BY <2>1, <2>2, <2>3, CountSubset, ParametersAreNat
<1>4. Cardinality(InState(u, "pending")) <= MaxPending
  <2>1. InState(u, "pending") \subseteq InState(s, "pending") \cup {i}
    BY <1>u DEF InState
  <2>2. InState(s, "pending") \in SUBSET Invite
    BY DEF InState
  <2>3. Cardinality(InState(s, "pending")) \in Nat
    BY <2>2, CountSubset
  <2>4. Cardinality(InState(s, "pending")) < MaxPending
    BY <2>3, ParametersAreNat DEF AtPendingLimit
  <2>5. Cardinality(InState(s, "pending") \cup {i}) <= MaxPending
    BY <2>2, <2>4, CountAdd, ParametersAreNat
  <2>6. QED
    BY <2>1, <2>2, <2>5, CountSubset, ParametersAreNat
<1>5. ASSUME NEW j \in Invite, u.invites[j].state # "absent"
      PROVE  LET q == u.invites[j]
             IN  /\ j \in ids \cup {i} /\ q.ip \in Host /\ q.issuedAt \in 1 .. t
                 /\ q.expiresAt = q.issuedAt + InviteTtl
                 /\ q.state = "consumed" => /\ q.consumedAt \in q.issuedAt .. t
                                            /\ q.consumedAt < q.expiresAt
  <2>1. CASE j = i
    BY <2>1, <1>r, <1>u
  <2>2. CASE j # i
    BY <2>2, <1>5, <1>u DEF Coherent
  <2>3. QED
    BY <2>1, <2>2
<1>6. QED
    BY <1>2, <1>3, <1>4, <1>5 DEF Coherent, u, r

LEMMA CoherentMoreIds ==
    ASSUME NEW s, NEW t, NEW ids, NEW i, Coherent(s, t, ids)
    PROVE  Coherent(s, t, ids \cup {i})
    BY DEF Coherent

LEMMA CreateRemembers ==
    ASSUME NEW s \in Snapshot, NEW t, NEW off, NEW adm, NEW rev,
           Remembers(s, t, off, adm, rev), NEW i \in Invite, NEW r,
           ~ (off[i].at > 0), ~ (adm[i].times > 0), i \notin rev
    PROVE  Remembers(WithRecord(s, i, r), t, off, adm, rev)
    BY WithRecordReads DEF Remembers

\* A record that only changes in its digest.
LEMMA BindCoherent ==
    ASSUME NEW s \in Snapshot, NEW t \in Nat, NEW ids, Coherent(s, t, ids),
           NEW i \in Invite
    PROVE  Coherent(WithRecord(s, i, [s.invites[i] EXCEPT !.bound = TRUE]), t, ids)
<1> DEFINE r == [s.invites[i] EXCEPT !.bound = TRUE]
<1> DEFINE u == WithRecord(s, i, r)
<1>r. /\ r.state = s.invites[i].state /\ r.ip = s.invites[i].ip
      /\ r.issuedAt = s.invites[i].issuedAt /\ r.expiresAt = s.invites[i].expiresAt
      /\ r.consumedAt = s.invites[i].consumedAt
    BY DEF Snapshot, Record
<1>u. u.invites[i] = r /\ \A j \in Invite \ {i} : u.invites[j] = s.invites[j]
    BY WithRecordReads
<1> HIDE DEF u, r
<1>1. \A j \in Invite : /\ u.invites[j].state = s.invites[j].state
                        /\ u.invites[j].ip = s.invites[j].ip
                        /\ u.invites[j].issuedAt = s.invites[j].issuedAt
                        /\ u.invites[j].expiresAt = s.invites[j].expiresAt
                        /\ u.invites[j].consumedAt = s.invites[j].consumedAt
    BY <1>r, <1>u
<1>2. Live(u) = Live(s)
    BY <1>1 DEF Live
<1>3. IssuedLastHour(u, t) = IssuedLastHour(s, t)
    BY <1>1 DEF IssuedLastHour
<1>4. InState(u, "pending") = InState(s, "pending")
    BY <1>1 DEF InState
<1>5. DistinctLiveIPs(u)
    BY <1>1, <1>2 DEF DistinctLiveIPs, Coherent, Live
<1>6. QED
    BY <1>1, <1>3, <1>4, <1>5 DEF Coherent, u, r

LEMMA ConsumeCoherent ==
    ASSUME NEW s \in Snapshot, NEW t \in Nat, NEW ids, Coherent(s, t, ids),
           NEW i \in Invite, s.invites[i].state = "pending",
           t < s.invites[i].expiresAt
    PROVE  Coherent(WithRecord(s, i, ConsumedRecord(s.invites[i], t)), t, ids)
<1> DEFINE r == ConsumedRecord(s.invites[i], t)
<1> DEFINE u == WithRecord(s, i, r)
<1>r. /\ r.state = "consumed" /\ r.ip = s.invites[i].ip
      /\ r.issuedAt = s.invites[i].issuedAt /\ r.expiresAt = s.invites[i].expiresAt
      /\ r.consumedAt = t
    BY DEF Snapshot, Record, ConsumedRecord
<1>u. u.invites[i] = r /\ \A j \in Invite \ {i} : u.invites[j] = s.invites[j]
    BY WithRecordReads
<1> HIDE DEF u, r
<1>1. \A j \in Invite : /\ u.invites[j].ip = s.invites[j].ip
                        /\ u.invites[j].issuedAt = s.invites[j].issuedAt
                        /\ u.invites[j].expiresAt = s.invites[j].expiresAt
                        /\ u.invites[j].state = "absent" <=> s.invites[j].state = "absent"
    BY <1>r, <1>u
<1>2. Live(u) = Live(s)
    BY <1>r, <1>u DEF Live
<1>3. IssuedLastHour(u, t) = IssuedLastHour(s, t)
    BY <1>1 DEF IssuedLastHour
<1>4. Cardinality(InState(u, "pending")) <= MaxPending
  <2>1. InState(u, "pending") \subseteq InState(s, "pending")
    BY <1>r, <1>u DEF InState
  <2>2. InState(s, "pending") \in SUBSET Invite
    BY DEF InState
  <2>3. QED
    BY <2>1, <2>2, CountSubset, ParametersAreNat DEF Coherent
<1>5. DistinctLiveIPs(u)
    BY <1>1, <1>2 DEF DistinctLiveIPs, Coherent, Live
<1>6. \A j \in Invite : u.invites[j].state = "consumed" =>
            /\ u.invites[j].consumedAt \in u.invites[j].issuedAt .. t
            /\ u.invites[j].consumedAt < u.invites[j].expiresAt
  <2>1. s.invites[i].issuedAt \in 1 .. t
    BY DEF Coherent
  <2>2. QED
    BY <2>1, <1>r, <1>u DEF Coherent
<1>7. QED
    BY <1>1, <1>3, <1>4, <1>5, <1>6 DEF Coherent, u, r

-----------------------------------------------------------------------------
(* Forgetting records, and the passing of time *)

LEMMA PrunedStates ==
    ASSUME NEW s \in Snapshot, NEW t, NEW i \in Invite
    PROVE  Pruned(s, t).invites[i] = IF i \in Prunable(s, t) THEN Absent
                                     ELSE s.invites[i]
    BY DEF Pruned

LEMMA PrunedCoherent ==
    ASSUME NEW s \in Snapshot, NEW t \in Nat, NEW ids, Coherent(s, t, ids)
    PROVE  Coherent(Pruned(s, t), t, ids)
<1> DEFINE u == Pruned(s, t)
<1>a. Absent.state = "absent"
    BY DEF Absent
<1>1. \A i \in Invite : u.invites[i].state = "absent" \/ u.invites[i] = s.invites[i]
    BY <1>a, PrunedStates
<1> HIDE DEF u
<1>2. DistinctLiveIPs(u)
    BY <1>1 DEF DistinctLiveIPs, Live, Coherent
<1>3. Cardinality(IssuedLastHour(u, t)) <= MaxPerHour
  <2>1. IssuedLastHour(u, t) \subseteq IssuedLastHour(s, t)
    BY <1>1 DEF IssuedLastHour
  <2>2. IssuedLastHour(s, t) \in SUBSET Invite
    BY DEF IssuedLastHour
  <2>3. QED
    BY <2>1, <2>2, CountSubset, ParametersAreNat DEF Coherent
<1>4. Cardinality(InState(u, "pending")) <= MaxPending
  <2>1. InState(u, "pending") \subseteq InState(s, "pending")
    BY <1>1 DEF InState
  <2>2. InState(s, "pending") \in SUBSET Invite
    BY DEF InState
  <2>3. QED
    BY <2>1, <2>2, CountSubset, ParametersAreNat DEF Coherent
<1>5. QED
    BY <1>1, <1>2, <1>3, <1>4 DEF Coherent, u

\* Only what is past the retention window is forgotten.
LEMMA PrunedRemembers ==
    ASSUME NEW s \in Snapshot, NEW t \in Nat, NEW ids, Coherent(s, t, ids),
           NEW off \in [Invite -> OfferedRecord],
           NEW adm \in [Invite -> AdmittedRecord], NEW rev,
           Remembers(s, t, off, adm, rev)
    PROVE  Remembers(Pruned(s, t), t, off, adm, rev)
<1> DEFINE u == Pruned(s, t)
<1> SUFFICES ASSUME NEW i \in Invite, u.invites[i] # s.invites[i]
             PROVE  /\ u.invites[i].state = "absent"
                    /\ off[i].at > 0 => t - off[i].at >= PruneAfter
                    /\ adm[i].times > 0 => t - adm[i].at >= PruneAfter
    BY DEF Remembers
<1>1. i \in Prunable(s, t) /\ u.invites[i].state = "absent"
    BY PrunedStates DEF Absent
<1>2. /\ s.invites[i].state # "absent"
      /\ t - TerminalAt(s.invites[i]) >= PruneAfter
    BY <1>1 DEF Prunable
<1>3. /\ s.invites[i].issuedAt \in Nat /\ s.invites[i].consumedAt \in Nat
      /\ s.invites[i].expiresAt \in Nat
    BY DEF Snapshot, Record
<1>4. TerminalAt(s.invites[i]) >= s.invites[i].issuedAt
    BY <1>2, <1>3, ParametersAreNat DEF TerminalAt, Coherent
<1>5. off[i].at > 0 => t - off[i].at >= PruneAfter
  <2>1. off[i].at > 0 => s.invites[i].issuedAt = off[i].at
    BY <1>2 DEF Remembers
  <2>2. off[i].at \in Nat /\ TerminalAt(s.invites[i]) \in Nat
    BY <1>3 DEF OfferedRecord, TerminalAt
  <2>3. QED
    BY <1>2, <1>3, <1>4, <2>1, <2>2, ParametersAreNat
<1>6. adm[i].times > 0 => t - adm[i].at >= PruneAfter
    BY <1>2 DEF Remembers, TerminalAt
<1>7. QED
    BY <1>1, <1>5, <1>6

LEMMA TickCoherent ==
    ASSUME NEW s \in Snapshot, NEW t \in Nat, NEW ids, Coherent(s, t, ids)
    PROVE  Coherent(s, t + 1, ids)
<1>1. Cardinality(IssuedLastHour(s, t + 1)) <= MaxPerHour
  <2>1. IssuedLastHour(s, t + 1) \subseteq IssuedLastHour(s, t)
    BY ParametersAreNat DEF IssuedLastHour, Snapshot, Record
  <2>2. IssuedLastHour(s, t) \in SUBSET Invite
    BY DEF IssuedLastHour
  <2>3. QED
    BY <2>1, <2>2, CountSubset, ParametersAreNat DEF Coherent
<1>2. ASSUME NEW i \in Invite, s.invites[i].state # "absent"
      PROVE  /\ s.invites[i].issuedAt \in 1 .. t + 1
             /\ s.invites[i].state = "consumed" =>
                    s.invites[i].consumedAt \in s.invites[i].issuedAt .. t + 1
    BY <1>2 DEF Coherent
<1>3. QED
    BY <1>1, <1>2 DEF Coherent

LEMMA TickRemembers ==
    ASSUME NEW s \in Snapshot, NEW t \in Nat,
           NEW off \in [Invite -> OfferedRecord],
           NEW adm \in [Invite -> AdmittedRecord], NEW rev,
           Remembers(s, t, off, adm, rev)
    PROVE  Remembers(s, t + 1, off, adm, rev)
<1>1. \A i \in Invite : off[i].at \in Nat /\ adm[i].at \in Nat
    BY DEF OfferedRecord, AdmittedRecord
<1>2. \A i \in Invite :
         /\ t - off[i].at >= PruneAfter => (t + 1) - off[i].at >= PruneAfter
         /\ t - adm[i].at >= PruneAfter => (t + 1) - adm[i].at >= PruneAfter
    BY <1>1, ParametersAreNat
<1> SUFFICES ASSUME NEW i \in Invite
             PROVE  LET r == s.invites[i]
             IN  /\ off[i].at > 0 =>
                       \/ /\ r.state # "absent" /\ r.bound
                          /\ r.ip = off[i].ip /\ r.issuedAt = off[i].at
                       \/ r.state = "absent" /\ (t + 1) - off[i].at >= PruneAfter
                 /\ adm[i].times > 0 =>
                       \/ r.state = "consumed" /\ r.consumedAt = adm[i].at
                       \/ r.state = "absent" /\ (t + 1) - adm[i].at >= PruneAfter
                 /\ i \in rev => r.state \in {"revoked", "absent"}
    BY DEF Remembers
<1>3. off[i].at > 0 =>
            \/ /\ s.invites[i].state # "absent" /\ s.invites[i].bound
               /\ s.invites[i].ip = off[i].ip /\ s.invites[i].issuedAt = off[i].at
            \/ s.invites[i].state = "absent" /\ t - off[i].at >= PruneAfter
    BY DEF Remembers
<1>4. adm[i].times > 0 =>
            \/ s.invites[i].state = "consumed" /\ s.invites[i].consumedAt = adm[i].at
            \/ s.invites[i].state = "absent" /\ t - adm[i].at >= PruneAfter
    BY DEF Remembers
<1>5. i \in rev => s.invites[i].state \in {"revoked", "absent"}
    BY DEF Remembers
<1>6. QED
    BY <1>2, <1>3, <1>4, <1>5

-----------------------------------------------------------------------------
(* Quarantine *)

\* A host that is recent and not released now keeps its entry or its holder.
LEMMA ReleaseIPsKeeps ==
    ASSUME NEW t \in Nat, NEW q \in [Host -> Nat], NEW H, NEW h \in Host, NEW n \in Nat,
           n <= t, t - n < Quarantine
    PROVE  /\ q[h] >= n + Quarantine => ReleaseIPs(q, H, t)[h] >= n + Quarantine
           /\ h \in H => ReleaseIPs(q, H, t)[h] >= n + Quarantine
    BY ParametersAreNat DEF ReleaseIPs

LEMMA ExpiredKeeps ==
    ASSUME NEW t \in Nat, NEW s \in Snapshot, NEW off,
           NEW rel \in [Host -> Nat], \A h \in Host : rel[h] <= t,
           KeepsQuarantine(s, t, off, rel)
    PROVE  KeepsQuarantine(Expired(s, t), t, off, Noted(s, Due(s, t), off, rel, t))
<1> DEFINE u == Expired(s, t)
<1> DEFINE new == Noted(s, Due(s, t), off, rel, t)
<1> SUFFICES ASSUME NEW h \in Host, new[h] > 0, t - new[h] < Quarantine
             PROVE  \/ u.quarantine[h] >= new[h] + Quarantine
                    \/ \E i \in Invite :
                          /\ off[i].at > 0 /\ u.invites[i].ip = h
                          /\ \/ u.invites[i].state = "pending"
                             \/ /\ u.invites[i].state = "consumed"
                                /\ u.invites[i].consumedAt >= new[h]
    BY DEF KeepsQuarantine
<1>c. Closes(s, u)
    BY ExpiredCloses
<1>q. ASSUME Due(s, t) # {}
      PROVE  u.quarantine = ReleaseIPs(s.quarantine, {s.invites[i].ip : i \in Due(s, t)}, t)
    BY <1>q DEF Expired
<1>t. s.quarantine \in [Host -> Nat] /\ rel[h] \in Nat /\ rel[h] <= t
    BY DEF Snapshot
<1>1. CASE \E i \in Due(s, t) : off[i].at > 0 /\ s.invites[i].ip = h
  <2>1. new[h] = t
    BY <1>1 DEF Noted
  <2>2. h \in {s.invites[i].ip : i \in Due(s, t)}
    BY <1>1
  <2>3. 0 < Quarantine /\ t <= t /\ t - t < Quarantine
    BY <2>1, ParametersAreNat
  <2>4. QED
    BY <1>1, <1>q, <1>t, <2>1, <2>2, <2>3, ReleaseIPsKeeps
<1>2. CASE ~ \E i \in Due(s, t) : off[i].at > 0 /\ s.invites[i].ip = h
  <2>1. new[h] = rel[h]
    BY <1>2 DEF Noted
  <2>2. CASE s.quarantine[h] >= rel[h] + Quarantine
    <3>1. CASE Due(s, t) = {}
      BY <2>1, <2>2, <3>1 DEF Expired
    <3>2. CASE Due(s, t) # {}
      BY <1>q, <1>t, <2>1, <2>2, <3>2, ReleaseIPsKeeps
    <3>3. QED
      BY <3>1, <3>2
  <2>3. CASE ~ (s.quarantine[h] >= rel[h] + Quarantine)
    <3>1. PICK i \in Invite :
             /\ off[i].at > 0 /\ s.invites[i].ip = h
             /\ \/ s.invites[i].state = "pending"
                \/ /\ s.invites[i].state = "consumed"
                   /\ s.invites[i].consumedAt >= rel[h]
      BY <2>1, <2>3 DEF KeepsQuarantine
    <3>2. i \notin Due(s, t)
      BY <1>2, <3>1
    <3>3. u.invites[i].state = s.invites[i].state
      BY <3>2, ExpiredStates
    <3>4. u.invites[i].ip = s.invites[i].ip /\ u.invites[i].consumedAt = s.invites[i].consumedAt
      BY <1>c DEF Closes
    <3>5. QED
      BY <2>1, <3>1, <3>3, <3>4
  <2>4. QED
    BY <2>2, <2>3
<1>3. QED
    BY <1>1, <1>2

LEMMA RevokeKeeps ==
    ASSUME NEW t \in Nat, NEW s \in Snapshot, NEW off, NEW k \in Invite,
           NEW rel \in [Host -> Nat], \A h \in Host : rel[h] <= t,
           KeepsQuarantine(s, t, off, rel)
    PROVE  KeepsQuarantine(Revoke(s, k, t), t, off, Noted(s, {k}, off, rel, t))
<1> DEFINE u == Revoke(s, k, t)
<1> DEFINE new == Noted(s, {k}, off, rel, t)
<1> SUFFICES ASSUME NEW h \in Host, new[h] > 0, t - new[h] < Quarantine
             PROVE  \/ u.quarantine[h] >= new[h] + Quarantine
                    \/ \E i \in Invite :
                          /\ off[i].at > 0 /\ u.invites[i].ip = h
                          /\ \/ u.invites[i].state = "pending"
                             \/ /\ u.invites[i].state = "consumed"
                                /\ u.invites[i].consumedAt >= new[h]
    BY DEF KeepsQuarantine
<1>q. u.quarantine = ReleaseIPs(s.quarantine, {s.invites[k].ip}, t)
    BY DEF Revoke
<1>t. s.quarantine \in [Host -> Nat] /\ rel[h] \in Nat /\ rel[h] <= t
    BY DEF Snapshot
<1>1. CASE off[k].at > 0 /\ s.invites[k].ip = h
  <2>1. new[h] = t
    BY <1>1 DEF Noted
  <2>2. t <= t /\ t - t < Quarantine
    BY <2>1, ParametersAreNat
  <2>3. QED
    BY <1>1, <1>q, <1>t, <2>1, <2>2, ReleaseIPsKeeps
<1>2. CASE ~ (off[k].at > 0 /\ s.invites[k].ip = h)
  <2>1. new[h] = rel[h]
    BY <1>2 DEF Noted
  <2>2. CASE s.quarantine[h] >= rel[h] + Quarantine
    BY <1>q, <1>t, <2>1, <2>2, ReleaseIPsKeeps
  <2>3. CASE ~ (s.quarantine[h] >= rel[h] + Quarantine)
    <3>1. PICK i \in Invite :
             /\ off[i].at > 0 /\ s.invites[i].ip = h
             /\ \/ s.invites[i].state = "pending"
                \/ /\ s.invites[i].state = "consumed"
                   /\ s.invites[i].consumedAt >= rel[h]
      BY <2>1, <2>3 DEF KeepsQuarantine
    <3>2. i # k
      BY <1>2, <3>1
    <3>3. u.invites[i] = s.invites[i]
      BY <3>2 DEF Revoke, Snapshot
    <3>4. QED
      BY <2>1, <3>1, <3>3
  <2>4. QED
    BY <2>2, <2>3
<1>3. QED
    BY <1>1, <1>2

\* A release that does not reach the file: there the invite still holds its IP.
LEMMA UnsavedKeeps ==
    ASSUME NEW t \in Nat, NEW s \in Snapshot, NEW d \in Snapshot, NEW off, NEW I,
           NEW rel \in [Host -> Nat],
           KeepsQuarantine(d, t, off, rel),
           \A i \in I : /\ i \in Invite
                        /\ off[i].at > 0 => /\ d.invites[i].state = "pending"
                                            /\ d.invites[i].ip = s.invites[i].ip
    PROVE  KeepsQuarantine(d, t, off, Noted(s, I, off, rel, t))
<1> DEFINE new == Noted(s, I, off, rel, t)
<1> SUFFICES ASSUME NEW h \in Host, new[h] > 0, t - new[h] < Quarantine
             PROVE  \/ d.quarantine[h] >= new[h] + Quarantine
                    \/ \E i \in Invite :
                          /\ off[i].at > 0 /\ d.invites[i].ip = h
                          /\ \/ d.invites[i].state = "pending"
                             \/ /\ d.invites[i].state = "consumed"
                                /\ d.invites[i].consumedAt >= new[h]
    BY DEF KeepsQuarantine
<1>1. CASE \E i \in I : off[i].at > 0 /\ s.invites[i].ip = h
    BY <1>1
<1>2. CASE ~ \E i \in I : off[i].at > 0 /\ s.invites[i].ip = h
  <2>1. new[h] = rel[h]
    BY <1>2 DEF Noted
  <2>2. QED
    BY <2>1 DEF KeepsQuarantine
<1>3. QED
    BY <1>1, <1>2

LEMMA CreateKeeps ==
    ASSUME NEW t, NEW s \in Snapshot, NEW off, NEW rel,
           KeepsQuarantine(s, t, off, rel),
           NEW i \in Invite, ~ (off[i].at > 0), NEW r
    PROVE  KeepsQuarantine(WithRecord(s, i, r), t, off, rel)
    BY WithRecordReads DEF KeepsQuarantine

LEMMA ConsumeKeeps ==
    ASSUME NEW t \in Nat, NEW s \in Snapshot, NEW off,
           NEW rel \in [Host -> Nat], \A h \in Host : rel[h] <= t,
           KeepsQuarantine(s, t, off, rel), NEW i \in Invite
    PROVE  KeepsQuarantine(WithRecord(s, i, ConsumedRecord(s.invites[i], t)), t, off, rel)
<1> DEFINE r == ConsumedRecord(s.invites[i], t)
<1> DEFINE u == WithRecord(s, i, r)
<1>1. r.state = "consumed" /\ r.ip = s.invites[i].ip /\ r.consumedAt = t
    BY DEF Snapshot, Record, ConsumedRecord
<1>2. /\ u.invites[i] = r /\ u.quarantine = s.quarantine
      /\ \A j \in Invite \ {i} : u.invites[j] = s.invites[j]
    BY WithRecordReads
<1>3. \A h \in Host : t >= rel[h]
    OBVIOUS
<1> HIDE DEF u, r
<1>4. KeepsQuarantine(u, t, off, rel)
    BY <1>1, <1>2, <1>3 DEF KeepsQuarantine
<1>5. QED
    BY <1>4 DEF u, r

LEMMA BindKeeps ==
    ASSUME NEW t, NEW s \in Snapshot, NEW off, NEW rel,
           KeepsQuarantine(s, t, off, rel), NEW i \in Invite
    PROVE  KeepsQuarantine(WithRecord(s, i, [s.invites[i] EXCEPT !.bound = TRUE]),
                           t, off, rel)
<1> DEFINE r == [s.invites[i] EXCEPT !.bound = TRUE]
<1> DEFINE u == WithRecord(s, i, r)
<1>1. /\ r.state = s.invites[i].state /\ r.ip = s.invites[i].ip
      /\ r.consumedAt = s.invites[i].consumedAt
    BY DEF Snapshot, Record
<1>2. /\ u.invites[i] = r /\ u.quarantine = s.quarantine
      /\ \A j \in Invite \ {i} : u.invites[j] = s.invites[j]
    BY WithRecordReads
<1> HIDE DEF u, r
<1>3. KeepsQuarantine(u, t, off, rel)
    BY <1>1, <1>2 DEF KeepsQuarantine
<1>4. QED
    BY <1>3 DEF u, r

LEMMA PrunedKeeps ==
    ASSUME NEW t \in Nat, NEW s \in Snapshot, NEW off,
           NEW rel \in [Host -> Nat], \A h \in Host : rel[h] <= t,
           KeepsQuarantine(s, t, off, rel)
    PROVE  KeepsQuarantine(Pruned(s, t), t, off, rel)
<1> DEFINE u == Pruned(s, t)
<1> SUFFICES ASSUME NEW h \in Host, rel[h] > 0, t - rel[h] < Quarantine
             PROVE  \/ u.quarantine[h] >= rel[h] + Quarantine
                    \/ \E i \in Invite :
                          /\ off[i].at > 0 /\ u.invites[i].ip = h
                          /\ \/ u.invites[i].state = "pending"
                             \/ /\ u.invites[i].state = "consumed"
                                /\ u.invites[i].consumedAt >= rel[h]
    BY DEF KeepsQuarantine
<1>t. s.quarantine \in [Host -> Nat] /\ rel[h] \in Nat /\ rel[h] <= t
    BY DEF Snapshot
<1>1. CASE s.quarantine[h] >= rel[h] + Quarantine
  <2>1. u.quarantine = ReleaseIPs(s.quarantine, {}, t)
    BY DEF Pruned
  <2>2. QED
    BY <1>1, <1>t, <2>1, ReleaseIPsKeeps
<1>2. CASE ~ (s.quarantine[h] >= rel[h] + Quarantine)
  <2>1. PICK i \in Invite :
           /\ off[i].at > 0 /\ s.invites[i].ip = h
           /\ \/ s.invites[i].state = "pending"
              \/ /\ s.invites[i].state = "consumed"
                 /\ s.invites[i].consumedAt >= rel[h]
    BY <1>2 DEF KeepsQuarantine
  <2>2. s.invites[i].consumedAt \in Nat
    BY DEF Snapshot, Record
  <2>3. i \notin Prunable(s, t)
    BY <1>t, <2>1, <2>2, ParametersAreNat, RetentionIsLongest DEF Prunable, TerminalAt
  <2>4. u.invites[i] = s.invites[i]
    BY <2>3, PrunedStates
  <2>5. QED
    BY <2>1, <2>4
<1>3. QED
    BY <1>1, <1>2

LEMMA TickKeeps ==
    ASSUME NEW t \in Nat, NEW s \in Snapshot, NEW off,
           NEW rel \in [Host -> Nat],
           KeepsQuarantine(s, t, off, rel)
    PROVE  KeepsQuarantine(s, t + 1, off, rel)
<1>1. \A h \in Host : (t + 1) - rel[h] < Quarantine => t - rel[h] < Quarantine
    BY ParametersAreNat
<1>2. QED
    BY <1>1 DEF KeepsQuarantine

-----------------------------------------------------------------------------
(* The inductive invariant *)

LEMMA InitInv == Init => IInv
<1> SUFFICES ASSUME Init PROVE IInv
    OBVIOUS
<1> DEFINE e == EmptySnapshot
<1>1. \A i \in Invite : e.invites[i].state = "absent"
    BY DEF EmptySnapshot, Absent
<1>2. /\ now = 1 /\ mem = e /\ disk = e /\ binding = None /\ minted = {} /\ revoked = {}
      /\ \A i \in Invite : offered[i].at = 0 /\ admitted[i].times = 0
      /\ \A h \in Host : released[h] = 0
    BY DEF Init
<1> HIDE DEF e
<1>3. Coherent(e, now, minted)
  <2>1. Live(e) = {} /\ IssuedLastHour(e, now) = {} /\ InState(e, "pending") = {}
    BY <1>1 DEF Live, IssuedLastHour, InState
  <2>2. Cardinality({}) <= MaxPerHour /\ Cardinality({}) <= MaxPending
    BY FS_EmptySet, ParametersAreNat
  <2>3. QED
    BY <1>1, <2>1, <2>2 DEF Coherent, DistinctLiveIPs
<1>4. Remembers(e, now, offered, admitted, revoked)
    BY <1>2 DEF Remembers
<1>5. KeepsQuarantine(e, now, offered, released)
    BY <1>2 DEF KeepsQuarantine
<1>6. History
    BY <1>1, <1>2 DEF History
<1>7. SharedOnlyAfterRetention /\ AdmittedAtMostOnce /\ AdmittedInTime /\ RevokedNotAdmitted
    BY <1>2 DEF SharedOnlyAfterRetention, AdmittedAtMostOnce, AdmittedInTime, RevokedNotAdmitted
<1>8. QED
    BY <1>2, <1>3, <1>4, <1>5, <1>6, <1>7 DEF IInv, Sound

\* What the expireDue() at the head of a handler leaves behind, in memory, in
\* the file if its persist returned, and in the file if it did not.
LEMMA ExpirySound ==
    ASSUME TypeOK, IInv
    PROVE  LET e == Expired(mem, now)
               d == AfterExpiry(mem)
               new == Noted(mem, Due(mem, now), offered, released, now)
           IN  /\ e \in Snapshot /\ d \in Snapshot /\ new \in [Host -> Nat]
               /\ \A h \in Host : new[h] <= now
               /\ \A s \in {e, d, disk} :
                     /\ Coherent(s, now, minted)
                     /\ Remembers(s, now, offered, admitted, revoked)
                     /\ KeepsQuarantine(s, now, offered, new)
               /\ \A i \in Invite :
                     offered[i].at > 0 /\ e.invites[i].state = "pending" =>
                        disk.invites[i].state = "pending" /\ d.invites[i].state = "pending"
<1> DEFINE e == Expired(mem, now)
<1> DEFINE d == AfterExpiry(mem)
<1> DEFINE new == Noted(mem, Due(mem, now), offered, released, now)
<1>t. /\ now \in Nat /\ mem \in Snapshot /\ disk \in Snapshot
      /\ released \in [Host -> Nat] /\ \A h \in Host : released[h] <= now
    BY DEF TypeOK, IInv, History
<1>1. e \in Snapshot /\ d \in Snapshot
    BY <1>t, ExpiredType DEF AfterExpiry
<1>2. new \in [Host -> Nat] /\ \A h \in Host : new[h] <= now
    BY <1>t DEF Noted
<1>3. Coherent(e, now, minted)
    BY <1>t, <1>1, ExpiredCloses, ClosesCoherent DEF IInv, Sound
<1>4. Remembers(e, now, offered, admitted, revoked)
    BY <1>t, ExpiredRemembers DEF IInv, Sound
<1>5. KeepsQuarantine(e, now, offered, new)
    BY <1>t, ExpiredKeeps DEF IInv, Sound
<1>6. KeepsQuarantine(disk, now, offered, new)
  <2>1. ASSUME NEW i \in Due(mem, now), offered[i].at > 0
        PROVE  disk.invites[i].state = "pending" /\ disk.invites[i].ip = mem.invites[i].ip
    <3>1. i \in Invite /\ mem.invites[i].state = "pending"
      BY DEF Due
    <3>2. disk.invites[i].state = "pending"
      BY <2>1, <3>1 DEF IInv, History
    <3>3. QED
      BY <2>1, <3>1, <3>2 DEF IInv, Sound, Remembers
  <2>2. Due(mem, now) \subseteq Invite
    BY DEF Due
  <2>3. QED
    BY <1>t, <2>1, <2>2, UnsavedKeeps DEF IInv, Sound
<1>7. \A s \in {e, d, disk} : /\ Coherent(s, now, minted)
                             /\ Remembers(s, now, offered, admitted, revoked)
                             /\ KeepsQuarantine(s, now, offered, new)
    BY <1>3, <1>4, <1>5, <1>6 DEF AfterExpiry, IInv, Sound
<1>8. ASSUME NEW i \in Invite, offered[i].at > 0, e.invites[i].state = "pending"
      PROVE  disk.invites[i].state = "pending" /\ d.invites[i].state = "pending"
  <2>1. mem.invites[i].state = "pending"
    BY <1>8, <1>t, ExpiredStates
  <2>2. disk.invites[i].state = "pending"
    BY <1>8, <2>1 DEF IInv, History
  <2>3. QED
    BY <1>8, <2>2 DEF AfterExpiry
<1>9. QED
    BY <1>1, <1>2, <1>7, <1>8

\* The history properties only change where somebody is offered or admitted.
LEMMA HistoryPropertiesFramed ==
    ASSUME IInv, UNCHANGED <<offered, admitted>>, RevokedNotAdmitted'
    PROVE  (/\ SharedOnlyAfterRetention /\ AdmittedAtMostOnce
            /\ AdmittedInTime /\ RevokedNotAdmitted)'
    BY DEF IInv, SharedOnlyAfterRetention, AdmittedAtMostOnce, AdmittedInTime

LEMMA ExpireDueInv ==
    ASSUME TypeOK, IInv, ExpireDue PROVE IInv'
<1> DEFINE e == Expired(mem, now)
<1> DEFINE new == Noted(mem, Due(mem, now), offered, released, now)
<1>0. /\ mem' = e /\ disk' \in {e, disk} /\ released' = new
      /\ UNCHANGED <<now, binding, minted, offered, admitted, revoked>>
      /\ binding = None
    BY DEF ExpireDue, Saved, SaveThrows, NoteReleased, Idle
<1>1. Sound(mem)' /\ Sound(disk)'
    BY <1>0, ExpirySound DEF Sound
<1>2. History'
  <2>1. \A h \in Host : new[h] <= now
    BY ExpirySound
  <2>2. \A i \in Invite : offered'[i].at > 0 /\ mem'.invites[i].state = "pending" =>
                            disk'.invites[i].state = "pending"
    BY <1>0, ExpirySound
  <2>3. QED
    BY <1>0, <2>1, <2>2 DEF IInv, History
<1>3. RevokedNotAdmitted'
    BY <1>0 DEF IInv, RevokedNotAdmitted
<1>4. QED
    BY <1>0, <1>1, <1>2, <1>3, HistoryPropertiesFramed DEF IInv

LEMMA CreateInviteInv ==
    ASSUME TypeOK, IInv, NEW i \in Invite, CreateInvite(i) PROVE IInv'
<1> DEFINE e == Expired(mem, now)
<1> DEFINE d == AfterExpiry(mem)
<1> DEFINE h == AllocateIP(e, now)
<1> DEFINE r == NewRecord(h, now)
<1> DEFINE made == WithRecord(e, i, r)
<1> DEFINE new == Noted(mem, Due(mem, now), offered, released, now)
<1> DEFINE ids == minted \cup {i}
<1>0. /\ mem' = made /\ released' = new /\ minted' = ids
      /\ \/ disk' = made /\ binding' = i
         \/ disk' = d /\ binding' = None
      /\ UNCHANGED <<now, offered, admitted, revoked>>
      /\ i \notin minted
    BY DEF CreateInvite, Saved, SaveThrows, NoteReleased
<1>g. /\ ~ AtPendingLimit(e) /\ Cardinality(IssuedLastHour(e, now)) < MaxPerHour
      /\ h \in Host /\ h \notin UsedIPs(e)
    BY AllocateIPIsHost DEF CreateInvite
<1>e. /\ e \in Snapshot /\ now \in Nat \ {0} /\ \A g \in Host : new[g] <= now
      /\ \A s \in {e, d} : /\ Coherent(s, now, minted)
                           /\ Remembers(s, now, offered, admitted, revoked)
                           /\ KeepsQuarantine(s, now, offered, new)
      /\ \A j \in Invite : offered[j].at > 0 /\ e.invites[j].state = "pending" =>
                               d.invites[j].state = "pending"
    BY ExpirySound DEF TypeOK, IInv, History
<1>i. ~ (offered[i].at > 0) /\ ~ (admitted[i].times > 0) /\ i \notin revoked
    BY <1>0 DEF IInv, History
<1>w. made.invites[i] = r /\ \A j \in Invite \ {i} : made.invites[j] = e.invites[j]
    BY <1>e, WithRecordReads
<1>r. r.state = "pending"
    BY DEF NewRecord
<1>1. Coherent(made, now, ids) /\ Coherent(d, now, ids)
    BY <1>0, <1>e, <1>g, CreateCoherent, CoherentMoreIds
<1>2. Remembers(made, now, offered, admitted, revoked)
    BY <1>e, <1>i, CreateRemembers
<1>3. KeepsQuarantine(made, now, offered, new)
    BY <1>e, <1>i, CreateKeeps
<1>4. Sound(mem)' /\ Sound(disk)'
    BY <1>0, <1>1, <1>2, <1>3, <1>e DEF Sound
<1>5. History'
  <2>1. binding' # None => /\ mem'.invites[binding'].state # "absent"
                           /\ offered'[binding'].at = 0
    BY <1>0, <1>w, <1>r, <1>i DEF TypeOK, OfferedRecord
  <2>2. \A j \in Invite : offered'[j].at > 0 /\ mem'.invites[j].state = "pending" =>
                            disk'.invites[j].state = "pending"
    BY <1>0, <1>w, <1>e, <1>i
  <2>3. \A g \in Host : released'[g] <= now'
    BY <1>0, <1>e
  <2>4. QED
    BY <1>0, <2>1, <2>2, <2>3 DEF IInv, History
<1>6. RevokedNotAdmitted'
    BY <1>0 DEF IInv, RevokedNotAdmitted
<1>7. QED
    BY <1>0, <1>4, <1>5, <1>6, HistoryPropertiesFramed DEF IInv

LEMMA BindDigestInv ==
    ASSUME TypeOK, IInv, BindDigest PROVE IInv'
<1> DEFINE i == binding
<1> DEFINE r == [mem.invites[i] EXCEPT !.bound = TRUE]
<1> DEFINE u == WithRecord(mem, i, r)
<1> DEFINE off == [offered EXCEPT ![i] = [ip |-> r.ip, at |-> r.issuedAt]]
<1>0. /\ mem' = u /\ binding' = None
      /\ \/ disk' = u /\ offered' = off
         \/ disk' = disk /\ offered' = offered
      /\ UNCHANGED <<now, minted, admitted, revoked, released>>
    BY DEF BindDigest, Saved, SaveThrows
<1>i. /\ i \in Invite /\ mem \in Snapshot /\ now \in Nat
      /\ mem.invites[i].state # "absent" /\ offered[i].at = 0 /\ i \in minted
      /\ ~ (admitted[i].times > 0)
    BY DEF BindDigest, TypeOK, IInv, History, Sound, Coherent
<1>w. u.invites[i] = r /\ \A j \in Invite \ {i} : u.invites[j] = mem.invites[j]
    BY <1>i, WithRecordReads
<1>r. /\ r.state = mem.invites[i].state /\ r.ip = mem.invites[i].ip
      /\ r.issuedAt = mem.invites[i].issuedAt /\ r.bound = TRUE
      /\ r.consumedAt = mem.invites[i].consumedAt /\ r.issuedAt \in 1 .. now
    BY <1>i DEF Snapshot, Record, IInv, Sound, Coherent
<1>o. /\ off[i].ip = r.ip /\ off[i].at = r.issuedAt
      /\ \A j \in Invite \ {i} : off[j] = offered[j]
    BY <1>i DEF TypeOK
<1>1. Coherent(u, now, minted)
    BY <1>i, BindCoherent DEF IInv, Sound
<1>2. KeepsQuarantine(u, now, offered, released)
    BY <1>i, BindKeeps DEF IInv, Sound
<1> HIDE DEF u, r, off
<1>3. KeepsQuarantine(u, now, off, released)
  <2>1. \A j \in Invite : offered[j].at > 0 => off[j].at > 0
    BY <1>o, <1>i
  <2>2. QED
    BY <1>2, <2>1 DEF KeepsQuarantine
<1>4. Remembers(u, now, offered, admitted, revoked)
    BY <1>i, <1>w, <1>r DEF IInv, Sound, Remembers
<1>5. Remembers(u, now, off, admitted, revoked)
    BY <1>4, <1>i, <1>o, <1>w, <1>r DEF Remembers
<1>6. Sound(mem)' /\ Sound(disk)'
  <2>1. CASE disk' = u /\ offered' = off
    BY <1>0, <1>1, <1>3, <1>5, <2>1 DEF Sound
  <2>2. CASE disk' = disk /\ offered' = offered
    BY <1>0, <1>1, <1>2, <1>4, <2>2 DEF Sound, IInv
  <2>3. QED
    BY <1>0, <2>1, <2>2
<1>7. History'
  <2>1. \A j \in Invite : offered'[j].at > 0 /\ mem'.invites[j].state = "pending" =>
                            disk'.invites[j].state = "pending"
    BY <1>0, <1>i, <1>w, <1>r DEF IInv, History
  <2>2. \A j \in Invite : /\ offered'[j].at > 0 => j \in minted /\ offered'[j].at <= now
                          /\ admitted[j].times > 0 => offered'[j].at > 0
    BY <1>0, <1>i, <1>o, <1>r DEF IInv, History
  <2>3. QED
    BY <1>0, <2>1, <2>2 DEF IInv, History
<1>8. SharedOnlyAfterRetention' /\ AdmittedInTime'
  <2>1. \A j \in Invite : admitted[j].times > 0 => offered'[j] = offered[j]
    BY <1>0, <1>i, <1>o
  <2>2. SharedOnlyAfterRetention'
    BY <1>0, <2>1 DEF SharedOnlyAfterRetention, IInv
  <2>3. AdmittedInTime'
    BY <1>0, <2>1 DEF AdmittedInTime, IInv
  <2>4. QED
    BY <2>2, <2>3
<1>9. AdmittedAtMostOnce' /\ RevokedNotAdmitted'
    BY <1>0 DEF AdmittedAtMostOnce, RevokedNotAdmitted, IInv
<1>10. QED
    BY <1>6, <1>7, <1>8, <1>9 DEF IInv

LEMMA ConsumeByDigestInv ==
    ASSUME TypeOK, IInv, NEW i \in Invite, ConsumeByDigest(i) PROVE IInv'
<1> DEFINE e == Expired(mem, now)
<1> DEFINE d == AfterExpiry(mem)
<1> DEFINE r == ConsumedRecord(e.invites[i], now)
<1> DEFINE u == WithRecord(e, i, r)
<1> DEFINE new == Noted(mem, Due(mem, now), offered, released, now)
<1> DEFINE adm == [admitted EXCEPT ![i] = [times |-> @.times + 1, at |-> now]]
<1>0. /\ mem' = u /\ released' = new /\ binding' = None
      /\ \/ disk' = u /\ admitted' = adm
         \/ disk' = d /\ admitted' = admitted
      /\ UNCHANGED <<now, minted, offered, revoked>>
      /\ offered[i].at > 0 /\ e.invites[i].state = "pending"
    BY DEF ConsumeByDigest, Saved, SaveThrows, NoteReleased, Idle
<1>e. /\ e \in Snapshot /\ now \in Nat /\ new \in [Host -> Nat]
      /\ \A g \in Host : new[g] <= now
      /\ \A s \in {e, d} : /\ Coherent(s, now, minted)
                           /\ Remembers(s, now, offered, admitted, revoked)
                           /\ KeepsQuarantine(s, now, offered, new)
      /\ \A j \in Invite : offered[j].at > 0 /\ e.invites[j].state = "pending" =>
                               d.invites[j].state = "pending"
    BY ExpirySound DEF TypeOK
<1>x. now < e.invites[i].expiresAt
  <2>1. mem.invites[i].state = "pending" /\ i \notin Due(mem, now)
    BY <1>0, ExpiredStates DEF TypeOK
  <2>2. ~ (now >= mem.invites[i].expiresAt)
    BY <2>1 DEF Due
  <2>c. Closes(mem, e)
    BY ExpiredCloses DEF TypeOK
  <2>3. e.invites[i].expiresAt = mem.invites[i].expiresAt
    BY <2>c DEF Closes
  <2>4. mem.invites[i].expiresAt \in Nat
    BY DEF TypeOK, Snapshot, Record
  <2>5. QED
    BY <1>e, <2>2, <2>3, <2>4
<1>i. /\ ~ (admitted[i].times > 0) /\ i \notin revoked
      /\ e.invites[i].ip = offered[i].ip /\ e.invites[i].issuedAt = offered[i].at
      /\ e.invites[i].expiresAt = offered[i].at + InviteTtl
    BY <1>0, <1>e DEF Remembers, Coherent
<1>w. u.invites[i] = r /\ \A j \in Invite \ {i} : u.invites[j] = e.invites[j]
    BY <1>e, WithRecordReads
<1>r. /\ r.state = "consumed" /\ r.consumedAt = now /\ r.ip = e.invites[i].ip
      /\ r.issuedAt = e.invites[i].issuedAt /\ r.bound = e.invites[i].bound
    BY <1>e DEF ConsumedRecord, Snapshot, Record
<1>a. /\ adm[i].times = 1 /\ adm[i].at = now
      /\ \A j \in Invite \ {i} : adm[j] = admitted[j]
    BY <1>i DEF TypeOK, AdmittedRecord
<1>1. Coherent(u, now, minted)
    BY <1>0, <1>e, <1>x, ConsumeCoherent
<1>2. KeepsQuarantine(u, now, offered, new)
    BY <1>e, ConsumeKeeps
<1> HIDE DEF u, r, adm
<1>3. Remembers(u, now, offered, admitted, revoked) /\ Remembers(u, now, offered, adm, revoked)
    BY <1>0, <1>e, <1>i, <1>w, <1>r, <1>a DEF Remembers
<1>4. Sound(mem)' /\ Sound(disk)'
    BY <1>0, <1>1, <1>2, <1>3, <1>e DEF Sound
<1>5. History'
  <2>1. \A j \in Invite : offered'[j].at > 0 /\ mem'.invites[j].state = "pending" =>
                            disk'.invites[j].state = "pending"
    BY <1>0, <1>e, <1>w, <1>r
  <2>2. \A j \in Invite : admitted'[j].times > 0 => offered[j].at > 0 /\ admitted'[j].at <= now
    BY <1>0, <1>e, <1>a DEF IInv, History
  <2>3. \A g \in Host : released'[g] <= now'
    BY <1>0, <1>e
  <2>4. QED
    BY <1>0, <2>1, <2>2, <2>3 DEF IInv, History
<1>6. (/\ SharedOnlyAfterRetention /\ AdmittedAtMostOnce
       /\ AdmittedInTime /\ RevokedNotAdmitted)'
  <2>1. CASE admitted' = admitted
    <3>1. RevokedNotAdmitted'
      BY <1>0, <2>1 DEF IInv, RevokedNotAdmitted
    <3>2. QED
      BY <1>0, <2>1, <3>1, HistoryPropertiesFramed
  <2>2. CASE admitted' = adm
    \* A member that got the same IP earlier is no longer live in memory.
    <3>1. ASSUME NEW j \in Invite \ {i}, admitted[j].times > 0, offered[j].ip = offered[i].ip
          PROVE  now - admitted[j].at >= PruneAfter
      <4>1. e.invites[j].state # "consumed"
        BY <3>1, <1>0, <1>e, <1>i DEF Coherent, DistinctLiveIPs, Live, Remembers, IInv, History
      <4>2. QED
        BY <3>1, <4>1, <1>e DEF Remembers
    <3>2. SharedOnlyAfterRetention'
      BY <1>0, <1>a, <2>2, <3>1 DEF SharedOnlyAfterRetention, IInv
    <3>3. AdmittedAtMostOnce'
      BY <1>a, <2>2 DEF AdmittedAtMostOnce, IInv
    <3>4. AdmittedInTime'
      BY <1>0, <1>a, <1>i, <1>x, <2>2 DEF AdmittedInTime, IInv
    <3>5. RevokedNotAdmitted'
      BY <1>0, <1>a, <1>i, <2>2 DEF RevokedNotAdmitted, IInv, TypeOK
    <3>6. QED
      BY <3>2, <3>3, <3>4, <3>5
  <2>3. QED
    BY <1>0, <2>1, <2>2
<1>7. QED
    BY <1>4, <1>5, <1>6 DEF IInv

LEMMA RevokeInviteInv ==
    ASSUME TypeOK, IInv, NEW i \in Invite, RevokeInvite(i) PROVE IInv'
<1> DEFINE u == Revoke(mem, i, now)
<1> DEFINE new == Noted(mem, {i}, offered, released, now)
<1>0. /\ mem' = u /\ released' = new /\ binding = None
      /\ \/ disk' = u /\ revoked' = revoked \cup {i}
         \/ disk' = disk /\ revoked' = revoked
      /\ UNCHANGED <<now, binding, minted, offered, admitted>>
      /\ mem.invites[i].state = "pending"
    BY DEF RevokeInvite, Saved, SaveThrows, NoteReleased, Idle
<1>t. /\ now \in Nat /\ mem \in Snapshot /\ disk \in Snapshot /\ u \in Snapshot
      /\ released \in [Host -> Nat] /\ \A h \in Host : released[h] <= now
    BY RevokeType DEF TypeOK, IInv, History
<1>c. Closes(mem, u)
    BY <1>0, <1>t, RevokeCloses
<1>1. Coherent(u, now, minted)
    BY <1>t, <1>c, ClosesCoherent DEF IInv, Sound
<1>2. KeepsQuarantine(u, now, offered, new)
    BY <1>t, RevokeKeeps DEF IInv, Sound
<1>3. KeepsQuarantine(disk, now, offered, new)
  <2>1. offered[i].at > 0 => /\ disk.invites[i].state = "pending"
                             /\ disk.invites[i].ip = mem.invites[i].ip
    BY <1>0 DEF IInv, History, Sound, Remembers
  <2>2. QED
    BY <1>t, <2>1, UnsavedKeeps DEF IInv, Sound
<1>4. Remembers(u, now, offered, admitted, revoked \cup {i})
    BY <1>0, <1>t, RevokeRemembers DEF IInv, Sound
<1>5. Remembers(u, now, offered, admitted, revoked)
    BY <1>4 DEF Remembers
<1>6. Sound(mem)' /\ Sound(disk)'
    BY <1>0, <1>1, <1>2, <1>3, <1>4, <1>5 DEF Sound, IInv
<1>7. History'
  <2>1. \A h \in Host : new[h] <= now
    BY <1>t DEF Noted
  <2>2. \A j \in Invite : offered'[j].at > 0 /\ mem'.invites[j].state = "pending" =>
                            disk'.invites[j].state = "pending"
    BY <1>0, <1>c DEF Closes, IInv, History
  <2>3. i \in minted
    BY <1>0 DEF IInv, Sound, Coherent
  <2>4. QED
    BY <1>0, <2>1, <2>2, <2>3 DEF IInv, History
<1>8. RevokedNotAdmitted'
  <2>1. ~ (admitted[i].times > 0)
    BY <1>0 DEF IInv, Sound, Remembers
  <2>2. admitted[i].times = 0
    BY <2>1 DEF TypeOK, AdmittedRecord
  <2>3. QED
    BY <1>0, <2>2 DEF IInv, RevokedNotAdmitted
<1>9. QED
    BY <1>0, <1>6, <1>7, <1>8, HistoryPropertiesFramed DEF IInv

LEMMA PruneInv ==
    ASSUME TypeOK, IInv, Prune PROVE IInv'
<1> DEFINE u == Pruned(mem, now)
<1>0. /\ mem' = u /\ disk' \in {u, disk} /\ binding = None
      /\ UNCHANGED <<now, binding, minted, offered, admitted, revoked, released>>
    BY DEF Prune, Saved, SaveThrows, history, Idle
<1>t. /\ now \in Nat /\ mem \in Snapshot /\ released \in [Host -> Nat]
      /\ \A h \in Host : released[h] <= now
    BY DEF TypeOK, IInv, History
<1>1. /\ Coherent(u, now, minted)
      /\ Remembers(u, now, offered, admitted, revoked)
      /\ KeepsQuarantine(u, now, offered, released)
    BY <1>t, PrunedCoherent, PrunedRemembers, PrunedKeeps DEF IInv, Sound, TypeOK
<1>2. Sound(mem)' /\ Sound(disk)'
    BY <1>0, <1>1 DEF Sound, IInv
<1>3. \A i \in Invite : u.invites[i].state = "pending" => mem.invites[i].state = "pending"
    BY <1>t, PrunedStates DEF Absent
<1>4. History'
    BY <1>0, <1>3 DEF IInv, History
<1>5. RevokedNotAdmitted'
    BY <1>0 DEF IInv, RevokedNotAdmitted
<1>6. QED
    BY <1>0, <1>2, <1>4, <1>5, HistoryPropertiesFramed DEF IInv

LEMMA CopyInv ==
    ASSUME TypeOK, IInv, StoreIdempotency \/ Restart PROVE IInv'
<1>0. /\ mem' \in {mem, disk} /\ disk' \in {mem, disk} /\ mem' = disk' /\ binding' = None
      /\ UNCHANGED <<now, minted, offered, admitted, revoked, released>>
    BY DEF StoreIdempotency, Restart, Saved, history, Idle
<1>1. Sound(mem)' /\ Sound(disk)'
    BY <1>0 DEF Sound, IInv
<1>2. History'
    BY <1>0 DEF IInv, History
<1>3. RevokedNotAdmitted'
    BY <1>0 DEF IInv, RevokedNotAdmitted
<1>4. QED
    BY <1>0, <1>1, <1>2, <1>3, HistoryPropertiesFramed DEF IInv

LEMMA TickInv ==
    ASSUME TypeOK, IInv, Tick PROVE IInv'
<1>0. /\ now' = now + 1
      /\ UNCHANGED <<mem, disk, binding, minted, offered, admitted, revoked, released>>
    BY DEF Tick, history
<1>t. /\ now \in Nat /\ released \in [Host -> Nat] /\ offered \in [Invite -> OfferedRecord]
      /\ admitted \in [Invite -> AdmittedRecord]
    BY DEF TypeOK
<1>1. ASSUME NEW s \in Snapshot, Sound(s)
      PROVE  /\ Coherent(s, now + 1, minted)
             /\ Remembers(s, now + 1, offered, admitted, revoked)
             /\ KeepsQuarantine(s, now + 1, offered, released)
    BY <1>1, <1>t, TickCoherent, TickRemembers, TickKeeps DEF Sound
<1>2. Sound(mem)' /\ Sound(disk)'
    BY <1>0, <1>1 DEF Sound, IInv, TypeOK
<1>3. History'
  <2>1. \A n \in Nat : n <= now => n <= now + 1
    BY <1>t
  <2>2. \A i \in Invite : offered[i].at \in Nat /\ admitted[i].at \in Nat
    BY <1>t DEF OfferedRecord, AdmittedRecord
  <2>3. \A h \in Host : released[h] \in Nat
    BY <1>t
  <2>4. now + 1 > 0
    BY <1>t
  <2>5. QED
    BY <1>0, <2>1, <2>2, <2>3, <2>4 DEF IInv, History
<1>4. RevokedNotAdmitted'
    BY <1>0 DEF IInv, RevokedNotAdmitted
<1>5. QED
    BY <1>0, <1>2, <1>3, <1>4, HistoryPropertiesFramed DEF IInv

LEMMA NextInv == TypeOK /\ IInv /\ [Next]_vars => IInv'
<1> SUFFICES ASSUME TypeOK, IInv, [Next]_vars PROVE IInv'
    OBVIOUS
<1>1. CASE UNCHANGED vars
  <2>1. UNCHANGED <<now, mem, disk, binding, minted, offered, admitted, revoked, released>>
    BY <1>1 DEF vars
  <2>2. Sound(mem)' /\ Sound(disk)'
    BY <2>1 DEF Sound, IInv
  <2>3. History' /\ RevokedNotAdmitted'
    BY <2>1 DEF IInv, History, RevokedNotAdmitted
  <2>4. QED
    BY <2>1, <2>2, <2>3, HistoryPropertiesFramed DEF IInv
<1>2. CASE Next
    BY <1>2, ExpireDueInv, CreateInviteInv, BindDigestInv, ConsumeByDigestInv, RevokeInviteInv,
       PruneInv, CopyInv, TickInv
    DEF Next, DaemonNext
<1>3. QED
    BY <1>1, <1>2

\* The inductive invariant holds throughout, with prune() and failed persists.
THEOREM InvariantCorrect == Spec => []IInv
<1>1. Init => IInv
    BY InitInv
<1>2. TypeOK /\ IInv /\ [Next]_vars => IInv'
    BY NextInv
<1>3. QED
    BY <1>1, <1>2, TypeCorrect, PTL DEF Spec

-----------------------------------------------------------------------------
(* What follows from it *)

\* No two live invites share an overlay IP, in memory or in the file.
THEOREM LiveIPsDistinctCorrect == Spec => []LiveIPsDistinct
<1>1. IInv => LiveIPsDistinct
    BY DEF IInv, Sound, Coherent, LiveIPsDistinct
<1>2. QED
    BY <1>1, InvariantCorrect, PTL

\* An invite admits one member at most, and only while it lives.
THEOREM AdmissionCorrect == Spec => []AdmittedOnceInTime
<1>1. IInv => AdmittedOnceInTime
    BY DEF IInv, AdmittedOnceInTime
<1>2. QED
    BY <1>1, InvariantCorrect, PTL

\* An invite whose revocation was confirmed admits nobody.
THEOREM RevocationCorrect == Spec => []RevokedNotAdmitted
<1>1. IInv => RevokedNotAdmitted
    BY DEF IInv
<1>2. QED
    BY <1>1, InvariantCorrect, PTL

\* Two members share an IP only across the retention window.
THEOREM SharingCorrect == Spec => []SharedOnlyAfterRetention
<1>1. IInv => SharedOnlyAfterRetention
    BY DEF IInv
<1>2. QED
    BY <1>1, InvariantCorrect, PTL

LEMMA LimitsFollow == TypeOK /\ IInv => HourlyLimit /\ PendingLimit
<1> SUFFICES ASSUME TypeOK, IInv PROVE HourlyLimit /\ PendingLimit
    OBVIOUS
<1> DEFINE recent == {i \in Invite : offered[i].at > 0 /\ now - offered[i].at < Hour}
<1>1. recent \subseteq IssuedLastHour(mem, now)
  <2> SUFFICES ASSUME NEW i \in recent PROVE i \in IssuedLastHour(mem, now)
    OBVIOUS
  <2>1. offered[i].at > 0 /\ now - offered[i].at < Hour /\ offered[i].at \in Nat
    BY DEF TypeOK, OfferedRecord
  <2>2. ~ (now - offered[i].at >= PruneAfter)
    BY <2>1, ParametersAreNat, RetentionIsLongest DEF TypeOK
  <2>3. mem.invites[i].state # "absent" /\ mem.invites[i].issuedAt = offered[i].at
    BY <2>1, <2>2 DEF IInv, Sound, Remembers
  <2>4. QED
    BY <2>1, <2>3 DEF IssuedLastHour
<1>2. IssuedLastHour(mem, now) \in SUBSET Invite
    BY DEF IssuedLastHour
<1>3. Cardinality(recent) <= MaxPerHour
    BY <1>1, <1>2, CountSubset, ParametersAreNat DEF IInv, Sound, Coherent
<1>4. QED
    BY <1>3 DEF HourlyLimit, PendingLimit, IInv, Sound, Coherent

\* Of the invites handed out, at most MaxPerHour lie in any window, and at most
\* MaxPending can still be answered, restarts and failed persists included.
THEOREM LimitsCorrect == Spec => []Limits
<1>1. TypeOK /\ IInv => Limits
    BY LimitsFollow DEF Limits
<1>2. QED
    BY <1>1, TypeCorrect, InvariantCorrect, PTL

LEMMA DurableFollows == TypeOK /\ IInv => ToldIsDurable
<1> SUFFICES ASSUME TypeOK, IInv, NEW i \in Invite
             PROVE  LET r == disk.invites[i]
                        forgotten(t) == r.state = "absent" /\ now - t >= PruneAfter
                    IN  /\ admitted[i].times > 0 =>
                              \/ r.state = "consumed" /\ r.consumedAt = admitted[i].at
                              \/ forgotten(admitted[i].at)
                        /\ i \in revoked /\ offered[i].at > 0 =>
                              r.state = "revoked" \/ forgotten(offered[i].at)
                        /\ offered[i].at > 0 =>
                              \/ r.state # "absent" /\ r.bound /\ r.ip = offered[i].ip
                              \/ forgotten(offered[i].at)
    BY DEF ToldIsDurable
<1>1. QED
    BY DEF IInv, Sound, Remembers

\* A restart loses nothing that somebody was told, until the retention window
\* has passed.
THEOREM DurabilityCorrect == Spec => []ToldIsDurable
<1>1. QED
    BY DurableFollows, TypeCorrect, InvariantCorrect, PTL

LEMMA QuarantineStep ==
    ASSUME TypeOK, IInv, [Next]_vars, NEW i \in minted' \ minted
    PROVE  LET h == mem'.invites[i].ip
           IN  released[h] > 0 => now - released[h] >= Quarantine
<1> DEFINE e == Expired(mem, now)
<1> DEFINE h == AllocateIP(e, now)
<1> DEFINE new == Noted(mem, Due(mem, now), offered, released, now)
<1>1. \E j \in Invite : CreateInvite(j) /\ minted' = minted \cup {j}
    BY DEF Next, DaemonNext, ExpireDue, CreateInvite, BindDigest, ConsumeByDigest, RevokeInvite,
           Prune, StoreIdempotency, Restart, Tick, history, vars
<1>2. i \in Invite /\ CreateInvite(i)
    BY <1>1
<1>3. e \in Snapshot /\ KeepsQuarantine(e, now, offered, new)
    BY ExpirySound
<1>4. mem'.invites[i] = NewRecord(h, now)
    BY <1>2, <1>3, WithRecordReads DEF CreateInvite
<1>5. mem'.invites[i].ip = h
    BY <1>4 DEF NewRecord
<1>6. h \in Host /\ h \notin UsedIPs(e) /\ ~ (e.quarantine[h] > now)
    BY <1>2, AllocateIPIsHost DEF CreateInvite
<1>t. /\ now \in Nat /\ released[h] \in Nat /\ released[h] <= now
      /\ e.quarantine[h] \in Nat
    BY <1>3, <1>6 DEF TypeOK, IInv, History, Snapshot
<1>7. ASSUME released[h] > 0, ~ (now - released[h] >= Quarantine) PROVE FALSE
  <2>1. new[h] \in {released[h], now}
    BY <1>6 DEF Noted
  <2>2. new[h] > 0 /\ now - new[h] < Quarantine
    BY <1>7, <1>t, <2>1, ParametersAreNat
  <2>3. ~ (e.quarantine[h] >= new[h] + Quarantine)
    BY <1>6, <1>t, <2>1, <2>2, ParametersAreNat
  <2>4. \E j \in Invite : e.invites[j].ip = h /\ e.invites[j].state \in {"pending", "consumed"}
    BY <1>3, <1>6, <2>2, <2>3 DEF KeepsQuarantine
  <2>5. QED
    BY <1>6, <2>4 DEF UsedIPs, Live
<1>8. QED
    BY <1>5, <1>7

\* The IP of an invite that was handed out is not handed out again within the
\* quarantine after its last release, whatever did not reach the file.
THEOREM QuarantineCorrect == Spec => QuarantineKept
<1>1. TypeOK /\ IInv /\ [Next]_vars =>
         [\A i \in minted' \ minted :
             LET h == mem'.invites[i].ip
             IN  released[h] > 0 => now - released[h] >= Quarantine]_vars
    BY QuarantineStep
<1>2. QED
    BY <1>1, TypeCorrect, InvariantCorrect, PTL DEF Spec, QuarantineKept

-----------------------------------------------------------------------------
(* The daemon as it is wired: nothing is ever pruned *)

\* Every invite that was handed out is still in memory and in the file.
NothingForgotten ==
    \A i \in Invite : offered[i].at > 0 =>
        mem.invites[i].state # "absent" /\ disk.invites[i].state # "absent"

LEMMA NothingForgottenStep ==
    ASSUME TypeOK, IInv, NothingForgotten, [DaemonNext]_vars
    PROVE  NothingForgotten'
<1> DEFINE e == Expired(mem, now)
<1>t. now \in Nat /\ mem \in Snapshot /\ e \in Snapshot
    BY ExpiredType DEF TypeOK
<1>e. \A i \in Invite : e.invites[i].state = "absent" => mem.invites[i].state = "absent"
    BY <1>t, ExpiredStates
<1>d. \A i \in Invite : AfterExpiry(mem).invites[i].state = "absent" =>
            mem.invites[i].state = "absent" \/ disk.invites[i].state = "absent"
    BY <1>e DEF AfterExpiry
<1>1. ASSUME NEW i \in Invite, CreateInvite(i) PROVE NothingForgotten'
  <2>1. \A r : \A j \in Invite \ {i} : WithRecord(e, i, r).invites[j] = e.invites[j]
    BY <1>t, WithRecordReads
  <2>2. ~ (offered[i].at > 0)
    BY <1>1 DEF CreateInvite, IInv, History
  <2>3. QED
    BY <1>1, <1>e, <1>d, <2>1, <2>2 DEF CreateInvite, NothingForgotten, Saved, SaveThrows
<1>2. ASSUME NEW i \in Invite, ConsumeByDigest(i) PROVE NothingForgotten'
  <2>1. \A r : /\ WithRecord(e, i, r).invites[i] = r
               /\ \A j \in Invite \ {i} : WithRecord(e, i, r).invites[j] = e.invites[j]
    BY <1>t, WithRecordReads
  <2>2. ConsumedRecord(e.invites[i], now).state = "consumed"
    BY <1>t DEF ConsumedRecord, Snapshot, Record
  <2>3. QED
    BY <1>2, <1>e, <1>d, <2>1, <2>2 DEF ConsumeByDigest, NothingForgotten, Saved, SaveThrows
<1>3. ASSUME NEW i \in Invite, RevokeInvite(i) PROVE NothingForgotten'
  <2>1. Closes(mem, Revoke(mem, i, now))
    BY <1>3, <1>t, RevokeCloses DEF RevokeInvite
  <2>2. \A j \in Invite : Revoke(mem, i, now).invites[j].state = "absent" =>
              mem.invites[j].state = "absent"
    BY <2>1 DEF Closes
  <2>3. QED
    BY <1>3, <2>2 DEF RevokeInvite, NothingForgotten, Saved, SaveThrows
<1>4. CASE ExpireDue
    BY <1>4, <1>e DEF ExpireDue, NothingForgotten, Saved, SaveThrows
<1>5. CASE BindDigest
  <2> DEFINE r == [mem.invites[binding] EXCEPT !.bound = TRUE]
  <2>1. binding \in Invite /\ mem.invites[binding].state # "absent"
    BY <1>5 DEF BindDigest, TypeOK, IInv, History
  <2>2. r.state = mem.invites[binding].state
    BY <1>t, <2>1 DEF Snapshot, Record
  <2>3. /\ WithRecord(mem, binding, r).invites[binding] = r
        /\ \A j \in Invite \ {binding} : WithRecord(mem, binding, r).invites[j] = mem.invites[j]
    BY <1>t, <2>1, WithRecordReads
  <2>4. \A j \in Invite \ {binding} : offered'[j] = offered[j]
    BY <1>5 DEF BindDigest, TypeOK
  <2>5. offered[binding].at = 0
    BY <1>5 DEF BindDigest, IInv, History
  <2> HIDE DEF r
  <2>6. /\ mem' = WithRecord(mem, binding, r)
        /\ disk' = mem' \/ (disk' = disk /\ offered' = offered)
    BY <1>5 DEF BindDigest, Saved, SaveThrows, r
  <2>7. QED
    BY <2>1, <2>2, <2>3, <2>4, <2>5, <2>6 DEF NothingForgotten
<1>6. CASE Restart \/ Tick \/ UNCHANGED vars
    BY <1>6 DEF Restart, Tick, vars, history, NothingForgotten
<1>7. QED
    BY <1>1, <1>2, <1>3, <1>4, <1>5, <1>6 DEF DaemonNext

LEMMA DistinctFollows == TypeOK /\ IInv /\ NothingForgotten => MembersHaveDistinctIPs
<1> SUFFICES ASSUME TypeOK, IInv, NothingForgotten, NEW i \in Invite, NEW j \in Invite,
                    admitted[i].times > 0, admitted[j].times > 0,
                    offered[i].ip = offered[j].ip
             PROVE  i = j
    BY DEF MembersHaveDistinctIPs
<1>1. offered[i].at > 0 /\ offered[j].at > 0
    BY DEF IInv, History
<1>2. /\ mem.invites[i].state = "consumed" /\ mem.invites[j].state = "consumed"
      /\ mem.invites[i].ip = mem.invites[j].ip
    BY <1>1 DEF IInv, Sound, Remembers, NothingForgotten
<1>3. QED
    BY <1>2 DEF IInv, Sound, Coherent, DistinctLiveIPs, Live

\* Two members of a network whose daemon never prunes have different IPs: the
\* collision-freedom of allocateIP(), through crashes and failed persists.
THEOREM DaemonCollisionFree == DaemonSpec => []MembersHaveDistinctIPs
<1>1. Init => TypeOK /\ IInv /\ NothingForgotten
    BY InitType, InitInv DEF Init, NothingForgotten
<1>2. TypeOK /\ IInv /\ NothingForgotten /\ [DaemonNext]_vars
         => (TypeOK /\ IInv /\ NothingForgotten)'
    BY NextType, NextInv, NothingForgottenStep DEF Next
<1>3. QED
    BY <1>1, <1>2, DistinctFollows, PTL DEF DaemonSpec

-----------------------------------------------------------------------------
(* The file implements the ledger *)

\* What a later snapshot may show of an invite that was handed out, when an
\* earlier one showed state a.
Shows(a) == IF a = "pending" THEN State ELSE {a, "absent"}

Later(s, u, off) ==
    \A i \in Invite : off[i].at > 0 => u.invites[i].state \in Shows(s.invites[i].state)

\* The file is never ahead of memory, and the two are the same while an invite
\* is between createInvite() and bindDigest().
FileIsBehind ==
    /\ binding # None => mem.invites[binding].state = "pending" /\ disk = mem
    /\ Later(disk, mem, offered)

LEMMA LaterSame ==
    ASSUME NEW s \in Snapshot, NEW off
    PROVE  Later(s, s, off)
    BY DEF Later, Shows, Snapshot, Record

LEMMA LaterTransitive ==
    ASSUME NEW s \in Snapshot, NEW u \in Snapshot, NEW w \in Snapshot, NEW off,
           Later(s, u, off), Later(u, w, off)
    PROVE  Later(s, w, off)
<1> SUFFICES ASSUME NEW i \in Invite, off[i].at > 0
             PROVE  w.invites[i].state \in Shows(s.invites[i].state)
    BY DEF Later
<1>1. /\ u.invites[i].state \in Shows(s.invites[i].state)
      /\ w.invites[i].state \in Shows(u.invites[i].state)
      /\ w.invites[i].state \in State
    BY DEF Later, Snapshot, Record
<1>2. QED
    BY <1>1 DEF Shows

LEMMA ClosesLater ==
    ASSUME NEW s \in Snapshot, NEW u \in Snapshot, NEW off, Closes(s, u)
    PROVE  Later(s, u, off)
    BY DEF Closes, Later, Shows, State

\* A handler whose leading expireDue() left `e' and whose own change made `w':
\* the file then holds what it held, what expireDue() wrote, or all.
LEMMA HandlerLater ==
    ASSUME TypeOK, TypeOK', FileIsBehind, NEW w,
           mem' = w, Later(Expired(mem, now), w, offered), offered' = offered,
           disk' = w \/ disk' = AfterExpiry(mem) \/ disk' = disk
    PROVE  Later(disk, disk', offered) /\ Later(disk', mem', offered)
<1> DEFINE e == Expired(mem, now)
<1>1. /\ mem \in Snapshot /\ disk \in Snapshot /\ e \in Snapshot /\ w \in Snapshot
      /\ disk' \in Snapshot
    BY ExpiredType DEF TypeOK
<1>2. Later(disk, mem, offered) /\ Later(mem, e, offered)
    BY <1>1, ExpiredCloses, ClosesLater DEF FileIsBehind, TypeOK
<1>3. Later(e, w, offered) /\ (AfterExpiry(mem) = disk \/ AfterExpiry(mem) = e)
    BY DEF AfterExpiry
<1> HIDE DEF e
<1>4. Later(disk, e, offered)
    BY <1>1, <1>2, LaterTransitive
<1>5. Later(disk, w, offered)
    BY <1>1, <1>3, <1>4, LaterTransitive
<1>6. CASE disk' = w
    BY <1>1, <1>5, <1>6, LaterSame
<1>7. CASE disk' = e
    BY <1>3, <1>4, <1>7
<1>8. CASE disk' = disk
    BY <1>1, <1>5, <1>8, LaterSame
<1>9. QED
    BY <1>3, <1>6, <1>7, <1>8

\* The same without a leading expireDue().
LEMMA WriteLater ==
    ASSUME TypeOK, TypeOK', FileIsBehind, NEW w,
           mem' = w, Later(mem, w, offered), disk' = w \/ disk' = disk
    PROVE  Later(disk, disk', offered) /\ Later(disk', mem', offered)
<1>1. mem \in Snapshot /\ disk \in Snapshot /\ w \in Snapshot
    BY DEF TypeOK
<1>2. Later(disk, w, offered)
    BY <1>1, LaterTransitive DEF FileIsBehind
<1>3. QED
    BY <1>1, <1>2, LaterSame

-----------------------------------------------------------------------------
(* What each handler shows of the invites that were handed out *)

\* Every step but the return of bindDigest() moves the file along.
Moves ==
    /\ UNCHANGED offered
    /\ Later(disk, disk', offered) /\ Later(disk', mem', offered)
    /\ binding' # None => mem'.invites[binding'].state = "pending" /\ disk' = mem'

LEMMA CreateMoves ==
    ASSUME TypeOK, TypeOK', IInv, FileIsBehind, NEW i \in Invite, CreateInvite(i)
    PROVE  Moves
<1> DEFINE e == Expired(mem, now)
<1> DEFINE r == NewRecord(AllocateIP(e, now), now)
<1> DEFINE made == WithRecord(e, i, r)
<1>1. /\ mem' = made /\ offered' = offered /\ i \notin minted
      /\ \/ disk' = made /\ binding' = i
         \/ disk' = AfterExpiry(mem) /\ binding' = None
    BY DEF CreateInvite, Saved, SaveThrows
<1>2. e \in Snapshot /\ r.state = "pending"
    BY ExpiredType DEF TypeOK, NewRecord
<1> HIDE DEF r
<1>3. made.invites[i] = r /\ \A j \in Invite \ {i} : made.invites[j] = e.invites[j]
    BY <1>2, WithRecordReads
<1>4. ~(offered[i].at > 0)
    BY <1>1 DEF IInv, History
<1>5. Later(e, made, offered)
  <2>1. Later(e, e, offered)
    BY <1>2, LaterSame
  <2>2. QED
    BY <1>3, <1>4, <2>1 DEF Later
<1>6. Later(disk, disk', offered) /\ Later(disk', mem', offered)
    BY <1>1, <1>5, HandlerLater
<1>7. QED
    BY <1>1, <1>2, <1>3, <1>6 DEF Moves

LEMMA ConsumeMoves ==
    ASSUME TypeOK, TypeOK', FileIsBehind, NEW i \in Invite, ConsumeByDigest(i)
    PROVE  Moves
<1> DEFINE e == Expired(mem, now)
<1> DEFINE r == ConsumedRecord(e.invites[i], now)
<1> DEFINE done == WithRecord(e, i, r)
<1>1. /\ mem' = done /\ offered' = offered /\ binding' = None
      /\ disk' = done \/ disk' = AfterExpiry(mem)
      /\ e.invites[i].state = "pending"
    BY DEF ConsumeByDigest, Saved, SaveThrows, Idle
<1>2. e \in Snapshot /\ e.invites[i] \in Record
    BY ExpiredType DEF TypeOK, Snapshot
<1>3. r.state = "consumed"
    BY <1>2 DEF ConsumedRecord, Record
<1> HIDE DEF r
<1>4. done.invites[i] = r /\ \A j \in Invite \ {i} : done.invites[j] = e.invites[j]
    BY <1>2, WithRecordReads
<1>5. Later(e, done, offered)
  <2>1. Later(e, e, offered)
    BY <1>2, LaterSame
  <2>2. done.invites[i].state \in Shows(e.invites[i].state)
    BY <1>1, <1>3, <1>4 DEF Shows, State
  <2>3. QED
    BY <1>4, <2>1, <2>2 DEF Later
<1>6. Later(disk, disk', offered) /\ Later(disk', mem', offered)
    BY <1>1, <1>5, HandlerLater
<1>7. QED
    BY <1>1, <1>6 DEF Moves

LEMMA RevokeMoves ==
    ASSUME TypeOK, TypeOK', FileIsBehind, NEW i \in Invite, RevokeInvite(i)
    PROVE  Moves
<1> DEFINE u == Revoke(mem, i, now)
<1>1. /\ mem' = u /\ offered' = offered /\ binding' = None
      /\ disk' = u \/ disk' = disk
      /\ mem.invites[i].state = "pending"
    BY DEF RevokeInvite, Saved, SaveThrows, Idle
<1>2. mem \in Snapshot /\ u \in Snapshot /\ Closes(mem, u)
    BY <1>1, RevokeType, RevokeCloses DEF TypeOK
<1> HIDE DEF u
<1>3. Later(mem, u, offered)
    BY <1>2, ClosesLater
<1>4. Later(disk, disk', offered) /\ Later(disk', mem', offered)
    BY <1>1, <1>3, WriteLater
<1>5. QED
    BY <1>1, <1>4 DEF Moves

LEMMA ExpireMoves ==
    ASSUME TypeOK, TypeOK', FileIsBehind, ExpireDue
    PROVE  Moves
<1> DEFINE e == Expired(mem, now)
<1>1. /\ mem' = e /\ offered' = offered /\ binding' = None
      /\ disk' = e \/ disk' = disk
    BY DEF ExpireDue, Saved, SaveThrows, Idle
<1>2. mem \in Snapshot /\ e \in Snapshot /\ Closes(mem, e)
    BY ExpiredType, ExpiredCloses DEF TypeOK
<1> HIDE DEF e
<1>3. Later(mem, e, offered)
    BY <1>2, ClosesLater
<1>4. Later(disk, disk', offered) /\ Later(disk', mem', offered)
    BY <1>1, <1>3, WriteLater
<1>5. QED
    BY <1>1, <1>4 DEF Moves

LEMMA PruneMoves ==
    ASSUME TypeOK, TypeOK', FileIsBehind, Prune
    PROVE  Moves
<1> DEFINE u == Pruned(mem, now)
<1>1. /\ mem' = u /\ offered' = offered /\ binding' = None
      /\ disk' = u \/ disk' = disk
    BY DEF Prune, Saved, SaveThrows, Idle, history
<1>2. Later(mem, u, offered)
  <2>1. ASSUME NEW i \in Invite
        PROVE  u.invites[i] = mem.invites[i] \/ u.invites[i] = Absent
    BY PrunedStates DEF TypeOK
  <2>2. Later(mem, mem, offered)
    BY LaterSame DEF TypeOK
  <2>3. \A i \in Invite : Absent.state \in Shows(mem.invites[i].state)
    BY DEF Absent, Shows, State
  <2>4. QED
    BY <2>1, <2>2, <2>3 DEF Later
<1>3. Later(disk, disk', offered) /\ Later(disk', mem', offered)
    BY <1>1, <1>2, WriteLater
<1>4. QED
    BY <1>1, <1>3 DEF Moves

\* storeIdempotency(), a restart and the clock.
LEMMA CopyMoves ==
    ASSUME TypeOK, TypeOK', FileIsBehind,
           StoreIdempotency \/ Restart \/ Tick \/ UNCHANGED vars
    PROVE  Moves
<1>1. mem \in Snapshot /\ disk \in Snapshot
    BY DEF TypeOK
<1>2. CASE StoreIdempotency
  <2>1. mem' = mem /\ disk' = mem /\ offered' = offered /\ binding' = None
    BY <1>2 DEF StoreIdempotency, Saved, Idle, history
  <2>2. QED
    BY <1>1, <2>1, LaterSame DEF Moves, FileIsBehind
<1>3. CASE Restart
  <2>1. mem' = disk /\ disk' = disk /\ offered' = offered /\ binding' = None
    BY <1>3 DEF Restart, history
  <2>2. QED
    BY <1>1, <2>1, LaterSame DEF Moves
<1>4. CASE Tick \/ UNCHANGED vars
  <2>1. mem' = mem /\ disk' = disk /\ offered' = offered /\ binding' = binding
    BY <1>4 DEF Tick, vars, history
  <2>2. QED
    BY <1>1, <2>1, LaterSame DEF Moves, FileIsBehind
<1>5. QED
    BY <1>2, <1>3, <1>4

-----------------------------------------------------------------------------
(* Each step is a step of the ledger, or none *)

LEMMA AdvanceFollows ==
    ASSUME TypeOK, TypeOK', Moves
    PROVE  Ledger!Advance
<1>1. /\ offered' = offered
      /\ \A i \in Invite : offered[i].at > 0 =>
            disk'.invites[i].state \in Shows(disk.invites[i].state)
    BY DEF Moves, Later
<1>2. \A i \in Invite : /\ disk.invites[i].state \in State
                        /\ disk'.invites[i].state \in State
                        /\ offered[i].at \in Nat
    BY DEF TypeOK, Snapshot, Record, OfferedRecord
<1>3. ASSUME NEW i \in Invite
      PROVE  LedgerStatus'[i] \in Ledger!Onward(LedgerStatus[i])
                /\ LedgerStatus'[i] \in Ledger!Status
  <2>1. CASE offered[i].at = 0
    BY <1>1, <2>1 DEF LedgerStatus, Ledger!Onward, Ledger!Status
  <2>2. CASE offered[i].at > 0
    BY <1>1, <1>2, <2>2 DEF LedgerStatus, Ledger!Onward, Ledger!Status, Ledger!Closed,
       Shows, State
  <2>3. QED
    BY <1>2, <2>1, <2>2
<1>4. LedgerStatus' \in [Invite -> Ledger!Status]
  <2>1. LedgerStatus' = [i \in Invite |-> LedgerStatus'[i]]
    BY DEF LedgerStatus
  <2>2. QED
    BY <1>3, <2>1
<1>5. LedgerIP' = LedgerIP
    BY <1>1 DEF LedgerIP
<1>6. QED
    BY <1>3, <1>4, <1>5 DEF Ledger!Advance

\* bindDigest() that returns hands the invite out, at an IP that no other
\* invite holds in the file.
LEMMA OfferFollows ==
    ASSUME TypeOK, IInv, FileIsBehind, BindDigest
    PROVE  Moves \/ (FileIsBehind' /\ \E i \in Invite : Ledger!Offer(i))
<1> DEFINE i == binding
<1> DEFINE r == [mem.invites[i] EXCEPT !.bound = TRUE]
<1> DEFINE u == WithRecord(mem, i, r)
<1> DEFINE off == [offered EXCEPT ![i] = [ip |-> r.ip, at |-> r.issuedAt]]
<1>0. /\ mem' = u /\ binding' = None
      /\ \/ disk' = u /\ offered' = off
         \/ disk' = disk /\ offered' = offered
    BY DEF BindDigest, Saved, SaveThrows
<1>i. /\ i \in Invite /\ mem \in Snapshot /\ disk = mem
      /\ mem.invites[i].state = "pending" /\ offered[i].at = 0
      /\ mem.invites[i].ip \in Host /\ mem.invites[i].issuedAt > 0
    BY DEF BindDigest, TypeOK, FileIsBehind, IInv, History, Sound, Coherent
<1>w. u.invites[i] = r /\ \A j \in Invite \ {i} : u.invites[j] = mem.invites[j]
    BY <1>i, WithRecordReads
<1>r. /\ r.state = "pending" /\ r.ip = mem.invites[i].ip
      /\ r.issuedAt = mem.invites[i].issuedAt
    BY <1>i DEF Snapshot, Record
<1>o. /\ off[i].ip = r.ip /\ off[i].at = r.issuedAt
      /\ \A j \in Invite \ {i} : off[j] = offered[j]
    BY <1>i DEF TypeOK
<1> HIDE DEF u, r, off
<1>1. CASE disk' = disk /\ offered' = offered
  <2>1. Later(mem, mem, offered)
    BY <1>i, LaterSame
  <2>2. Later(mem, u, offered)
    BY <1>i, <1>w, <2>1 DEF Later
  <2>3. QED
    BY <1>0, <1>1, <1>i, <2>1, <2>2 DEF Moves
<1>2. CASE disk' = u /\ offered' = off
  <2>1. FileIsBehind'
    <3>1. \A j \in Invite : u.invites[j].state \in Shows(u.invites[j].state)
      BY <1>i, <1>w, <1>r DEF Shows, State, Snapshot, Record
    <3>2. QED
      BY <1>0, <1>2, <3>1 DEF FileIsBehind, Later
  <2>2. LedgerStatus[i] = "unissued" /\ LedgerStatus'[i] = "pending"
    BY <1>2, <1>i, <1>w, <1>r, <1>o DEF LedgerStatus
  <2>3. \A j \in Invite \ {i} : LedgerStatus'[j] = LedgerStatus[j]
    BY <1>2, <1>i, <1>w, <1>o DEF LedgerStatus
  <2>4. LedgerStatus' = [LedgerStatus EXCEPT ![i] = "pending"]
    BY <2>2, <2>3 DEF LedgerStatus
  <2>5. LedgerIP' = [LedgerIP EXCEPT ![i] = r.ip]
    BY <1>2, <1>i, <1>o DEF LedgerIP
  <2>6. ASSUME NEW j \in Ledger!Holding(LedgerStatus) PROVE LedgerIP[j] # r.ip
    <3>1. /\ j \in Invite /\ offered[j].at # 0
          /\ disk.invites[j].state \in {"pending", "consumed"}
      BY DEF Ledger!Holding, LedgerStatus
    <3>2. offered[j].at > 0 /\ j # i
      BY <3>1, <1>i DEF TypeOK, OfferedRecord
    <3>3. disk.invites[j].ip = offered[j].ip
      BY <3>1, <3>2 DEF IInv, Sound, Remembers
    <3>4. mem.invites[j].ip # mem.invites[i].ip
      BY <1>i, <3>1, <3>2 DEF IInv, Sound, Coherent, DistinctLiveIPs, Live
    <3>5. QED
      BY <1>i, <1>r, <3>1, <3>3, <3>4 DEF LedgerIP
  <2>7. r.ip \in Ledger!Host
    BY <1>i, <1>r DEF Ledger!Host, Host
  <2>8. Ledger!Offer(i)
    BY <2>2, <2>4, <2>5, <2>6, <2>7 DEF Ledger!Offer
  <2>9. QED
    BY <1>i, <2>1, <2>8
<1>3. QED
    BY <1>0, <1>1, <1>2

\* Every step of the store maps to a step of the ledger or to none.
LEMMA LedgerStep ==
    ASSUME TypeOK, TypeOK', IInv, FileIsBehind, [Next]_vars
    PROVE  FileIsBehind' /\ [Ledger!LedgerNext]_(Ledger!ledgerVars)
<1>1. Moves \/ (FileIsBehind' /\ \E i \in Invite : Ledger!Offer(i))
    BY CreateMoves, ConsumeMoves, RevokeMoves, ExpireMoves, PruneMoves, CopyMoves, OfferFollows
       DEF Next, DaemonNext
<1>2. CASE Moves
  <2>1. FileIsBehind'
    BY <1>2 DEF Moves, FileIsBehind
  <2>2. Ledger!Advance
    BY <1>2, AdvanceFollows
  <2>3. QED
    BY <2>1, <2>2 DEF Ledger!LedgerNext
<1>3. CASE FileIsBehind' /\ \E i \in Invite : Ledger!Offer(i)
    BY <1>3 DEF Ledger!LedgerNext
<1>4. QED
    BY <1>1, <1>2, <1>3

\* What the file shows of the invites that were handed out follows the state
\* machine that the class comment of invite-lifecycle.ts promises, through
\* crashes and failed persists: the store implements InviteLedger.
THEOREM LedgerImplemented == Spec => ImplementsLedger
<1>1. Init => FileIsBehind /\ Ledger!LedgerInit
    BY DEF Init, FileIsBehind, Later, Ledger!LedgerInit, LedgerStatus, LedgerIP
<1>2. TypeOK /\ TypeOK' /\ IInv /\ FileIsBehind /\ [Next]_vars
         => FileIsBehind' /\ [Ledger!LedgerNext]_(Ledger!ledgerVars)
    BY LedgerStep
<1>3. QED
    BY <1>1, <1>2, TypeCorrect, InvariantCorrect, PTL DEF Spec, ImplementsLedger, Ledger!Spec
=============================================================================
