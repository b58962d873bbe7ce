------------------------------ MODULE Endpoints ------------------------------
(***************************************************************************)
(* EndpointReconciler of src/src/endpoint-reconciler.ts over one PeerEntry *)
(* of src/src/peerstore.ts: tick() looks at the age of the last handshake, *)
(* points the device at the next candidate endpoint and probes it.  It     *)
(* waits at refetchRoster(), applyEndpoint() and probe(), and run() starts *)
(* a tick per interval whether or not the last one has ended.              *)
(*                                                                         *)
(* Times are ages.  A tick takes its time once, at its start, and all it   *)
(* records carries that time: an age is compared relative to the tick's.   *)
(* Whether an endpoint answers is up to the world.                         *)
(***************************************************************************)
EXTENDS Integers, Sequences, FiniteSets

CONSTANTS
    Host,           \* host:port of endpoints
    Lists,          \* candidate lists that a roster or the DNS may come with
    StaleAfter,     \* STALE_THRESHOLD_SEC
    InitialBackoff, \* INITIAL_BACKOFF_MS
    MaxBackoff,     \* MAX_BACKOFF_MS
    MaxFailures,    \* MAX_CONSECUTIVE_FAILURES
    FallbackWindow, \* FALLBACK_WINDOW_MS
    Tick,           \* bound of the model: ticks that may overlap
    MaxWait,        \* bound of the model: how long a tick waits for answers
    MaxUpdates      \* bound of the model: updateCandidatesFromRoster() calls

ASSUME TimesArePositive ==
    /\ StaleAfter \in Nat \ {0} /\ InitialBackoff \in Nat \ {0}
    /\ MaxBackoff \in Nat /\ MaxBackoff >= InitialBackoff
    /\ MaxFailures \in Nat \ {0} /\ FallbackWindow \in Nat \ {0}
    /\ MaxWait \in Nat /\ MaxUpdates \in Nat

Forever == -1
NoHost == "none"
Candidate == [host : Host, type : {"wan", "lan"}, source : {"roster", "fallback"},
              left : {Forever} \cup 0 .. FallbackWindow]
NoTick == [at |-> "idle", age |-> 0, host |-> NoHost]
Min2(a, b) == IF a < b THEN a ELSE b

\* backoffMs after so many failures in a row.
Backoff[n \in Nat] ==
    IF n = 0 THEN InitialBackoff ELSE Min2(Backoff[n - 1] * 2, MaxBackoff)

ASSUME ListsAreCandidates == Lists \subseteq Seq(Candidate)
ASSUME HostsAreNamed == NoHost \notin Host
\* 10 s doubled 10 times is beyond 60 s: counting failures further tells nothing.
ASSUME BackoffReachesMax == Backoff[MaxFailures] = MaxBackoff

VARIABLES
    candidates, idx,        \* peer.candidates, peer.currentCandidateIdx
    state,                  \* peer.state
    hsAge, attAge,          \* since peer.lastHandshakeTime, lastAttemptTime
    failures, backoff,      \* peer.consecutiveFailures (to its limit), backoffMs
    notified,               \* the peer is in unreachableNotified
    job,                    \* ticks under way: where they wait, age, candidate
    dialled,                \* the endpoint that the device has for the peer
    world,                  \* what endpoints do: "ok", "dead" or "throws"
    proved,                 \* history: the endpoint the last good probe was of
    late,                   \* history: two ticks of the process overlapped
    updates                 \* bound: updates so far

peerVars == <<candidates, idx, state, hsAge, attAge, failures, backoff>>
endpointVars == <<peerVars, notified, job, dialled, world, proved, late, updates>>

\* Ages beyond these are never told apart; 0 in the code is such an age, too.
HsOld == StaleAfter + MaxWait
AttOld == MaxBackoff + MaxWait

-----------------------------------------------------------------------------
(* The peer store *)

\* sortCandidates(): WAN, LAN, then what was kept, else in the order they came;
\* the first of each host:port remains.
Unexpired(c) == c.left # 0
Rank(c) == IF c.source = "fallback" THEN 3 ELSE IF c.type = "wan" THEN 1 ELSE 2
Before(cs, i, j) ==
    Rank(cs[i]) < Rank(cs[j]) \/ (Rank(cs[i]) = Rank(cs[j]) /\ i < j)
Remaining(cs) ==
    {i \in DOMAIN cs : /\ Unexpired(cs[i])
                       /\ \A j \in DOMAIN cs \ {i} :
                             Unexpired(cs[j]) /\ cs[j].host = cs[i].host => Before(cs, i, j)}
InOrder(cs, f) == \A m, n \in DOMAIN f : m < n => Before(cs, f[m], f[n])
Order(cs) ==
    CHOOSE f \in [1 .. Cardinality(Remaining(cs)) -> Remaining(cs)] : InOrder(cs, f)
Sorted(cs) == [n \in DOMAIN Order(cs) |-> cs[Order(cs)[n]]]

\* What updateCandidatesFromRoster() keeps of the old candidates; the ones that
\* were kept before are given up, and Sorted leaves them out.
AsFallback(c, left) ==
    [c EXCEPT !.source = "fallback", !.left = IF c.source = "fallback" THEN 0 ELSE left]

\* Mutant: an expired candidate stays expired.
KeptUnlessExpired(cs) ==
    [i \in DOMAIN cs |-> AsFallback(cs[i], Min2(cs[i].left, FallbackWindow))]

Kept(cs) == [i \in DOMAIN cs |-> AsFallback(cs[i], FallbackWindow)]

CurrentCandidate == candidates[(idx % Len(candidates)) + 1]

\* computePeerState() at a time that lies `age' back.
StateAt(hs, fails, age) ==
    IF hs < HsOld /\ hs - age < StaleAfter THEN "active"
    ELSE IF fails >= MaxFailures THEN "unreachable" ELSE "stale"

\* shouldRetry()
ShouldRetry(st, age) == st # "active" /\ attAge - age >= backoff

\* Mutant: the backoff starts over, the count goes on.
RecordSuccessKeepsCount(age) ==
    /\ hsAge' = age
    /\ backoff' = InitialBackoff
    /\ state' = "active"
    /\ proved' = dialled
    /\ UNCHANGED <<attAge, failures>>

\* recordHandshakeSuccess()
RecordSuccess(age) ==
    /\ hsAge' = age
    /\ failures' = 0
    /\ backoff' = InitialBackoff
    /\ state' = "active"
    /\ proved' = dialled
    /\ UNCHANGED attAge

\* recordHandshakeFailure()
RecordFailure(age) ==
    /\ failures' = Min2(failures + 1, MaxFailures)
    /\ attAge' = age
    /\ backoff' = Min2(backoff * 2, MaxBackoff)
    /\ state' = StateAt(hsAge, failures', age)
    /\ UNCHANGED <<hsAge, proved>>

\* Mutant: the index stays.
AdvanceNot == UNCHANGED idx

\* advanceCandidate()
AdvanceCandidate ==
    idx' = IF candidates = <<>> THEN idx ELSE (idx + 1) % Len(candidates)

-----------------------------------------------------------------------------
(* tick() *)

Waits(t, at, age, host) == job' = [job EXCEPT ![t] = [at |-> at, age |-> age, host |-> host]]
Ends(t) == job' = [job EXCEPT ![t] = NoTick]
Busy == {t \in Tick : job[t].at # "idle"}

\* From shouldRetry() to the first await; st is the peer's state by then.
Proceed(t, st, age) ==
    \/ /\ ~ShouldRetry(st, age)
       /\ state' = st
       /\ Ends(t)
       /\ UNCHANGED <<hsAge, attAge, failures, backoff, proved>>
    \/ /\ ShouldRetry(st, age) /\ candidates = <<>>
       /\ RecordFailure(age)
       /\ Ends(t)
    \/ /\ ShouldRetry(st, age) /\ candidates # <<>>
       /\ state' = st
       /\ Waits(t, "applying", age, CurrentCandidate.host)
       /\ UNCHANGED <<hsAge, attAge, failures, backoff, proved>>

\* run() starts a tick; an active peer is left alone.
TickActive(t) ==
    /\ job[t].at = "idle"
    /\ StateAt(hsAge, failures, 0) = "active"
    /\ state' = "active"
    /\ notified' = FALSE
    /\ UNCHANGED <<candidates, idx, hsAge, attAge, failures, backoff, job, dialled,
                   world, proved, late, updates>>

\* The first tick that finds the peer unreachable asks for the roster.
TickRefetches(t) ==
    /\ job[t].at = "idle"
    /\ StateAt(hsAge, failures, 0) = "unreachable" /\ ~notified
    /\ state' = "unreachable"
    /\ notified' = TRUE
    /\ Waits(t, "refetching", 0, NoHost)
    /\ late' = (late \/ Busy # {})
    /\ UNCHANGED <<candidates, idx, hsAge, attAge, failures, backoff, dialled, world,
                   proved, updates>>

TickProceeds(t) ==
    LET st == StateAt(hsAge, failures, 0)
    IN  /\ job[t].at = "idle"
        /\ st = "stale" \/ (st = "unreachable" /\ notified)
        /\ Proceed(t, st, 0)
        /\ late' = (late \/ Busy # {})
        /\ UNCHANGED <<candidates, idx, notified, dialled, world, updates>>

\* refetchRoster() returns or throws.
Refetched(t) ==
    /\ job[t].at = "refetching"
    /\ Proceed(t, state, job[t].age)
    /\ UNCHANGED <<candidates, idx, notified, dialled, world, late, updates>>

\* Mutant: the handshake counts as soon as the endpoint is set.
AppliedCounts(t) ==
    /\ job[t].at = "applying" /\ world[job[t].host] # "throws"
    /\ dialled' = job[t].host
    /\ RecordSuccess(job[t].age)
    /\ Ends(t)
    /\ UNCHANGED <<candidates, idx, notified, world, late, updates>>

\* applyEndpoint() returns.
Applied(t) ==
    /\ job[t].at = "applying" /\ world[job[t].host] # "throws"
    /\ dialled' = job[t].host
    /\ Waits(t, "probing", job[t].age, job[t].host)
    /\ UNCHANGED <<peerVars, notified, world, proved, late, updates>>

\* It throws, and so does the tick.  Nothing in run() or around it handles the
\* rejected promise, so Node ends the process; a new one has a peer entry of its
\* own (createPeerEntry()) and finds the endpoint that the device had.
ApplyThrows(t) ==
    /\ job[t].at = "applying" /\ world[job[t].host] = "throws"
    /\ \E list \in Lists : candidates' = Sorted(list)
    /\ idx' = 0 /\ state' = "stale"
    /\ hsAge' = HsOld /\ attAge' = AttOld
    /\ failures' = 0 /\ backoff' = InitialBackoff
    /\ notified' = FALSE
    /\ job' = [u \in Tick |-> NoTick]
    /\ late' = FALSE
    /\ UNCHANGED <<dialled, world, proved, updates>>

\* probe() answers for the endpoint that the device has by now.
ProbeOk(t) ==
    /\ job[t].at = "probing" /\ world[dialled] = "ok"
    /\ RecordSuccess(job[t].age)
    /\ Ends(t)
    /\ UNCHANGED <<candidates, idx, notified, dialled, world, late, updates>>

ProbeFails(t) ==
    /\ job[t].at = "probing" /\ world[dialled] # "ok"
    /\ RecordFailure(job[t].age)
    /\ AdvanceCandidate
    /\ Ends(t)
    /\ UNCHANGED <<candidates, notified, dialled, world, late, updates>>

Starts(t) == TickActive(t) \/ TickRefetches(t) \/ TickProceeds(t)
GoesOn(t) == Refetched(t) \/ Applied(t) \/ ApplyThrows(t) \/ ProbeOk(t) \/ ProbeFails(t)

-----------------------------------------------------------------------------
(* Around it *)

\* updateCandidatesFromRoster(), for a roster or, in refreshDns(), for the DNS.
UpdateCandidates(list) ==
    /\ updates < MaxUpdates
    /\ candidates' = Sorted(list \o Kept(candidates))
    /\ idx' = 0
    /\ updates' = updates + 1
    /\ UNCHANGED <<state, hsAge, attAge, failures, backoff, notified, job, dialled,
                   world, proved, late>>

WorldChanges ==
    /\ \E h \in Host, w \in {"ok", "dead", "throws"} : world' = [world EXCEPT ![h] = w]
    /\ UNCHANGED <<peerVars, notified, job, dialled, proved, late, updates>>

Older(age, old) == Min2(age + 1, old)
TimePasses ==
    /\ \A t \in Busy : job[t].age < MaxWait
    /\ hsAge' = Older(hsAge, HsOld) /\ attAge' = Older(attAge, AttOld)
    /\ candidates' = [i \in DOMAIN candidates |->
                        [candidates[i] EXCEPT !.left = IF @ \in {Forever, 0} THEN @ ELSE @ - 1]]
    /\ job' = [t \in Tick |-> IF t \in Busy THEN [job[t] EXCEPT !.age = @ + 1] ELSE job[t]]
    /\ UNCHANGED <<idx, state, failures, backoff, notified, dialled, world, proved, late,
                   updates>>

\* createPeerEntry()
PeerInit ==
    /\ \E list \in Lists : candidates = Sorted(list)
    /\ idx = 0 /\ state = "stale"
    /\ hsAge = HsOld /\ attAge = AttOld
    /\ failures = 0 /\ backoff = InitialBackoff
    /\ notified = FALSE
    /\ job = [t \in Tick |-> NoTick]
    /\ dialled = NoHost /\ proved = NoHost
    /\ world \in [Host -> {"ok", "dead"}]
    /\ late = FALSE /\ updates = 0

PeerNext ==
    \/ \E t \in Tick : Starts(t) \/ GoesOn(t)
    \/ \E list \in Lists : UpdateCandidates(list)
    \/ WorldChanges \/ TimePasses

\* The timer of run() goes on, calls answer (they have timeouts), time passes.
PeerSpec ==
    /\ PeerInit /\ [][PeerNext]_endpointVars
    /\ WF_endpointVars(\E t \in Tick : Starts(t))
    /\ \A t \in Tick : WF_endpointVars(GoesOn(t))
    /\ WF_endpointVars(TimePasses)

-----------------------------------------------------------------------------
(* Properties *)

\* The variables keep their types; hosts on the list differ, and the index is
\* one of it.
PeerTypeOK ==
    /\ candidates \in Seq(Candidate)
    /\ \A i, j \in DOMAIN candidates : candidates[i].host = candidates[j].host => i = j
    /\ idx \in Nat /\ (idx < Len(candidates) \/ idx = 0)
    /\ state \in {"active", "stale", "unreachable"}
    /\ hsAge \in 0 .. HsOld /\ attAge \in 0 .. AttOld
    /\ failures \in 0 .. MaxFailures /\ backoff \in InitialBackoff .. MaxBackoff
    /\ notified \in BOOLEAN /\ late \in BOOLEAN
    /\ job \in [Tick -> [at : {"idle", "refetching", "applying", "probing"},
                         age : 0 .. MaxWait, host : Host \cup {NoHost}]]
    /\ dialled \in Host \cup {NoHost} /\ proved \in Host \cup {NoHost}
    /\ world \in [Host -> {"ok", "dead", "throws"}]
    /\ updates \in 0 .. MaxUpdates

\* As long as ticks have not overlapped, the device of a peer that counts as
\* active has the endpoint that answered: tick() moves it only when the
\* handshake is too old, and only a probe makes the peer active again.
ActiveIsProved == ~late /\ state = "active" => dialled = proved /\ dialled # NoHost

\* The backoff is the one that the failures in a row ask for, and a peer is
\* unreachable only after all of them and with no fresh handshake, however
\* late the answers of overlapping ticks are recorded.
OutageIsMeant ==
    /\ backoff = Backoff[failures]
    /\ state = "unreachable" => failures = MaxFailures /\ hsAge >= StaleAfter

\* A new list keeps every endpoint that the last one brought, for a while: the
\* peer may not have moved yet.
PreviousIsKept ==
    [][updates' > updates =>
          \A i \in DOMAIN candidates :
              candidates[i].source = "roster" =>
                  \E j \in DOMAIN candidates' :
                      candidates'[j].host = candidates[i].host /\ Unexpired(candidates'[j])]_endpointVars

\* If from some time on one endpoint on the list answers, none throws, and a
\* tick ends before the next one starts, the peer is active again and again.
ListedHosts == {candidates[i].host : i \in DOMAIN candidates}
Reachable(h) ==
    /\ h \in ListedHosts /\ world[h] = "ok"
    /\ \A g \in ListedHosts : world[g] # "throws"
    /\ \A t, u \in Busy : t = u
Reconnects == \A h \in Host : <>[]Reachable(h) => []<>(state = "active")
=============================================================================
