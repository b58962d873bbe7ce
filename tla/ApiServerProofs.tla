--------------------------- MODULE ApiServerProofs ---------------------------
(***************************************************************************)
(* Proofs about ApiServer, for any sessions, connections, keys, streams    *)
(* and limits, and any bound of the clock.                                 *)
(***************************************************************************)
EXTENDS ApiServer, FiniteSetTheorems, TLAPS

-----------------------------------------------------------------------------
(* The invariant *)

\* As long as no request came while another was under way: the key field is
\* the reader's, and what is stored outlives what was promised.
OneByOne ==
    ~overlap =>
        /\ \A c \in Conn : req[c] # Idle => \A d \in Conn \ {c} : req[d] = Idle
        /\ \A c \in Conn : req[c].at = "reading" => keyField = req[c].key
        /\ \A c \in Conn : req[c].at = "running" => req[c].used = req[c].key
        /\ \A k \in Key : until[k] <= store[k].expiresAt

\* What a session's count has seen of the requests R that are younger than one
\* window at time t, and what the count before it had seen: with q.resetAt the
\* count starts again, and by then the requests before its start are too old.
Current(R, resetAt) == {e \in R : e.at + Window >= resetAt}
RateOK(R, q, t) ==
    /\ IsFiniteSet(R)
    /\ \A e \in R : e.at <= t /\ t - e.at < Window /\ e.at < q.resetAt
    /\ \A e \in At(R, t) : e.n < Cardinality(At(R, t))
    /\ q.born = -1 => R = {}
    /\ q.resetAt <= t + Window
    /\ Cardinality(Current(R, q.resetAt)) <= q.count
    /\ Cardinality(R \ Current(R, q.resetAt)) <= MaxRequests
Rates == \A s \in Session : RateOK(recent[s], session[s], now)

IInv == TypeOK /\ OneByOne /\ SlotsAreUsed /\ Rates

-----------------------------------------------------------------------------
(* Types *)

Info == [born : -1 .. MaxTime, count : 0 .. MaxRequests, resetAt : Nat]

LEMMA IdleIs == Idle \in Request /\ Idle.at = "idle" /\ Idle.key = NoKey
BY DEF Idle, Request, Route

\* A request that has just been let through.
Reading(r, k, b) ==
    [Idle EXCEPT !.at = "reading", !.route = r, !.key = k, !.body = b]

LEMMA ReadingIs ==
    ASSUME NEW r \in Route, NEW k \in Key \cup {NoKey}, NEW b \in Body
    PROVE  /\ Reading(r, k, b) \in Request /\ Reading(r, k, b) # Idle
           /\ Reading(r, k, b).at = "reading" /\ Reading(r, k, b).key = k
<1>1. Reading(r, k, b).at = "reading" /\ Reading(r, k, b).key = k
  BY DEF Idle, Reading
<1>2. Reading(r, k, b) \in Request
  BY DEF Idle, Request, Reading
<1> QED
  BY <1>1, <1>2, IdleIs

LEMMA RolledIs ==
    ASSUME NEW r \in Info, now \in 1 .. MaxTime
    PROVE  Rolled(r) \in Info
<1>1. now + Window \in Nat /\ 0 \in 0 .. MaxRequests
  BY ParametersAreNat
<1>2. CASE now >= r.resetAt
  <2> DEFINE q == [r EXCEPT !.count = 0, !.resetAt = now + Window]
  <2>1. q \in Info
    BY <1>1 DEF Info
  <2> QED
    BY <1>2, <2>1 DEF Rolled
<1>3. CASE ~(now >= r.resetAt)
  BY <1>3 DEF Rolled
<1> QED
  BY <1>2, <1>3

-----------------------------------------------------------------------------
(* The rate limit *)

LEMMA AddOne ==
    ASSUME NEW S, IsFiniteSet(S), NEW x
    PROVE  /\ Cardinality(S) \in Nat /\ Cardinality(S \cup {x}) \in Nat
           /\ Cardinality(S \cup {x}) <= Cardinality(S) + 1
           /\ x \notin S => Cardinality(S \cup {x}) = Cardinality(S) + 1
<1>1. Cardinality(S \cup {x}) = IF x \in S THEN Cardinality(S) ELSE Cardinality(S) + 1
  BY FS_AddElement
<1>2. Cardinality(S) \in Nat
  BY FS_CardinalityType
<1> QED
  BY <1>1, <1>2

\* One more request, on the same count or on a new one.
LEMMA OneMore ==
    ASSUME NEW t \in 1 .. MaxTime, NEW R \in SUBSET Passed, NEW q \in Info, RateOK(R, q, t),
           NEW r \in Info, r.count < MaxRequests,
           \/ t < q.resetAt /\ r = q
           \/ t >= q.resetAt /\ r.count = 0 /\ r.resetAt = t + Window /\ r.born = q.born,
           NEW u \in Info, u.count = r.count + 1, u.resetAt = r.resetAt, u.born = r.born,
           u.born # -1,
           NEW x \in Passed, x.at = t, x.n = Cardinality(At(R, t))
    PROVE  RateOK(R \cup {x}, u, t)
<1> DEFINE W == R \cup {x}
<1>n. /\ t \in Nat /\ Window \in Nat \ {0} /\ MaxRequests \in Nat \ {0}
      /\ q.resetAt \in Nat /\ r.resetAt \in Nat /\ u.resetAt \in Nat
      /\ q.count \in 0 .. MaxRequests /\ r.count \in Nat
      /\ \A e \in R : e.at \in Nat /\ e.n \in Nat
  BY ParametersAreNat DEF Info, Passed
<1>1. IsFiniteSet(R) /\ IsFiniteSet(W)
  BY FS_AddElement DEF RateOK
<1>2. \A e \in W : e.at <= t /\ t - e.at < Window /\ e.at < u.resetAt
  BY <1>n DEF RateOK
<1>3. \A e \in At(W, t) : e.n < Cardinality(At(W, t))
  <2>1. At(W, t) = At(R, t) \cup {x}
    BY DEF At
  <2>2. IsFiniteSet(At(R, t)) /\ Cardinality(At(R, t)) \in Nat
    BY <1>1, FS_Subset, FS_CardinalityType DEF At
  <2>3. x \notin At(R, t)
    BY <1>n, <2>2 DEF RateOK, At
  <2> DEFINE S == At(R, t)
  <2>4. \A e \in S : e.n < Cardinality(S) /\ e.n \in Nat
    BY <1>n DEF RateOK, At
  <2>5. At(W, t) = S \cup {x} /\ IsFiniteSet(S) /\ x \notin S /\ x.n = Cardinality(S)
    BY <2>1, <2>2, <2>3
  <2> HIDE DEF S, W
  <2>6. Cardinality(S \cup {x}) = Cardinality(S) + 1 /\ Cardinality(S) \in Nat
    BY <2>5, AddOne
  <2>7. \A e \in S \cup {x} : e.n < Cardinality(S) + 1
    BY <2>4, <2>5, <2>6
  <2> QED
    BY <2>5, <2>6, <2>7
<1>4. u.resetAt <= t + Window
  BY <1>n DEF RateOK
<1>5. CASE t < q.resetAt /\ r = q
  <2> DEFINE C == Current(R, q.resetAt)
  <2>1. Current(W, u.resetAt) = C \cup {x}
    BY <1>n, <1>5 DEF Current, RateOK
  <2>2. W \ Current(W, u.resetAt) \subseteq R \ C
    BY <2>1
  <2>3. IsFiniteSet(C) /\ IsFiniteSet(R \ C)
    BY <1>1, FS_Subset DEF Current
  <2> DEFINE D == Current(W, u.resetAt)
  <2>q. D = C \cup {x} /\ W \ D \subseteq R \ C
    BY <2>1, <2>2
  <2>p. Cardinality(C) <= q.count /\ Cardinality(R \ C) <= MaxRequests
    BY DEF RateOK
  <2> HIDE DEF C, D, W
  <2>4. /\ Cardinality(C) \in Nat /\ Cardinality(R \ C) \in Nat
        /\ Cardinality(D) <= Cardinality(C) + 1 /\ Cardinality(D) \in Nat
    BY <2>3, <2>q, AddOne, FS_CardinalityType
  <2>5. Cardinality(W \ D) <= Cardinality(R \ C) /\ Cardinality(W \ D) \in Nat
    BY <2>3, <2>q, FS_Subset, FS_CardinalityType
  <2>6. u.count = q.count + 1
    BY <1>5
  <2>7. Cardinality(D) <= u.count
    BY <1>n, <2>4, <2>6, <2>p
  <2>8. Cardinality(W \ D) <= MaxRequests
    BY <1>n, <2>4, <2>5, <2>p
  <2> QED
    BY <1>1, <1>2, <1>3, <1>4, <2>7, <2>8 DEF RateOK, D, W
<1>6. CASE t >= q.resetAt /\ r.count = 0 /\ r.resetAt = t + Window
  <2>1. Current(R, q.resetAt) = R
    BY <1>n, <1>6 DEF Current, RateOK
  <2>2. Cardinality(R) <= q.count /\ Cardinality(R) \in Nat
    BY <1>1, <2>1, FS_CardinalityType DEF RateOK
  <2>3. Current(W, u.resetAt) = {x}
    BY <1>n, <1>6 DEF Current, RateOK
  <2>4. Cardinality({x}) = 1
    BY FS_Singleton
  <2>5. /\ W \ {x} \subseteq R
        /\ Cardinality(W \ {x}) <= Cardinality(R) /\ Cardinality(W \ {x}) \in Nat
    BY <1>1, FS_Subset, FS_CardinalityType
  <2>6. Cardinality(Current(W, u.resetAt)) <= u.count
    BY <1>6, <2>3, <2>4
  <2>7. Cardinality(W \ Current(W, u.resetAt)) <= MaxRequests
    <3>1. Cardinality(W \ {x}) <= MaxRequests
      BY <1>n, <2>2, <2>5
    <3> QED
      BY <2>3, <3>1
  <2> QED
    BY <1>1, <1>2, <1>3, <1>4, <2>6, <2>7 DEF RateOK
<1> QED
  BY <1>5, <1>6

\* Time passes, and what is older than one window is not counted any more.
LEMMA OneOlder ==
    ASSUME NEW t \in Nat, NEW u \in Nat, u = t + 1,
           NEW R \in SUBSET Passed, NEW q \in Info, RateOK(R, q, t)
    PROVE  RateOK({e \in R : u - e.at < Window}, q, u)
<1> DEFINE W == {e \in R : u - e.at < Window}
<1>n. /\ Window \in Nat \ {0} /\ MaxRequests \in Nat \ {0}
      /\ q.resetAt \in Nat /\ q.count \in 0 .. MaxRequests
      /\ \A e \in R : e.at \in Nat
  BY ParametersAreNat DEF Info, Passed
<1>1. IsFiniteSet(R) /\ IsFiniteSet(W)
  BY FS_Subset DEF RateOK
<1>2. \A e \in W : e.at <= u /\ u - e.at < Window /\ e.at < q.resetAt
  BY <1>n DEF RateOK
<1>3. At(W, u) = {}
  BY <1>n DEF At, RateOK
<1>4. q.born = -1 => W = {}
  BY DEF RateOK
<1>5. q.resetAt <= u + Window
  BY <1>n DEF RateOK
<1> DEFINE C == Current(R, q.resetAt)  D == Current(W, q.resetAt)
<1>6. D \subseteq C /\ W \ D \subseteq R \ C /\ C \subseteq R
  BY DEF Current
<1>7. Cardinality(C) <= q.count /\ Cardinality(R \ C) <= MaxRequests
  BY DEF RateOK
<1> HIDE DEF C, D, W
<1>8. IsFiniteSet(C) /\ IsFiniteSet(R \ C)
  BY <1>1, <1>6, FS_Subset
<1>9. /\ Cardinality(D) <= Cardinality(C) /\ Cardinality(W \ D) <= Cardinality(R \ C)
      /\ Cardinality(C) \in Nat /\ Cardinality(R \ C) \in Nat
      /\ Cardinality(D) \in Nat /\ Cardinality(W \ D) \in Nat
  BY <1>6, <1>8, FS_Subset, FS_CardinalityType
<1>10. Cardinality(D) <= q.count /\ Cardinality(W \ D) <= MaxRequests
  BY <1>n, <1>7, <1>9
<1>11. \A e \in At(W, u) : e.n < Cardinality(At(W, u))
  BY <1>3
<1>12. RateOK(W, q, u)
  <2>1. /\ Cardinality(Current(W, q.resetAt)) <= q.count
        /\ Cardinality(W \ Current(W, q.resetAt)) <= MaxRequests
    BY <1>10 DEF D
  <2> QED
    BY <1>1, <1>2, <1>4, <1>5, <1>11, <2>1 DEF RateOK
<1> QED
  BY <1>12 DEF W

LEMMA SameRates ==
    ASSUME Rates, UNCHANGED <<now, session, recent>>
    PROVE  Rates'
BY DEF Rates

LEMMA LetThroughRates ==
    ASSUME IInv, NEW s \in Session, LetThrough(s), UNCHANGED now
    PROVE  /\ session' \in [Session -> Info] /\ recent' \in [Session -> SUBSET Passed]
           /\ Rates'
<1>1. session \in [Session -> Info] /\ now \in 1 .. MaxTime
      /\ recent \in [Session -> SUBSET Passed]
  BY DEF IInv, TypeOK, Info
<1> DEFINE r == Rolled(session[s])  q == [r EXCEPT !.count = r.count + 1]
<1>2. r \in Info /\ r.count < MaxRequests /\ session[s].born > 0
  BY <1>1, RolledIs DEF LetThrough, Valid
<1>3. /\ now < session[s].resetAt => r = session[s]
      /\ now >= session[s].resetAt =>
            r.count = 0 /\ r.resetAt = now + Window /\ r.born = session[s].born
  <2>1. session[s] \in Info
    BY <1>1
  <2> QED
    BY <1>1, <2>1 DEF Rolled, Info
<1>4. session' = [session EXCEPT ![s] = q]
  BY DEF LetThrough
<1> DEFINE x == [at |-> now, n |-> Cardinality(At(recent[s], now))]
<1>5. recent' = [recent EXCEPT ![s] = recent[s] \cup {x}]
  <2>1. recent' = [recent EXCEPT
               ![s] = recent[s] \cup {[at |-> now, n |-> Cardinality(At(recent[s], now))]}]
    BY DEF LetThrough
  <2> QED
    BY <2>1
<1> HIDE DEF r
<1>6. /\ q \in Info /\ q.count = r.count + 1 /\ q.resetAt = r.resetAt /\ q.born = r.born
  BY <1>2, ParametersAreNat DEF Info
<1>7. Cardinality(At(recent[s], now)) \in Nat
  BY FS_Subset, FS_CardinalityType DEF IInv, Rates, RateOK, At
<1>8. x \in Passed /\ x.at = now /\ x.n = Cardinality(At(recent[s], now))
  BY <1>1, <1>7 DEF Passed
<1> HIDE DEF q, x
<1>9. q.born # -1 /\ now \in Nat /\ session[s] \in Info /\ session[s].resetAt \in Nat
  BY <1>1, <1>2, <1>3, <1>6 DEF Info
<1>10. RateOK(recent[s] \cup {x}, q, now)
  BY <1>1, <1>2, <1>3, <1>6, <1>8, <1>9, OneMore DEF IInv, Rates
<1>11. session' \in [Session -> Info] /\ recent' \in [Session -> SUBSET Passed]
  BY <1>1, <1>4, <1>5, <1>6, <1>8
<1>12. Rates'
  BY <1>1, <1>4, <1>5, <1>10 DEF IInv, Rates
<1> QED
  BY <1>11, <1>12

-----------------------------------------------------------------------------
(* The idempotency store *)

LEMMA StoreTypes ==
    ASSUME TypeOK, NEW c \in Conn, NEW k \in Key \cup {NoKey}, Store(c, k)
    PROVE  store' \in [Key -> [body : Body \cup {"none"}, expiresAt : Nat]]
<1>1. req[c].body \in Body \cup {"none"} /\ now + IdempotencyTtl \in Nat
      /\ store \in [Key -> [body : Body \cup {"none"}, expiresAt : Nat]]
  BY ParametersAreNat DEF TypeOK, Request
<1> QED
  BY <1>1 DEF Store

LEMMA KeepTypes ==
    ASSUME TypeOK, NEW k \in Key \cup {NoKey}, Keep(k)
    PROVE  until' \in [Key -> Nat]
<1>1. now + IdempotencyTtl \in Nat /\ until \in [Key -> Nat]
  BY ParametersAreNat DEF TypeOK
<1> QED
  BY <1>1 DEF Keep

-----------------------------------------------------------------------------
(* Sessions and requests *)

\* What a request needs to leave the rest of the invariant alone.
LEMMA SameSlots ==
    ASSUME SlotsAreUsed, UNCHANGED <<slots, stream>>
    PROVE  SlotsAreUsed'
BY DEF SlotsAreUsed

LEMMA SameOneByOne ==
    ASSUME OneByOne, UNCHANGED <<keyField, store, req, until, overlap>>
    PROVE  OneByOne'
BY DEF OneByOne

\* A request ends; the key field keeps what it has.
LEMMA RequestEnds ==
    ASSUME OneByOne, TypeOK, NEW c \in Conn, req' = [req EXCEPT ![c] = Idle],
           UNCHANGED <<keyField, overlap>>,
           ~overlap => \A k \in Key : until'[k] <= store'[k].expiresAt
    PROVE  req' \in [Conn -> Request] /\ OneByOne'
<1>1. /\ req' \in [Conn -> Request]
      /\ \A d \in Conn : req'[d] = IF d = c THEN Idle ELSE req[d]
  BY IdleIs DEF TypeOK
<1>2. ASSUME ~overlap, NEW d \in Conn, req'[d] # Idle
      PROVE  \A e \in Conn \ {d} : req'[e] = Idle
  BY <1>1, <1>2 DEF OneByOne
<1>3. ASSUME ~overlap, NEW d \in Conn
      PROVE  /\ req'[d].at = "reading" => keyField' = req'[d].key
             /\ req'[d].at = "running" => req'[d].used = req'[d].key
  BY <1>1, <1>3, IdleIs DEF OneByOne
<1> QED
  BY <1>1, <1>2, <1>3 DEF OneByOne

LEMMA BootstrapStep ==
    ASSUME IInv, NEW s \in Session, Bootstrap(s)
    PROVE  IInv'
<1> USE DEF Bootstrap
<1>1. [born |-> now, count |-> 0, resetAt |-> now + Window] \in Info
  BY ParametersAreNat DEF IInv, TypeOK, Info
<1>2. session' \in [Session -> Info]
  BY <1>1 DEF IInv, TypeOK, Info
<1>3. TypeOK'
  BY <1>2 DEF IInv, TypeOK, Info
<1>4. Rates'
  <2>1. session[s].born = -1 /\ session \in [Session -> Info]
    BY DEF NoSession, IInv, TypeOK, Info
  <2>2. recent[s] = {}
    BY <2>1 DEF IInv, Rates, RateOK
  <2> DEFINE q == [born |-> now, count |-> 0, resetAt |-> now + Window]
  <2>3. RateOK({}, q, now)
    <3>1. q.born = now /\ q.count = 0 /\ q.resetAt = now + Window
      OBVIOUS
    <3>2. Current({}, q.resetAt) = {} /\ At({}, now) = {} /\ {} \ {} = {}
      BY DEF Current, At
    <3>3. IsFiniteSet({}) /\ Cardinality({}) = 0 /\ now \in Nat
      BY FS_EmptySet DEF IInv, TypeOK
    <3> HIDE DEF q
    <3> QED
      BY <3>1, <3>2, <3>3, ParametersAreNat DEF RateOK
  <2>4. session' = [session EXCEPT ![s] = q]
    OBVIOUS
  <2> HIDE DEF q
  <2> QED
    BY <2>1, <2>2, <2>3, <2>4 DEF IInv, Rates
<1> QED
  BY <1>3, <1>4, SameSlots, SameOneByOne DEF IInv

LEMMA LookUpStep ==
    ASSUME IInv, NEW s \in Session, LookUpExpired(s)
    PROVE  IInv'
<1> USE DEF LookUpExpired
<1>1. session \in [Session -> Info] /\ session[s] \in Info
  BY DEF IInv, TypeOK, Info
<1>2. [session[s] EXCEPT !.born = 0] \in Info
  BY <1>1, ParametersAreNat DEF Info
<1>3. session' \in [Session -> Info]
  BY <1>1, <1>2
<1>4. TypeOK'
  BY <1>3 DEF IInv, TypeOK, Info
<1>5. Rates'
  <2> DEFINE q == [session[s] EXCEPT !.born = 0]
  <2>1. q.count = session[s].count /\ q.resetAt = session[s].resetAt /\ q.born = 0
    BY <1>1 DEF Info
  <2>2. session' = [session EXCEPT ![s] = q]
    OBVIOUS
  <2> HIDE DEF q
  <2>3. RateOK(recent[s], session[s], now)
    BY DEF IInv, Rates
  <2>4. RateOK(recent[s], q, now)
    BY <2>1, <2>3 DEF RateOK
  <2> QED
    BY <1>1, <2>2, <2>4 DEF IInv, Rates
<1> QED
  BY <1>4, <1>5, SameSlots, SameOneByOne DEF IInv

LEMMA ArriveStep ==
    ASSUME IInv, NEW c \in Conn, NEW s \in Session, NEW r \in Route,
           NEW k \in Key \cup {NoKey}, NEW b \in Body, Arrive(c, s, r, k, b)
    PROVE  IInv'
<1> USE DEF Arrive, ReadsBody
<1> DEFINE q == Reading(r, k, b)
<1>1. q \in Request /\ q # Idle /\ q.at = "reading" /\ q.key = k
  BY ReadingIs
<1>2. req' = [req EXCEPT ![c] = q]
  BY DEF Reading
<1> HIDE DEF q
<1>3. /\ req' \in [Conn -> Request]
      /\ \A d \in Conn : req'[d] = IF d = c THEN q ELSE req[d]
  BY <1>1, <1>2 DEF IInv, TypeOK
<1>4. session' \in [Session -> Info] /\ recent' \in [Session -> SUBSET Passed] /\ Rates'
  BY LetThroughRates
<1>5. overlap \in BOOLEAN /\ Busy \in BOOLEAN
  BY DEF IInv, TypeOK, Busy
<1>6. overlap' \in BOOLEAN
  BY <1>5
<1>7. TypeOK'
  BY <1>3, <1>4, <1>6 DEF IInv, TypeOK, Info
<1>8. OneByOne'
  <2> SUFFICES ASSUME ~overlap' PROVE OneByOne'
    BY DEF OneByOne
  <2>1. ~overlap /\ \A d \in Conn : req[d] = Idle
    BY DEF Busy
  <2>2. \A d \in Conn : req'[d] = IF d = c THEN q ELSE Idle
    BY <1>3, <2>1
  <2>3. \A h \in Key : until'[h] <= store'[h].expiresAt
    BY <2>1 DEF IInv, OneByOne
  <2> QED
    BY <1>1, <2>2, <2>3, IdleIs DEF OneByOne
<1> QED
  BY <1>4, <1>7, <1>8, SameSlots DEF IInv

LEMMA TooLargeStep ==
    ASSUME IInv, NEW s \in Session, NEW k \in Key \cup {NoKey}, ArriveTooLarge(s, k)
    PROVE  IInv'
<1> USE DEF ArriveTooLarge, ReadsBody
<1>1. session' \in [Session -> Info] /\ recent' \in [Session -> SUBSET Passed] /\ Rates'
  BY LetThroughRates
<1>2. overlap \in BOOLEAN /\ Busy \in BOOLEAN
  BY DEF IInv, TypeOK, Busy
<1>3. overlap' \in BOOLEAN
  BY <1>2
<1>4. TypeOK'
  BY <1>1, <1>3 DEF IInv, TypeOK, Info
<1>5. OneByOne'
  <2> SUFFICES ASSUME ~overlap' PROVE OneByOne'
    BY DEF OneByOne
  <2>1. ~overlap /\ \A d \in Conn : req'[d] = Idle
    BY DEF Busy
  <2>2. \A h \in Key : until'[h] <= store'[h].expiresAt
    BY <2>1 DEF IInv, OneByOne
  <2> QED
    BY <2>1, <2>2, IdleIs DEF OneByOne
<1> QED
  BY <1>1, <1>4, <1>5, SameSlots DEF IInv

LEMMA EndsStep ==
    ASSUME IInv, NEW c \in Conn, BodyFails(c) \/ Answer(c) \/ ListenerThrows(c)
    PROVE  IInv'
<1> USE DEF BodyFails, Answer, ListenerThrows
<1>1. ~overlap => \A k \in Key : until'[k] <= store'[k].expiresAt
  BY DEF IInv, OneByOne
<1>2. req' \in [Conn -> Request] /\ OneByOne'
  BY <1>1, RequestEnds DEF IInv
<1>3. TypeOK'
  BY <1>2 DEF IInv, TypeOK
<1> QED
  BY <1>2, <1>3, SameSlots, SameRates DEF IInv

\* The response is kept under the request's own key, as long as it was promised.
LEMMA StoresOwn ==
    ASSUME IInv, NEW c \in Conn, NEW k \in Key \cup {NoKey}, Store(c, k), Keep(req[c].key),
           ~overlap => k = req[c].key
    PROVE  ~overlap => \A h \in Key : until'[h] <= store'[h].expiresAt
<1> SUFFICES ASSUME ~overlap, NEW h \in Key PROVE until'[h] <= store'[h].expiresAt
  OBVIOUS
<1>1. /\ k = req[c].key /\ until[h] <= store[h].expiresAt
      /\ until \in [Key -> Nat]
      /\ store \in [Key -> [body : Body \cup {"none"}, expiresAt : Nat]]
      /\ now + IdempotencyTtl \in Nat
  BY ParametersAreNat DEF IInv, OneByOne, TypeOK
<1>2. CASE k = NoKey \/ h # k
  BY <1>1, <1>2 DEF Store, Keep
<1>3. CASE k # NoKey /\ h = k
  <2>1. until'[h] = now + IdempotencyTtl
    BY <1>1, <1>3 DEF Keep
  <2>2. store'[h].expiresAt = now + IdempotencyTtl
    BY <1>1, <1>3 DEF Store
  <2> QED
    BY <1>1, <2>1, <2>2
<1> QED
  BY <1>2, <1>3

LEMMA RunCreateStep ==
    ASSUME IInv, NEW c \in Conn, RunCreate(c)
    PROVE  IInv'
<1> USE DEF RunCreate, Runs
<1>1. keyField \in Key \cup {NoKey} /\ req[c].key \in Key \cup {NoKey}
  BY DEF IInv, TypeOK, Request
<1>2. CASE UNCHANGED <<store, until>>
  <2>1. ~overlap => \A k \in Key : until'[k] <= store'[k].expiresAt
    BY <1>2 DEF IInv, OneByOne
  <2>2. req' \in [Conn -> Request] /\ OneByOne'
    BY <2>1, RequestEnds DEF IInv
  <2>3. TypeOK'
    BY <1>2, <2>2 DEF IInv, TypeOK
  <2> QED
    BY <2>2, <2>3, SameSlots, SameRates DEF IInv
<1>3. CASE Store(c, keyField) /\ Keep(req[c].key)
  <2>1. ~overlap => keyField = req[c].key
    BY DEF IInv, OneByOne
  <2>2. ~overlap => \A k \in Key : until'[k] <= store'[k].expiresAt
    BY <1>1, <1>3, <2>1, StoresOwn
  <2>3. req' \in [Conn -> Request] /\ OneByOne'
    BY <2>2, RequestEnds DEF IInv
  <2>4. /\ store' \in [Key -> [body : Body \cup {"none"}, expiresAt : Nat]]
        /\ until' \in [Key -> Nat]
    BY <1>1, <1>3, StoreTypes, KeepTypes DEF IInv
  <2>5. TypeOK'
    BY <2>3, <2>4 DEF IInv, TypeOK
  <2> QED
    BY <2>3, <2>5, SameSlots, SameRates DEF IInv
<1> QED
  BY <1>2, <1>3

LEMMA RunListenerStep ==
    ASSUME IInv, NEW c \in Conn, RunListener(c)
    PROVE  IInv'
<1> USE DEF RunListener, Runs
<1> DEFINE q == [req[c] EXCEPT !.at = "running", !.used = keyField]
<1>1. req \in [Conn -> Request] /\ req[c] \in Request /\ keyField \in Key \cup {NoKey}
  BY DEF IInv, TypeOK
<1>2. q \in Request /\ q.at = "running" /\ q.used = keyField /\ q.key = req[c].key
  BY <1>1 DEF Request
<1>3. req' = [req EXCEPT ![c] = q]
  BY <1>1
<1> HIDE DEF q
<1>4. /\ req' \in [Conn -> Request]
      /\ \A d \in Conn : req'[d] = IF d = c THEN q ELSE req[d]
  BY <1>1, <1>2, <1>3
<1>5. TypeOK'
  BY <1>4 DEF IInv, TypeOK
<1>6. OneByOne'
  <2> SUFFICES ASSUME ~overlap PROVE OneByOne'
    BY DEF OneByOne
  <2>1. keyField = req[c].key /\ \A d \in Conn \ {c} : req[d] = Idle
    BY IdleIs DEF IInv, OneByOne
  <2>2. \A d \in Conn : req'[d] = IF d = c THEN q ELSE Idle
    BY <1>4, <2>1
  <2>3. \A k \in Key : until'[k] <= store'[k].expiresAt
    BY DEF IInv, OneByOne
  <2> QED
    BY <1>2, <2>1, <2>2, <2>3, IdleIs DEF OneByOne
<1> QED
  BY <1>5, <1>6, SameSlots, SameRates DEF IInv

LEMMA ListenerReturnsStep ==
    ASSUME IInv, NEW c \in Conn, ListenerReturns(c)
    PROVE  IInv'
<1> USE DEF ListenerReturns
<1>1. req[c].used \in Key \cup {NoKey} /\ req[c].key \in Key \cup {NoKey}
  BY DEF IInv, TypeOK, Request
<1>2. ~overlap => req[c].used = req[c].key
  BY DEF IInv, OneByOne
<1>3. ~overlap => \A k \in Key : until'[k] <= store'[k].expiresAt
  BY <1>1, <1>2, StoresOwn
<1>4. req' \in [Conn -> Request] /\ OneByOne'
  BY <1>3, RequestEnds DEF IInv
<1>5. /\ store' \in [Key -> [body : Body \cup {"none"}, expiresAt : Nat]]
      /\ until' \in [Key -> Nat]
  BY <1>1, StoreTypes, KeepTypes DEF IInv
<1>6. TypeOK'
  BY <1>4, <1>5 DEF IInv, TypeOK
<1> QED
  BY <1>4, <1>6, SameSlots, SameRates DEF IInv

-----------------------------------------------------------------------------
(* Status streams *)

LEMMA OpenIsFinite == IsFiniteSet({x \in Stream : stream[x] = "open"})
BY StreamFinite, FS_Subset

LEMMA OpenStreamStep ==
    ASSUME IInv, NEW x \in Stream, NEW s \in Session, OpenStream(x, s)
    PROVE  IInv'
<1> USE DEF OpenStream
<1> DEFINE S == {y \in Stream : stream[y] = "open"}
<1>1. stream \in [Stream -> {"none", "open", "half"}] /\ slots \in 0 .. MaxStreams
  BY DEF IInv, TypeOK
<1>2. stream' \in [Stream -> {"none", "open", "half"}] /\ slots' \in 0 .. MaxStreams
  BY <1>1, ParametersAreNat
<1>3. TypeOK'
  BY <1>2 DEF IInv, TypeOK
<1>4. {y \in Stream : stream'[y] = "open"} = S \cup {x}
  BY <1>1
<1>5. x \notin S /\ IsFiniteSet(S)
  BY OpenIsFinite
<1> HIDE DEF S
<1>6. Cardinality(S \cup {x}) = Cardinality(S) + 1 /\ Cardinality(S) \in Nat
  BY <1>5, FS_AddElement, FS_CardinalityType
<1>7. slots <= Cardinality(S)
  BY DEF IInv, SlotsAreUsed, S
<1>8. SlotsAreUsed'
  BY <1>1, <1>4, <1>6, <1>7 DEF SlotsAreUsed
<1> QED
  BY <1>3, <1>8, SameOneByOne, SameRates DEF IInv

LEMMA StreamClosesStep ==
    ASSUME IInv, NEW x \in Stream, StreamCloses(x)
    PROVE  IInv'
<1> USE DEF StreamCloses
<1> DEFINE S == {y \in Stream : stream[y] = "open"}
<1>1. stream \in [Stream -> {"none", "open", "half"}] /\ slots \in 0 .. MaxStreams
  BY DEF IInv, TypeOK
<1>2. /\ slots' \in 0 .. MaxStreams
      /\ slots' = IF slots > 0 THEN slots - 1 ELSE 0
  BY <1>1, ParametersAreNat DEF Released
<1>3. stream' \in [Stream -> {"none", "open", "half"}]
  BY <1>1
<1>4. TypeOK'
  BY <1>2, <1>3 DEF IInv, TypeOK
<1>5. IsFiniteSet(S) /\ Cardinality(S) \in Nat /\ slots <= Cardinality(S)
  BY OpenIsFinite, FS_CardinalityType DEF IInv, SlotsAreUsed
<1>6. CASE stream[x] = "open"
  <2>1. {y \in Stream : stream'[y] = "open"} = S \ {x} /\ x \in S
    BY <1>1, <1>6
  <2> HIDE DEF S
  <2>2. Cardinality(S \ {x}) = Cardinality(S) - 1
    BY <1>5, <2>1, FS_RemoveElement
  <2>3. Cardinality(S \ {x}) \in Nat
    BY <1>5, FS_RemoveElement, FS_CardinalityType
  <2>4. SlotsAreUsed'
    <3>1. slots' <= Cardinality(S \ {x})
      BY <1>1, <1>2, <1>5, <2>2, <2>3
    <3>2. SlotsAreUsed' = (slots' <= Cardinality({y \in Stream : stream'[y] = "open"}))
      BY DEF SlotsAreUsed
    <3> QED
      BY <2>1, <3>1, <3>2
  <2> QED
    BY <1>4, <2>4, SameOneByOne, SameRates DEF IInv
<1>7. CASE stream[x] = "half"
  <2>1. {y \in Stream : stream'[y] = "open"} = S
    BY <1>1, <1>7
  <2> HIDE DEF S
  <2>2. SlotsAreUsed'
    BY <1>1, <1>2, <1>5, <2>1 DEF SlotsAreUsed
  <2> QED
    BY <1>4, <2>2, SameOneByOne, SameRates DEF IInv
<1> QED
  BY <1>6, <1>7

LEMMA TickStep ==
    ASSUME IInv, Tick
    PROVE  IInv'
<1> USE DEF Tick
<1>1. now' \in 1 .. MaxTime
  BY ParametersAreNat DEF IInv, TypeOK
<1>2. /\ recent' \in [Session -> SUBSET Passed]
      /\ Rates'
  <2>1. /\ recent \in [Session -> SUBSET Passed] /\ session \in [Session -> Info]
        /\ now \in Nat
    BY DEF IInv, TypeOK, Info
  <2>2. recent' \in [Session -> SUBSET Passed]
    BY <2>1
  <2>3. ASSUME NEW s \in Session PROVE RateOK(recent'[s], session'[s], now')
    <3>1. now' = now + 1 /\ now' \in Nat
      BY <2>1
    <3>2. RateOK({e \in recent[s] : now' - e.at < Window}, session[s], now')
      BY <2>1, <3>1, OneOlder DEF IInv, Rates
    <3>3. recent'[s] = {e \in recent[s] : now' - e.at < Window}
      OBVIOUS
    <3>4. session' = session
      OBVIOUS
    <3> QED
      BY <3>2, <3>3, <3>4
  <2> QED
    BY <2>2, <2>3 DEF Rates
<1>3. TypeOK'
  BY <1>1, <1>2 DEF IInv, TypeOK
<1> QED
  BY <1>2, <1>3, SameSlots, SameOneByOne DEF IInv

-----------------------------------------------------------------------------
(* The theorems *)

LEMMA Initially == Init => IInv
<1> SUFFICES ASSUME Init PROVE IInv
  OBVIOUS
<1> USE DEF Init
<1>1. session \in [Session -> Info]
  BY ParametersAreNat DEF NoSession, Info
<1>2. store \in [Key -> [body : Body \cup {"none"}, expiresAt : Nat]]
  BY DEF NoEntry
<1>3. req \in [Conn -> Request]
  BY IdleIs
<1>4. recent \in [Session -> SUBSET Passed]
  OBVIOUS
<1>5. TypeOK
  <2>1. now \in 1 .. MaxTime /\ slots \in 0 .. MaxStreams
    BY ParametersAreNat
  <2>2. stream \in [Stream -> {"none", "open", "half"}] /\ until \in [Key -> Nat]
    OBVIOUS
  <2> QED
    BY <1>1, <1>2, <1>3, <1>4, <2>1, <2>2 DEF TypeOK, Info
<1>6. OneByOne
  BY IdleIs DEF OneByOne, NoEntry
<1>7. SlotsAreUsed
  <2>1. Cardinality({x \in Stream : stream[x] = "open"}) \in Nat
    BY OpenIsFinite, FS_CardinalityType
  <2> QED
    BY <2>1 DEF SlotsAreUsed
<1>8. Rates
  <2>1. Current({}, 0) = {} /\ At({}, 1) = {}
    BY DEF Current, At
  <2>2. RateOK({}, NoSession, 1)
    BY <2>1, FS_EmptySet, ParametersAreNat DEF RateOK, NoSession
  <2> QED
    BY <2>2 DEF Rates
<1> QED
  BY <1>5, <1>6, <1>7, <1>8 DEF IInv

LEMMA NothingChanges ==
    ASSUME IInv, UNCHANGED vars
    PROVE  IInv'
<1> USE DEF vars
<1>1. TypeOK'
  BY DEF IInv, TypeOK
<1> QED
  BY <1>1, SameSlots, SameRates, SameOneByOne DEF IInv

\* No step breaks the invariant.
THEOREM Inductive == IInv /\ [Next]_vars => IInv'
<1> SUFFICES ASSUME IInv, [Next]_vars PROVE IInv'
  OBVIOUS
<1>1. CASE UNCHANGED vars
  BY <1>1, NothingChanges
<1>2. CASE \E s \in Session :
              \/ Bootstrap(s) \/ LookUpExpired(s)
              \/ \E k \in Key \cup {NoKey} :
                    \/ ArriveTooLarge(s, k)
                    \/ \E c \in Conn, r \in Route, b \in Body : Arrive(c, s, r, k, b)
              \/ \E x \in Stream : OpenStream(x, s)
  BY <1>2, BootstrapStep, LookUpStep, TooLargeStep, ArriveStep, OpenStreamStep
<1>3. CASE \E c \in Conn :
              \/ BodyFails(c) \/ Answer(c) \/ RunCreate(c) \/ RunListener(c)
              \/ ListenerReturns(c) \/ ListenerThrows(c)
  BY <1>3, EndsStep, RunCreateStep, RunListenerStep, ListenerReturnsStep
<1>4. CASE \E x \in Stream : StreamCloses(x)
  BY <1>4, StreamClosesStep
<1>5. CASE Tick
  BY <1>5, TickStep
<1> QED
  BY <1>1, <1>2, <1>3, <1>4, <1>5 DEF Next

\* The invariant holds of every state of the server.
THEOREM InvariantCorrect == Spec => []IInv
<1>1. Init => IInv
  BY Initially
<1>2. IInv /\ [Next]_vars => IInv'
  BY Inductive
<1> QED
  BY <1>1, <1>2, PTL DEF Spec

\* The variables keep their types: session counts stay below the limit and the
\* number of slots taken within the limit (api-server.ts).
THEOREM TypeCorrect == Spec => []TypeOK
<1>1. IInv => TypeOK
  BY DEF IInv
<1> QED
  BY <1>1, InvariantCorrect, PTL

\* Each slot that is counted belongs to an open stream (handleStatusStream()).
THEOREM SlotsCorrect == Spec => []SlotsAreUsed
<1>1. IInv => SlotsAreUsed
  BY DEF IInv
<1> QED
  BY <1>1, InvariantCorrect, PTL

\* Any stretch of one window sees at most twice the limit of a session's
\* requests: those of two counts (checkRateLimit()).
THEOREM RateCorrect == Spec => []RateWindow
<1>1. IInv => RateWindow
  <2> SUFFICES ASSUME IInv, NEW s \in Session
               PROVE  Cardinality(recent[s]) <= 2 * MaxRequests
    BY DEF RateWindow
  <2> DEFINE R == recent[s]  C == Current(R, session[s].resetAt)
  <2>1. /\ IsFiniteSet(R) /\ Cardinality(C) <= session[s].count
        /\ Cardinality(R \ C) <= MaxRequests /\ session[s].count \in 0 .. MaxRequests
    BY DEF IInv, Rates, RateOK, TypeOK
  <2>2. C \cup (R \ C) = R /\ C \cap (R \ C) = {} /\ IsFiniteSet(C) /\ IsFiniteSet(R \ C)
    BY <2>1, FS_Subset DEF Current
  <2> HIDE DEF C, R
  <2>3. Cardinality(C \cup (R \ C)) =
            Cardinality(C) + Cardinality(R \ C) - Cardinality(C \cap (R \ C))
    BY <2>2, FS_Union
  <2>5. Cardinality(C) \in Nat /\ Cardinality(R \ C) \in Nat
    BY <2>2, FS_CardinalityType
  <2>7. Cardinality(C \cap (R \ C)) = 0
    BY <2>2, FS_EmptySet
  <2>8. Cardinality(C \cup (R \ C)) = Cardinality(C) + Cardinality(R \ C)
    BY <2>3, <2>5, <2>7
  <2>4. Cardinality(R) = Cardinality(C) + Cardinality(R \ C)
    BY <2>2, <2>8
  <2>6. Cardinality(R) <= 2 * MaxRequests
    BY <2>1, <2>4, <2>5, ParametersAreNat
  <2> QED
    BY <2>6 DEF R
<1> QED
  BY <1>1, InvariantCorrect, PTL

\* A request whose key has been answered runs nothing until the answer is out
\* of date, as long as requests come one by one (withIdempotency()).
THEOREM KeyedCorrect == Spec => KeyedOnce
<1> DEFINE Once == \A c \in Conn :
              StartsRun(c) /\ ~overlap /\ req[c].key # NoKey => until[req[c].key] <= now
<1>1. IInv => Once
  <2> SUFFICES ASSUME IInv, NEW c \in Conn, StartsRun(c), ~overlap, req[c].key # NoKey
               PROVE  until[req[c].key] <= now
    OBVIOUS
  <2>1. req[c].at = "reading" /\ ~Fresh(keyField)
    BY DEF StartsRun, RunCreate, RunListener, Runs
  <2>2. keyField = req[c].key /\ req[c].key \in Key
    BY <2>1 DEF IInv, OneByOne, TypeOK, Request
  <2> DEFINE k == req[c].key
  <2>3. /\ until[k] <= store[k].expiresAt
        /\ until[k] \in Nat /\ store[k].expiresAt \in Nat /\ now \in Nat
    BY <2>2 DEF IInv, OneByOne, TypeOK
  <2>4. ~(store[k].expiresAt > now)
    BY <2>1, <2>2 DEF Fresh
  <2> QED
    BY <2>3, <2>4
<1>2. Spec => [][Once]_vars
  BY <1>1, InvariantCorrect, PTL
<1> QED
  BY <1>2 DEF KeyedOnce
=============================================================================
