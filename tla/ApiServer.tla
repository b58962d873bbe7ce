------------------------------ MODULE ApiServer ------------------------------
(***************************************************************************)
(* The HTTP API of the user interface: src/src/api-server.ts with the      *)
(* sessions of src/src/session.ts.  A request passes the checks of         *)
(* handleApi(), then readBody() puts its Idempotency-Key into the one      *)
(* field this.currentIdempotencyKey and waits for the body; when the body  *)
(* has ended, withIdempotency() takes the key from that field.             *)
(*                                                                         *)
(* Routes: "create" (POST /api/invites, whose service never waits),        *)
(* "listener" (POST /api/listener, whose service may wait), and "plain"    *)
(* for all routes without idempotency.  Requests that fail the checks on   *)
(* address, host, version or CSRF token change nothing and are left out.   *)
(***************************************************************************)
EXTENDS Integers, FiniteSets

CONSTANTS
    Session,        \* session ids; randomBytes(32) never repeats one
    Conn,           \* bound of the model: requests under way at once
    Key, Body,      \* what clients send
    Stream,         \* connections of GET /api/status/stream
    MaxStreams,     \* MAX_SSE_GLOBAL
    MaxRequests,    \* RATE_LIMIT_MAX_REQUESTS
    Window,         \* RATE_LIMIT_WINDOW_MS
    SessionTtl,     \* SESSION_TTL_MS
    IdempotencyTtl, \* IDEMPOTENCY_TTL_MS
    MaxTime         \* bound of the model: the clock stops here

ASSUME ParametersAreNat ==
    /\ MaxStreams \in Nat \ {0} /\ MaxRequests \in Nat \ {0} /\ Window \in Nat \ {0}
    /\ SessionTtl \in Nat /\ IdempotencyTtl \in Nat \ {0} /\ MaxTime \in Nat \ {0}
ASSUME StreamFinite == IsFiniteSet(Stream)

VARIABLES
    now,        \* Date.now()
    session,    \* SessionStore.sessions
    keyField,   \* this.currentIdempotencyKey
    store,      \* MemoryIdempotencyStore.map
    req,        \* requests that wait for their body or for the service
    slots,      \* globalSseCount
    stream,     \* per connection: "none", "open", or "half" when one of the
                \*   two close events has been handled
    recent,     \* history: requests let through that are younger than Window
    until,      \* history: per key, how long its last response is to be kept
    overlap     \* history: a request came while another was under way

vars == <<now, session, keyField, store, req, slots, stream, recent, until, overlap>>

NoKey == "none"
Route == {"create", "listener", "plain"}
NoSession == [born |-> -1, count |-> 0, resetAt |-> 0]
NoEntry == [body |-> "none", expiresAt |-> 0]
Idle == [at |-> "idle", route |-> "plain", key |-> NoKey, used |-> NoKey, body |-> "none"]
\* `key' is what the client sent, `used' what withIdempotency() works with.
Request == [at : {"idle", "reading", "running"}, route : Route,
            key : Key \cup {NoKey}, used : Key \cup {NoKey}, body : Body \cup {"none"}]
\* A request let through: when, and how many before it at that time.
Passed == [at : 1 .. MaxTime, n : Nat]
At(R, t) == {e \in R : e.at = t}

Init ==
    /\ now = 1
    /\ session = [s \in Session |-> NoSession]
    /\ keyField = NoKey
    /\ store = [k \in Key |-> NoEntry]
    /\ req = [c \in Conn |-> Idle]
    /\ slots = 0 /\ stream = [x \in Stream |-> "none"]
    /\ recent = [s \in Session |-> {}]
    /\ until = [k \in Key |-> 0]
    /\ overlap = FALSE

-----------------------------------------------------------------------------
(* Sessions *)

\* createSession()
Bootstrap(s) ==
    /\ session[s] = NoSession
    /\ session' = [session EXCEPT ![s] = [born |-> now, count |-> 0, resetAt |-> now + Window]]
    /\ UNCHANGED <<now, keyField, store, req, slots, stream, recent, until, overlap>>

\* getSession(): once it is too old, the session goes when it is looked up.
Valid(s) == session[s].born > 0 /\ now - session[s].born <= SessionTtl
LookUpExpired(s) ==
    /\ session[s].born > 0 /\ ~Valid(s)
    /\ session' = [session EXCEPT ![s].born = 0]
    /\ UNCHANGED <<now, keyField, store, req, slots, stream, recent, until, overlap>>

\* Mutant: the count starts again, the window does not.
RolledCountOnly(r) == IF now >= r.resetAt THEN [r EXCEPT !.count = 0] ELSE r

\* checkRateLimit()
Rolled(r) ==
    IF now >= r.resetAt THEN [r EXCEPT !.count = 0, !.resetAt = now + Window] ELSE r
LetThrough(s) ==
    LET r == Rolled(session[s]) IN
    /\ Valid(s)
    /\ r.count < MaxRequests
    /\ session' = [session EXCEPT ![s] = [r EXCEPT !.count = r.count + 1]]
    /\ recent' = [recent EXCEPT ![s] = @ \cup {[at |-> now, n |-> Cardinality(At(@, now))]}]

-----------------------------------------------------------------------------
(* Requests *)

Busy == \E c \in Conn : req[c] # Idle
ReadsBody(k) == keyField' = k /\ overlap' = (overlap \/ Busy)

Arrive(c, s, r, k, b) ==
    /\ req[c] = Idle
    /\ LetThrough(s)
    /\ ReadsBody(k)
    /\ req' = [req EXCEPT ![c] = [Idle EXCEPT !.at = "reading", !.route = r, !.key = k, !.body = b]]
    /\ UNCHANGED <<now, store, slots, stream, until>>

\* Content-Length is over the limit: refused, but the key has been put down.
ArriveTooLarge(s, k) ==
    /\ LetThrough(s)
    /\ ReadsBody(k)
    /\ UNCHANGED <<now, store, req, slots, stream, until>>

\* The body is too large after all, or the connection breaks.
BodyFails(c) ==
    /\ req[c].at = "reading"
    /\ req' = [req EXCEPT ![c] = Idle]
    /\ UNCHANGED <<now, session, keyField, store, slots, stream, recent, until, overlap>>

\* Mutant: the entry is given up one unit early.
FreshTooShort(k) == k # NoKey /\ store[k].expiresAt > now + 1

\* check() does not miss.
Fresh(k) == k # NoKey /\ store[k].expiresAt > now

Store(c, k) ==
    store' = IF k = NoKey THEN store
             ELSE [store EXCEPT ![k] = [body |-> req[c].body, expiresAt |-> now + IdempotencyTtl]]

\* Replay or mismatch, as the body is the same or not; or no idempotency.
Answer(c) ==
    /\ req[c].at = "reading"
    /\ req[c].route = "plain" \/ Fresh(keyField)
    /\ req' = [req EXCEPT ![c] = Idle]
    /\ UNCHANGED <<now, session, keyField, store, slots, stream, recent, until, overlap>>

Runs(c, r) ==
    /\ req[c].at = "reading" /\ req[c].route = r
    /\ ~Fresh(keyField)

\* History: the response to this key is to be replayed from now on.
Keep(k) ==
    until' = IF k = NoKey THEN until ELSE [until EXCEPT ![k] = now + IdempotencyTtl]

\* svc.createInvite() returns or throws before anything else happens.
RunCreate(c) ==
    /\ Runs(c, "create")
    /\ \/ Store(c, keyField) /\ Keep(req[c].key)
       \/ UNCHANGED <<store, until>>
    /\ req' = [req EXCEPT ![c] = Idle]
    /\ UNCHANGED <<now, session, keyField, slots, stream, recent, overlap>>

RunListener(c) ==
    /\ Runs(c, "listener")
    /\ req' = [req EXCEPT ![c].at = "running", ![c].used = keyField]
    /\ UNCHANGED <<now, session, keyField, store, slots, stream, recent, until, overlap>>

ListenerReturns(c) ==
    /\ req[c].at = "running"
    /\ Store(c, req[c].used) /\ Keep(req[c].key)
    /\ req' = [req EXCEPT ![c] = Idle]
    /\ UNCHANGED <<now, session, keyField, slots, stream, recent, overlap>>

\* Nothing is stored, so the client may try again with the same key.
ListenerThrows(c) ==
    /\ req[c].at = "running"
    /\ req' = [req EXCEPT ![c] = Idle]
    /\ UNCHANGED <<now, session, keyField, store, slots, stream, recent, until, overlap>>

-----------------------------------------------------------------------------
(* Status streams *)

\* Mutant: the slot is taken before the session is looked at.
OpenStreamUnchecked(x, s) ==
    /\ stream[x] = "none"
    /\ slots < MaxStreams
    /\ slots' = slots + 1
    /\ stream' = IF Valid(s) THEN [stream EXCEPT ![x] = "open"] ELSE stream
    /\ UNCHANGED <<now, session, keyField, store, req, recent, until, overlap>>

\* handleStatusStream()
OpenStream(x, s) ==
    /\ stream[x] = "none"
    /\ Valid(s)
    /\ slots < MaxStreams
    /\ slots' = slots + 1
    /\ stream' = [stream EXCEPT ![x] = "open"]
    /\ UNCHANGED <<now, session, keyField, store, req, recent, until, overlap>>

\* cleanup() hangs on the close event of the request and on that of the
\* response; the connection is gone with the first.
Released == IF slots > 0 THEN slots - 1 ELSE 0
StreamCloses(x) ==
    /\ \/ stream[x] = "open" /\ stream' = [stream EXCEPT ![x] = "half"]
       \/ stream[x] = "half" /\ stream' = [stream EXCEPT ![x] = "none"]
    /\ slots' = Released
    /\ UNCHANGED <<now, session, keyField, store, req, recent, until, overlap>>

Tick ==
    /\ now < MaxTime
    /\ now' = now + 1
    /\ recent' = [s \in Session |-> {e \in recent[s] : now' - e.at < Window}]
    /\ UNCHANGED <<session, keyField, store, req, slots, stream, until, overlap>>

Next ==
    \/ \E s \in Session :
          \/ Bootstrap(s) \/ LookUpExpired(s)
          \/ \E k \in Key \cup {NoKey} :
                \/ ArriveTooLarge(s, k)
                \/ \E c \in Conn, r \in Route, b \in Body : Arrive(c, s, r, k, b)
          \/ \E x \in Stream : OpenStream(x, s)
    \/ \E c \in Conn :
          \/ BodyFails(c) \/ Answer(c) \/ RunCreate(c) \/ RunListener(c)
          \/ ListenerReturns(c) \/ ListenerThrows(c)
    \/ \E x \in Stream : StreamCloses(x)
    \/ Tick

Spec == Init /\ [][Next]_vars

-----------------------------------------------------------------------------
(* Properties *)

\* The variables keep their types.
TypeOK ==
    /\ now \in 1 .. MaxTime
    /\ session \in [Session -> [born : -1 .. MaxTime, count : 0 .. MaxRequests, resetAt : Nat]]
    /\ keyField \in Key \cup {NoKey}
    /\ store \in [Key -> [body : Body \cup {"none"}, expiresAt : Nat]]
    /\ req \in [Conn -> Request]
    /\ slots \in 0 .. MaxStreams
    /\ stream \in [Stream -> {"none", "open", "half"}]
    /\ recent \in [Session -> SUBSET Passed]
    /\ until \in [Key -> Nat] /\ overlap \in BOOLEAN

StartsRun(c) == RunCreate(c) \/ RunListener(c)

\* As long as requests come one by one, a request whose key has been answered
\* runs nothing until the answer is out of date (withIdempotency()).
KeyedOnce ==
    [][\A c \in Conn :
          StartsRun(c) /\ ~overlap /\ req[c].key # NoKey => until[req[c].key] <= now]_vars

\* The key that withIdempotency() works with is the request's own, whatever
\* other requests are under way.
KeyIsOwn == [][\A c \in Conn : StartsRun(c) => keyField = req[c].key]_vars

\* Any stretch of one window, wherever it starts, sees at most twice the limit
\* of a session's requests (checkRateLimit() counts from fixed starts).
RateWindow == \A s \in Session : Cardinality(recent[s]) <= 2 * MaxRequests

\* No slot is lost: each one that is counted belongs to an open stream, so a
\* client is refused only if as many streams as allowed are open.
SlotsAreUsed == slots <= Cardinality({x \in Stream : stream[x] = "open"})
=============================================================================
