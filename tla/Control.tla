------------------------------ MODULE Control ------------------------------
(***************************************************************************)
(* The control channel of src/src/control.ts: members send signed requests *)
(* to the anchor, which answers each with a signed answer.  ControlServer  *)
(* keeps the nonces it has seen for twice the allowed clock skew, and      *)
(* counts requests per member.                                             *)
(*                                                                         *)
(* Requests are lost, delayed, repeated and overtaken as they like, and a  *)
(* copy may be damaged; clocks of members differ from the anchor's.  The   *)
(* anchor's clock does not go back.  A time is a second and a fraction:    *)
(* requests carry the second only, nonces expire at the fraction.          *)
(*                                                                         *)
(* What the handler returns is a version that the anchor's user moves on;  *)
(* the tests let it return the roster.  A path without a handler ends like *)
(* one whose handler throws: its nonce and its place in the rate are used, *)
(* and the model counts it as a call.  handle() takes the time once and    *)
(* NonceCache.has() again; the two are one here.                           *)
(***************************************************************************)
EXTENDS Integers, FiniteSets

CONSTANTS
    Member,         \* who may send requests, by the ID of its key
    Skew,           \* CTRL_SKEW_SEC
    RateLimit,      \* CTRL_RATE_LIMIT
    RateWindow,     \* CTRL_RATE_WINDOW_MS, in seconds
    Drift,          \* seconds by which a member's clock is ahead
    MaxFraction,    \* bound of the model: parts of a second
    MaxSecond,      \* bound of the model: the anchor's clock
    MaxRequest,     \* bound of the model: requests sent
    MaxVersion      \* bound of the model: versions of what is returned

ASSUME ControlParameters ==
    /\ Skew \in Nat /\ RateLimit \in Nat /\ RateWindow \in Nat
    /\ Drift \subseteq Int
    /\ MaxFraction \in Nat /\ MaxSecond \in Nat /\ MaxRequest \in Nat
    /\ MaxVersion \in Nat

VARIABLES
    now,        \* the anchor's clock
    seen,       \* nonceCache.seen: when a nonce expires, or NoTime
    rate,       \* rate: member -> requests in the window that ends at resetAt
    serving,    \* requests whose handler has been called and has not returned
    active,     \* members for which getMemberKey() returns a key
    content,    \* what the handler returns at this moment, a version
    asked,      \* the requests and what came of each
    answers,    \* signed answers that were sent
    ran         \* history: how often the handler was called for a request
                \* since the last restart that lost the nonces

serverVars == <<seen, rate, serving>>
vars == <<now, serverVars, active, content, asked, answers, ran>>

Request == 1 .. MaxRequest      \* a request stands for its nonce
Time == [s : Nat, f : 0 .. MaxFraction]
NoTime == [s |-> -1, f |-> 0]
Leq(x, y) == x.s < y.s \/ (x.s = y.s /\ x.f <= y.f)
Later(t, seconds) == [t EXCEPT !.s = @ + seconds]

NoMember == "none"
Place == {"unsent", "waiting", "answered", "unsigned"}
Unsent == [at |-> "unsent", from |-> NoMember, ts |-> 0, ahead |-> 0,
           since |-> 0, got |-> 0]

Init ==
    /\ now = [s |-> 0, f |-> 0]
    /\ seen = [q \in Request |-> NoTime]
    /\ rate = [m \in Member |-> [count |-> 0, resetAt |-> [s |-> 0, f |-> 0]]]
    /\ serving = {}
    /\ asked = [q \in Request |-> Unsent]
    /\ answers = {}
    /\ ran = [q \in Request |-> 0]
    /\ content = 0 /\ active = Member

-----------------------------------------------------------------------------
(* ControlClient.send() *)

Sent == {q \in Request : asked[q].at # "unsent"}

\* The timestamp is the second of the member's own clock.
Send(m, ahead) ==
    /\ Cardinality(Sent) < MaxRequest
    /\ asked' = [asked EXCEPT ![Cardinality(Sent) + 1] =
          [at |-> "waiting", from |-> m, ts |-> now.s + ahead, ahead |-> ahead,
           since |-> content, got |-> 0]]
    /\ UNCHANGED <<now, serverVars, active, content, answers, ran>>

\* Mutant: any signed answer will do.
BoundToAny(q, a) == a.nonce \in Request

\* How a request ends: with an answer whose signature was checked, or with one
\* that carries none.  If send() throws, for there is no connection, the nonce
\* is another one or the signature is wrong, the request has no answer and is
\* left waiting here.
Ends(q, at, got) ==
    /\ asked[q].at = "waiting"
    /\ asked' = [asked EXCEPT ![q].at = at, ![q].got = got]
    /\ UNCHANGED <<now, serverVars, active, content, answers, ran>>

\* Any answer the anchor ever signed may turn up; the nonce tells.
BoundTo(q, a) == a.nonce = q
Receive(q, a) == BoundTo(q, a) /\ Ends(q, "answered", a.content)

\* The anchor signs no refusal, and send() looks only for a signature that is
\* there: an answer without the fields sig and nonce is returned as it is,
\* be it an error, an older answer that has lost them, or anything else.  What
\* its caller then has may be anything, and the model does not record it.
ReceiveUnsigned(q) == Ends(q, "unsigned", 0)

-----------------------------------------------------------------------------
(* ControlServer.handle() *)

\* Mutant: nonces are kept for the skew only.
CacheTtlShort == Skew

CacheTtl == 2 * Skew

InTime(q) == now.s - asked[q].ts <= Skew /\ asked[q].ts - now.s <= Skew

\* has() prunes first.
Unexpired == [n \in Request |-> IF Leq(seen[n], now) THEN NoTime ELSE seen[n]]

\* checkRate()
Counted(m) ==
    IF Leq(rate[m].resetAt, now)
    THEN [count |-> 1, resetAt |-> Later(now, RateWindow)]
    ELSE [rate[m] EXCEPT !.count = @ + 1]
WithinRate(m) == Leq(rate[m].resetAt, now) \/ rate[m].count < RateLimit

\* Mutants: a request that is over the rate is remembered all the same; a
\* repeated one is counted.
DeliverRemembersAll(q, intact) ==
    LET m == asked[q].from
        new == Unexpired[q] = NoTime /\ intact
    IN  /\ q \in Sent /\ m \in active /\ InTime(q)
        /\ seen' = IF new THEN [Unexpired EXCEPT ![q] = Later(now, CacheTtl)]
                          ELSE Unexpired
        /\ IF new /\ WithinRate(m)
           THEN /\ rate' = [rate EXCEPT ![m] = Counted(m)]
                /\ serving' = serving \cup {q}
                /\ ran' = [ran EXCEPT ![q] = @ + 1]
           ELSE UNCHANGED <<rate, serving, ran>>
        /\ UNCHANGED <<now, active, content, asked, answers>>
DeliverCountsAll(q, intact) ==
    LET m == asked[q].from
    IN  /\ q \in Sent /\ m \in active /\ InTime(q)
        /\ rate' = IF WithinRate(m) THEN [rate EXCEPT ![m] = Counted(m)] ELSE rate
        /\ IF Unexpired[q] = NoTime /\ intact /\ WithinRate(m)
           THEN /\ seen' = [Unexpired EXCEPT ![q] = Later(now, CacheTtl)]
                /\ serving' = serving \cup {q}
                /\ ran' = [ran EXCEPT ![q] = @ + 1]
           ELSE /\ seen' = Unexpired
                /\ UNCHANGED <<serving, ran>>
        /\ UNCHANGED <<now, active, content, asked, answers>>

\* A copy of q arrives.  A key that is not active and a time outside the skew
\* are refused before anything changes; then a nonce that is known, a wrong
\* signature and the rate, in this order.
Deliver(q, intact) ==
    LET m == asked[q].from
    IN  /\ q \in Sent /\ m \in active /\ InTime(q)
        /\ IF Unexpired[q] = NoTime /\ intact /\ WithinRate(m)
           THEN /\ rate' = [rate EXCEPT ![m] = Counted(m)]
                /\ seen' = [Unexpired EXCEPT ![q] = Later(now, CacheTtl)]
                /\ serving' = serving \cup {q}
                /\ ran' = [ran EXCEPT ![q] = @ + 1]
           ELSE /\ seen' = Unexpired
                /\ UNCHANGED <<rate, serving, ran>>
        /\ UNCHANGED <<now, active, content, asked, answers>>

\* The handler returns what there is by then, and the answer is signed
\* together with the nonce; or it throws, and the error is not signed.
HandlerReturns(q) ==
    /\ q \in serving
    /\ serving' = serving \ {q}
    /\ answers' = answers \cup {[nonce |-> q, content |-> content]}
    /\ UNCHANGED <<now, seen, rate, active, content, asked, ran>>

HandlerThrows(q) ==
    /\ q \in serving
    /\ serving' = serving \ {q}
    /\ UNCHANGED <<now, seen, rate, active, content, asked, answers, ran>>

\* A new ControlServer; its owner hands the nonces on with export() and
\* import(), or not.
ServerRestarts(handedOn) ==
    /\ IF handedOn THEN UNCHANGED <<seen, ran>>
       ELSE /\ seen' = [q \in Request |-> NoTime]
            /\ ran' = [q \in Request |-> 0]
    /\ rate' = [m \in Member |-> [count |-> 0, resetAt |-> [s |-> 0, f |-> 0]]]
    /\ serving' = {}
    /\ UNCHANGED <<now, active, content, asked, answers>>

Tick ==
    /\ now' = IF now.f < MaxFraction THEN [now EXCEPT !.f = @ + 1]
                                     ELSE [s |-> now.s + 1, f |-> 0]
    /\ now'.s <= MaxSecond
    /\ UNCHANGED <<serverVars, active, content, asked, answers, ran>>

\* The anchor's user admits or drops members, and there is a new version.
Publish ==
    /\ content < MaxVersion
    /\ content' = content + 1
    /\ active' \in SUBSET Member
    /\ UNCHANGED <<now, serverVars, asked, answers, ran>>

Next ==
    \/ \E m \in Member, ahead \in Drift : Send(m, ahead)
    \/ \E q \in Request :
          \/ \E intact \in BOOLEAN : Deliver(q, intact)
          \/ HandlerReturns(q) \/ HandlerThrows(q)
          \/ \E a \in answers : Receive(q, a)
          \/ ReceiveUnsigned(q)
    \/ \E handedOn \in BOOLEAN : ServerRestarts(handedOn)
    \/ Tick \/ Publish

Spec == Init /\ [][Next]_vars

-----------------------------------------------------------------------------
(* Properties *)

\* The variables keep their types.
TypeOK ==
    /\ now \in Time
    /\ seen \in [Request -> Time \cup {NoTime}]
    /\ rate \in [Member -> [count : Nat, resetAt : Time]]
    /\ serving \subseteq Sent
    /\ active \subseteq Member /\ content \in 0 .. MaxVersion
    /\ asked \in [Request -> [at : Place, from : Member \cup {NoMember}, ts : Int,
                              ahead : Drift \cup {0}, since : 0 .. MaxVersion,
                              got : 0 .. MaxVersion]]
    /\ answers \subseteq [nonce : Sent, content : 0 .. MaxVersion]
    /\ ran \in [Request -> Nat]

\* However often a request is repeated, its handler is called at most once,
\* unless a restart loses the nonces or the sender's clock is the whole skew
\* ahead.  (If it is, the nonce expires within the last second in which its
\* request is still in time.)
HandledOnce ==
    \A q \in Sent : asked[q].ahead < Skew => ran[q] <= 1

\* A request that is refused as a replay was carried out: neither a damaged
\* copy that came first nor one that was over the rate uses up its nonce.
ReplayWasRun == \A q \in Request : seen[q] # NoTime => ran[q] > 0

\* A member's rate is used up only by what it signed, once for each call of a
\* handler (Calls): repeated and damaged copies cost it nothing.
Calls(m) == UNION {{<<q, n>> : n \in 1 .. ran[q]} : q \in {r \in Sent : asked[r].from = m}}
QuotaIsOwn == \A m \in Member : rate[m].count <= Cardinality(Calls(m))

\* An answer that send() returns because its signature and its nonce are right
\* was up to date at some time since the request was sent, however answers are
\* mixed up, repeated or damaged on their way.  (One without a signature, which
\* send() returns as well, promises nothing.)
AnswerIsFresh ==
    \A q \in Request : asked[q].at = "answered" =>
        asked[q].since <= asked[q].got /\ asked[q].got <= content
=============================================================================
