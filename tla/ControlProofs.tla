---------------------------- MODULE ControlProofs ----------------------------
(***************************************************************************)
(* Proofs about Control, for any number of members and requests, any skew, *)
(* rate and drift of clocks, and any fineness of time.                     *)
(***************************************************************************)
EXTENDS Control, FiniteSetTheorems, TLAPS

\* Requests are numbered as they are sent, and one that is not yet sent has
\* left no trace at the anchor.
SentInOrder == Sent = 1 .. Cardinality(Sent)
UnsentIsUnknown ==
    \A q \in Request \ Sent : seen[q] = NoTime /\ ran[q] = 0

\* A request carries the time of its sending, as its sender's clock shows it.
SentBeforeNow ==
    \A q \in Sent :
        /\ asked[q].ts - asked[q].ahead <= now.s
        /\ asked[q].since <= content

\* Where the sender's clock is ahead by less than the skew, the nonce outlives
\* the time in which its request is accepted.
NonceOutlives ==
    \A q \in Sent :
        asked[q].ahead < Skew /\ ran[q] > 0 =>
            IF seen[q] = NoTime THEN now.s > asked[q].ts + Skew
                                ELSE seen[q].s > asked[q].ts + Skew

\* An answer is not older than its request.
AnswersAreFresh ==
    \A a \in answers : asked[a.nonce].since <= a.content /\ a.content <= content

CallsAreFinite == \A m \in Member : IsFiniteSet(Calls(m))

IInv ==
    /\ TypeOK
    /\ SentInOrder /\ UnsentIsUnknown /\ SentBeforeNow
    /\ NonceOutlives /\ HandledOnce /\ ReplayWasRun
    /\ AnswersAreFresh /\ AnswerIsFresh
    /\ CallsAreFinite /\ QuotaIsOwn

-----------------------------------------------------------------------------
(* The operators *)

LEMMA LaterIsTime ==
    ASSUME NEW t \in Time, NEW seconds \in Nat
    PROVE  /\ Later(t, seconds) \in Time
           /\ Later(t, seconds).s = t.s + seconds
           /\ Later(t, seconds) # NoTime
BY DEF Later, Time, NoTime

LEMMA CacheTtlIsNat == CacheTtl \in Nat /\ CacheTtl = 2 * Skew
BY ControlParameters DEF CacheTtl

\* What is forgotten had expired.
LEMMA UnexpiredIs ==
    ASSUME TypeOK, NEW n \in Request
    PROVE  /\ Unexpired[n] \in Time \cup {NoTime}
           /\ Unexpired[n] # NoTime => Unexpired[n] = seen[n]
           /\ Unexpired[n] = NoTime =>
                  seen[n] = NoTime \/ (seen[n] \in Time /\ seen[n].s <= now.s)
BY DEF TypeOK, Unexpired, Leq, Time, NoTime

LEMMA AskedFields ==
    ASSUME TypeOK, NEW q \in Request
    PROVE  /\ asked[q].ts \in Int /\ asked[q].ahead \in Int
           /\ asked[q].since \in Int /\ asked[q].got \in Int
<1>1. asked[q] \in [at : Place, from : Member \cup {NoMember}, ts : Int,
                   ahead : Drift \cup {0}, since : 0 .. MaxVersion, got : 0 .. MaxVersion]
  BY DEF TypeOK
<1>2. Drift \cup {0} \subseteq Int
  BY ControlParameters
<1>3. 0 .. MaxVersion \subseteq Int
  BY ControlParameters
<1> QED
  BY <1>1, <1>2, <1>3

LEMMA SentIsSubset == Sent \subseteq Request
BY DEF Sent

\* Which request Send() sends.
LEMMA NextRequest ==
    ASSUME SentInOrder, Cardinality(Sent) < MaxRequest
    PROVE  Cardinality(Sent) + 1 \in Request \ Sent
<1>1. IsFiniteSet(Request)
  BY ControlParameters, FS_Interval DEF Request
<1>2. IsFiniteSet(Sent)
  BY <1>1, SentIsSubset, FS_Subset
<1>3. Cardinality(Sent) \in Nat
  BY <1>2, FS_CardinalityType
<1> QED
  BY <1>3, ControlParameters DEF SentInOrder, Request

\* What the arrival of a copy does: a new one is handled, any other one is
\* forgotten but for what has expired by then.
Accepted(q) ==
    LET m == asked[q].from
    IN  /\ Unexpired[q] = NoTime /\ WithinRate(m)
        /\ rate' = [rate EXCEPT ![m] = Counted(m)]
        /\ seen' = [Unexpired EXCEPT ![q] = Later(now, CacheTtl)]
        /\ serving' = serving \cup {q}
        /\ ran' = [ran EXCEPT ![q] = @ + 1]
Rejected == seen' = Unexpired /\ UNCHANGED <<rate, serving, ran>>

LEMMA DeliverIs ==
    ASSUME NEW q \in Request, NEW intact \in BOOLEAN, Deliver(q, intact)
    PROVE  /\ q \in Sent /\ asked[q].from \in active /\ InTime(q)
           /\ Accepted(q) \/ Rejected
           /\ UNCHANGED <<now, active, content, asked, answers, Sent>>
BY DEF Deliver, Accepted, Rejected, Sent

-----------------------------------------------------------------------------
(* The invariant, part by part *)

LEMMA Initially == Init => IInv
<1> SUFFICES ASSUME Init PROVE IInv
  OBVIOUS
<1>1. Sent = {}
  BY DEF Init, Sent, Unsent
<1>2. TypeOK
  BY <1>1, ControlParameters DEF Init, TypeOK, Time, Unsent, Place
<1>3. SentInOrder
  BY <1>1, FS_EmptySet DEF SentInOrder
<1>4. \A m \in Member : Calls(m) = {}
  BY <1>1 DEF Calls
<1>5. CallsAreFinite /\ QuotaIsOwn
  BY <1>4, FS_EmptySet DEF CallsAreFinite, QuotaIsOwn, Init
<1> QED
  BY <1>1, <1>2, <1>3, <1>5 DEF IInv, Init, UnsentIsUnknown, SentBeforeNow,
     NonceOutlives, HandledOnce, ReplayWasRun, AnswersAreFresh, AnswerIsFresh, Unsent

\* Sending touches nothing that the anchor has.
LEMMA SendIs ==
    ASSUME IInv, NEW m \in Member, NEW ahead \in Drift, Send(m, ahead)
    PROVE  LET q == Cardinality(Sent) + 1
           IN  /\ q \in Request \ Sent
               /\ asked' = [asked EXCEPT ![q] =
                      [at |-> "waiting", from |-> m, ts |-> now.s + ahead,
                       ahead |-> ahead, since |-> content, got |-> 0]]
               /\ Sent' = Sent \cup {q}
<1>1. Cardinality(Sent) + 1 \in Request \ Sent
  BY NextRequest DEF Send, IInv
<1> QED
  BY <1>1 DEF Send, Sent, IInv, TypeOK

\* However a request ends, it remains sent and nothing else changes.
LEMMA EndsIs ==
    ASSUME IInv, NEW q \in Request, NEW at \in {"answered", "unsigned"},
           NEW got \in 0 .. MaxVersion, Ends(q, at, got)
    PROVE  /\ q \in Sent /\ Sent' = Sent
           /\ UNCHANGED <<now, seen, rate, serving, active, content, answers, ran>>
BY DEF Ends, Sent, serverVars, IInv, TypeOK

Received == \E q \in Request, at \in {"answered", "unsigned"}, got \in 0 .. MaxVersion :
                Ends(q, at, got)

LEMMA ReceivedIs ==
    ASSUME IInv, NEW q \in Request,
           (\E a \in answers : Receive(q, a)) \/ ReceiveUnsigned(q)
    PROVE  Received
<1>1. CASE ReceiveUnsigned(q)
  <2>1. 0 \in 0 .. MaxVersion
    BY ControlParameters
  <2> QED
    BY <1>1, <2>1 DEF ReceiveUnsigned, Received
<1>2. ASSUME NEW a \in answers, Receive(q, a) PROVE Received
  <2>1. a.content \in 0 .. MaxVersion
    BY DEF IInv, TypeOK
  <2> QED
    BY <1>2, <2>1 DEF Receive, Received
<1> QED
  BY <1>1, <1>2

LEMMA TypeStep == IInv /\ [Next]_vars => TypeOK'
<1> SUFFICES ASSUME IInv, [Next]_vars PROVE TypeOK'
  OBVIOUS
<1>0. TypeOK /\ Sent \subseteq Request
  BY SentIsSubset DEF IInv
<1>1. ASSUME NEW m \in Member, NEW ahead \in Drift, Send(m, ahead) PROVE TypeOK'
  <2> DEFINE q == Cardinality(Sent) + 1
  <2>1. /\ q \in Request \ Sent /\ Sent' = Sent \cup {q}
        /\ asked' = [asked EXCEPT ![q] =
                      [at |-> "waiting", from |-> m, ts |-> now.s + ahead,
                       ahead |-> ahead, since |-> content, got |-> 0]]
    BY <1>1, SendIs
  <2>2. [at |-> "waiting", from |-> m, ts |-> now.s + ahead,
         ahead |-> ahead, since |-> content, got |-> 0]
            \in [at : Place, from : Member \cup {NoMember}, ts : Int,
                 ahead : Drift \cup {0}, since : 0 .. MaxVersion, got : 0 .. MaxVersion]
    BY <1>0, ControlParameters DEF TypeOK, Time, Place
  <2> HIDE DEF q
  <2>3. asked' \in [Request ->
            [at : Place, from : Member \cup {NoMember}, ts : Int,
             ahead : Drift \cup {0}, since : 0 .. MaxVersion, got : 0 .. MaxVersion]]
    BY <1>0, <2>1, <2>2 DEF TypeOK
  <2>4. /\ serving' \subseteq Sent'
        /\ answers' \subseteq [nonce : Sent', content : 0 .. MaxVersion]
    BY <1>0, <1>1, <2>1 DEF TypeOK, Send, serverVars
  <2> QED
    BY <1>0, <1>1, <2>3, <2>4 DEF TypeOK, Send, serverVars
<1>2. ASSUME NEW q \in Request, NEW intact \in BOOLEAN, Deliver(q, intact) PROVE TypeOK'
  <2>1. /\ q \in Sent /\ asked[q].from \in Member
        /\ UNCHANGED <<now, active, content, asked, answers, Sent>>
    BY <1>0, <1>2, DeliverIs DEF TypeOK
  <2>2. Unexpired \in [Request -> Time \cup {NoTime}]
    BY <1>0, UnexpiredIs DEF Unexpired
  <2>3. CASE Rejected
    BY <1>0, <2>1, <2>2, <2>3 DEF Rejected, TypeOK
  <2>4. CASE Accepted(q)
    <3>1. Later(now, CacheTtl) \in Time /\ Later(now, RateWindow) \in Time
      BY <1>0, LaterIsTime, CacheTtlIsNat, ControlParameters DEF TypeOK
    <3>2. Counted(asked[q].from) \in [count : Nat, resetAt : Time]
      BY <1>0, <2>1, <3>1 DEF Counted, TypeOK
    <3>3. /\ seen' \in [Request -> Time \cup {NoTime}]
          /\ rate' \in [Member -> [count : Nat, resetAt : Time]]
      BY <1>0, <2>1, <2>2, <2>4, <3>1, <3>2 DEF Accepted, TypeOK
    <3>4. ran' \in [Request -> Nat] /\ serving' \subseteq Sent
      BY <1>0, <2>1, <2>4 DEF Accepted, TypeOK
    <3> QED
      BY <1>0, <2>1, <3>3, <3>4 DEF TypeOK
  <2> QED
    BY <1>2, <2>3, <2>4, DeliverIs
<1>3. ASSUME NEW q \in Request, HandlerReturns(q) \/ HandlerThrows(q) PROVE TypeOK'
  <2>1. Sent' = Sent
    BY <1>3 DEF HandlerReturns, HandlerThrows, Sent
  <2>2. answers' \subseteq [nonce : Sent, content : 0 .. MaxVersion]
    BY <1>0, <1>3 DEF HandlerReturns, HandlerThrows, TypeOK
  <2> QED
    BY <1>0, <1>3, <2>1, <2>2 DEF HandlerReturns, HandlerThrows, TypeOK
<1>4. ASSUME NEW q \in Request, NEW at \in {"answered", "unsigned"},
             NEW got \in 0 .. MaxVersion, Ends(q, at, got)
      PROVE  TypeOK'
  <2>2. Sent' = Sent
    BY <1>4, EndsIs
  <2>3. asked' = [asked EXCEPT ![q].at = at, ![q].got = got]
    BY <1>4, EndsIs DEF Ends
  <2>4. asked' \in [Request ->
            [at : Place, from : Member \cup {NoMember}, ts : Int,
             ahead : Drift \cup {0}, since : 0 .. MaxVersion, got : 0 .. MaxVersion]]
    <3>1. [asked[q] EXCEPT !.at = at, !.got = got] \in
            [at : Place, from : Member \cup {NoMember}, ts : Int,
             ahead : Drift \cup {0}, since : 0 .. MaxVersion, got : 0 .. MaxVersion]
      BY <1>0, <1>4 DEF TypeOK, Place
    <3>2. asked' = [asked EXCEPT ![q] = [asked[q] EXCEPT !.at = at, !.got = got]]
      BY <1>0, <2>3 DEF TypeOK
    <3> QED
      BY <1>0, <3>1, <3>2 DEF TypeOK
  <2> QED
    BY <1>0, <1>4, <2>2, <2>4 DEF Ends, serverVars, TypeOK
<1>5. ASSUME NEW handedOn \in BOOLEAN, ServerRestarts(handedOn) PROVE TypeOK'
  <2>1. Sent' = Sent
    BY <1>5 DEF ServerRestarts, Sent
  <2>2. [count |-> 0, resetAt |-> [s |-> 0, f |-> 0]] \in [count : Nat, resetAt : Time]
    BY ControlParameters DEF Time
  <2> QED
    BY <1>0, <1>5, <2>1, <2>2 DEF ServerRestarts, TypeOK
<1>6. CASE Tick
  <2>1. Sent' = Sent
    BY <1>6 DEF Tick, Sent
  <2>2. now' \in Time
    BY <1>0, <1>6, ControlParameters DEF Tick, TypeOK, Time
  <2> QED
    BY <1>0, <1>6, <2>1, <2>2 DEF Tick, serverVars, TypeOK
<1>7. CASE Publish
  <2>1. Sent' = Sent
    BY <1>7 DEF Publish, Sent
  <2>2. content' \in 0 .. MaxVersion
    BY <1>0, <1>7, ControlParameters DEF Publish, TypeOK
  <2> QED
    BY <1>0, <1>7, <2>1, <2>2 DEF Publish, serverVars, TypeOK
<1>8. CASE UNCHANGED vars
  <2>1. Sent' = Sent
    BY <1>8 DEF vars, Sent
  <2> QED
    BY <1>0, <1>8, <2>1 DEF vars, serverVars, TypeOK
<1> QED
  BY <1>1, <1>2, <1>3, <1>4, <1>5, <1>6, <1>7, <1>8, ReceivedIs DEF Next, Received

LEMMA OrderStep == IInv /\ [Next]_vars => SentInOrder' /\ UnsentIsUnknown'
<1> SUFFICES ASSUME IInv, [Next]_vars PROVE SentInOrder' /\ UnsentIsUnknown'
  OBVIOUS
<1>0. TypeOK /\ SentInOrder /\ UnsentIsUnknown /\ Sent \subseteq Request
  BY SentIsSubset DEF IInv
<1>1. ASSUME NEW m \in Member, NEW ahead \in Drift, Send(m, ahead)
      PROVE  SentInOrder' /\ UnsentIsUnknown'
  <2> DEFINE n == Cardinality(Sent)
  <2>1. n + 1 \in Request \ Sent /\ Sent' = Sent \cup {n + 1}
    BY <1>1, SendIs
  <2>2. n \in Nat /\ n + 1 \in Nat /\ IsFiniteSet(Sent)
    <3>1. IsFiniteSet(Request)
      BY ControlParameters, FS_Interval DEF Request
    <3>2. IsFiniteSet(Sent)
      BY <1>0, <3>1, FS_Subset
    <3>3. n \in Nat
      BY <3>2, FS_CardinalityType
    <3> QED
      BY <3>2, <3>3
  <2>3. Cardinality(Sent') = n + 1
    BY <2>1, <2>2, FS_AddElement
  <2>4. Sent = 1 .. n
    BY <1>0 DEF SentInOrder
  <2> HIDE DEF n
  <2>5. Sent' = 1 .. n + 1
    BY <2>1, <2>2, <2>4
  <2> QED
    BY <1>0, <1>1, <2>1, <2>3, <2>5 DEF SentInOrder, UnsentIsUnknown, Send, serverVars
<1>2. ASSUME NEW q \in Request, NEW intact \in BOOLEAN, Deliver(q, intact)
      PROVE  SentInOrder' /\ UnsentIsUnknown'
  <2>1. q \in Sent /\ Sent' = Sent
    BY <1>2, DeliverIs
  <2>2. \A n \in Request \ Sent : Unexpired[n] = NoTime
    BY <1>0 DEF UnsentIsUnknown, Unexpired
  <2>3. \A n \in Request \ Sent : seen'[n] = NoTime /\ ran'[n] = 0
    <3>1. CASE Rejected
      BY <1>0, <2>2, <3>1 DEF Rejected, UnsentIsUnknown
    <3>2. CASE Accepted(q)
      BY <1>0, <2>1, <2>2, <3>2 DEF Accepted, UnsentIsUnknown, TypeOK, Unexpired
    <3> QED
      BY <1>2, <3>1, <3>2, DeliverIs
  <2> QED
    BY <1>0, <2>1, <2>3 DEF SentInOrder, UnsentIsUnknown
<1>3. ASSUME NEW q \in Request, HandlerReturns(q) \/ HandlerThrows(q)
      PROVE  SentInOrder' /\ UnsentIsUnknown'
  BY <1>0, <1>3 DEF HandlerReturns, HandlerThrows, SentInOrder, UnsentIsUnknown, Sent
<1>4. ASSUME NEW q \in Request, NEW at \in {"answered", "unsigned"},
             NEW got \in 0 .. MaxVersion, Ends(q, at, got)
      PROVE  SentInOrder' /\ UnsentIsUnknown'
  BY <1>0, <1>4, EndsIs DEF SentInOrder, UnsentIsUnknown
<1>5. ASSUME NEW handedOn \in BOOLEAN, ServerRestarts(handedOn)
      PROVE  SentInOrder' /\ UnsentIsUnknown'
  BY <1>0, <1>5 DEF ServerRestarts, SentInOrder, UnsentIsUnknown, Sent
<1>6. CASE Tick \/ Publish \/ UNCHANGED vars
  BY <1>0, <1>6 DEF Tick, Publish, vars, serverVars, SentInOrder, UnsentIsUnknown, Sent
<1> QED
  BY <1>1, <1>2, <1>3, <1>4, <1>5, <1>6, ReceivedIs DEF Next, Received

LEMMA SentBeforeStep == IInv /\ [Next]_vars => SentBeforeNow'
<1> SUFFICES ASSUME IInv, [Next]_vars, NEW q \in Sent'
             PROVE  /\ asked'[q].ts - asked'[q].ahead <= now'.s
                    /\ asked'[q].since <= content'
  BY DEF SentBeforeNow
<1>0. TypeOK /\ SentBeforeNow /\ Sent \subseteq Request /\ TypeOK'
  BY SentIsSubset, TypeStep DEF IInv
<1>1. ASSUME NEW m \in Member, NEW ahead \in Drift, Send(m, ahead)
      PROVE  /\ asked'[q].ts - asked'[q].ahead <= now'.s
             /\ asked'[q].since <= content'
  <2>1. /\ Cardinality(Sent) + 1 \in Request \ Sent
        /\ Sent' = Sent \cup {Cardinality(Sent) + 1}
        /\ asked' = [asked EXCEPT ![Cardinality(Sent) + 1] =
                      [at |-> "waiting", from |-> m, ts |-> now.s + ahead,
                       ahead |-> ahead, since |-> content, got |-> 0]]
        /\ UNCHANGED <<now, content>>
    BY <1>1, SendIs DEF Send
  <2>2. now.s \in Int /\ ahead \in Int /\ content \in Int
    BY <1>0, ControlParameters DEF TypeOK, Time
  <2>3. CASE q \in Sent
    BY <1>0, <2>1, <2>3 DEF SentBeforeNow, TypeOK
  <2>4. CASE q = Cardinality(Sent) + 1
    BY <1>0, <2>1, <2>2, <2>4 DEF TypeOK
  <2> QED
    BY <2>1, <2>3, <2>4
<1>2. ASSUME UNCHANGED <<now, asked, content>>
      PROVE  /\ asked'[q].ts - asked'[q].ahead <= now'.s
             /\ asked'[q].since <= content'
  BY <1>0, <1>2 DEF SentBeforeNow, Sent
<1>3. ASSUME NEW n \in Request, NEW at \in {"answered", "unsigned"},
             NEW got \in 0 .. MaxVersion, Ends(n, at, got)
      PROVE  /\ asked'[q].ts - asked'[q].ahead <= now'.s
             /\ asked'[q].since <= content'
  <2>1. /\ Sent' = Sent /\ UNCHANGED <<now, content>>
        /\ asked' = [asked EXCEPT ![n].at = at, ![n].got = got]
    BY <1>3, EndsIs DEF Ends
  <2>2. /\ asked'[q].ts = asked[q].ts /\ asked'[q].ahead = asked[q].ahead
        /\ asked'[q].since = asked[q].since
    BY <1>0, <2>1 DEF TypeOK
  <2> QED
    BY <1>0, <2>1, <2>2 DEF SentBeforeNow
<1>4. CASE Tick \/ Publish
  <2>1. asked' = asked /\ Sent' = Sent /\ now'.s >= now.s /\ content' >= content
    BY <1>0, <1>4 DEF Tick, Publish, TypeOK, Time, Sent
  <2>2. /\ now.s \in Int /\ now'.s \in Int /\ content \in Int /\ content' \in Int
        /\ asked[q].ts - asked[q].ahead \in Int /\ asked[q].since \in Int
    <3>1. now.s \in Int /\ now'.s \in Int /\ content \in Int /\ content' \in Int
      BY <1>0, ControlParameters DEF TypeOK, Time
    <3>2. asked[q].ts \in Int /\ asked[q].ahead \in Int /\ asked[q].since \in Int
      BY <1>0, <2>1, AskedFields
    <3> QED
      BY <3>1, <3>2
  <2>3. asked[q].ts - asked[q].ahead <= now.s /\ asked[q].since <= content
    BY <1>0, <2>1 DEF SentBeforeNow
  <2> QED
    BY <2>1, <2>2, <2>3
<1> QED
  BY <1>1, <1>2, <1>3, <1>4, ReceivedIs
     DEF Next, Received, Deliver, HandlerReturns, HandlerThrows, ServerRestarts, vars

\* A request is accepted again only when its nonce has expired, and by then it
\* is too old; one that is accepted for the first time gets a nonce that stays
\* for twice the skew from then on.
LEMMA DeliverOnce ==
    ASSUME IInv, NEW q \in Request, NEW intact \in BOOLEAN, Deliver(q, intact),
           Accepted(q), asked[q].ahead < Skew
    PROVE  /\ ran[q] = 0 /\ ran'[q] = 1
           /\ seen'[q] # NoTime /\ seen'[q].s > asked[q].ts + Skew
<1>0. TypeOK /\ q \in Sent /\ InTime(q) /\ Skew \in Nat
  BY DeliverIs, ControlParameters DEF IInv
<1>1. /\ now \in Time /\ now.s \in Nat
      /\ asked[q].ts \in Int /\ asked[q].ahead \in Int /\ ran[q] \in Nat
  BY <1>0, AskedFields DEF TypeOK, Time
<1>2. ran[q] = 0
  <2>1. SUFFICES ASSUME ran[q] > 0 PROVE FALSE
    BY <1>1
  <2>2. Unexpired[q] = NoTime
    BY DEF Accepted
  <2>3. seen[q] = NoTime \/ (seen[q] \in Time /\ seen[q].s <= now.s)
    BY <1>0, <2>2, UnexpiredIs
  <2>4. IF seen[q] = NoTime THEN now.s > asked[q].ts + Skew
                            ELSE seen[q].s > asked[q].ts + Skew
    BY <1>0, <2>1 DEF IInv, NonceOutlives
  <2>5. now.s > asked[q].ts + Skew
    <3>1. CASE seen[q] = NoTime
      BY <2>4, <3>1
    <3>2. CASE seen[q] # NoTime
      <4>1. seen[q].s \in Nat /\ seen[q].s <= now.s
        BY <2>3, <3>2 DEF Time
      <4>2. seen[q].s > asked[q].ts + Skew
        BY <2>4, <3>2
      <4> QED
        BY <1>0, <1>1, <4>1, <4>2
    <3> QED
      BY <3>1, <3>2
  <2>6. now.s - asked[q].ts <= Skew
    BY <1>0 DEF InTime
  <2> QED
    BY <1>0, <1>1, <2>5, <2>6
<1>3. ran'[q] = 1
  BY <1>0, <1>1, <1>2 DEF Accepted, TypeOK
<1>4. seen'[q] = Later(now, CacheTtl)
  BY <1>0 DEF Accepted, Unexpired
<1>5. seen'[q] # NoTime /\ seen'[q].s = now.s + 2 * Skew
  BY <1>1, <1>4, LaterIsTime, CacheTtlIsNat
<1>6. asked[q].ts - asked[q].ahead <= now.s
  BY <1>0 DEF IInv, SentBeforeNow
<1>7. now.s + 2 * Skew > asked[q].ts + Skew
  BY <1>0, <1>1, <1>6
<1> QED
  BY <1>2, <1>3, <1>5, <1>7

\* Of another request, or when the copy is refused, at most the nonce goes,
\* and only when its time is over.
LEMMA DeliverOthers ==
    ASSUME IInv, NEW q \in Request, NEW intact \in BOOLEAN, Deliver(q, intact),
           NEW n \in Sent, Rejected \/ n # q
    PROVE  /\ ran'[n] = ran[n] /\ seen'[n] = Unexpired[n]
           /\ asked[n].ahead < Skew /\ ran[n] > 0 =>
                IF seen'[n] = NoTime THEN now.s > asked[n].ts + Skew
                                     ELSE seen'[n].s > asked[n].ts + Skew
<1>0. TypeOK /\ n \in Request /\ Skew \in Nat
  BY SentIsSubset, ControlParameters DEF IInv
<1>1. ran'[n] = ran[n] /\ seen'[n] = Unexpired[n]
  <2>1. CASE Rejected
    BY <2>1 DEF Rejected
  <2>2. CASE Accepted(q) /\ n # q
    BY <1>0, <2>2 DEF Accepted, TypeOK, Unexpired
  <2> QED
    BY <2>1, <2>2, DeliverIs
<1>2. ASSUME asked[n].ahead < Skew, ran[n] > 0
      PROVE  IF seen'[n] = NoTime THEN now.s > asked[n].ts + Skew
                                  ELSE seen'[n].s > asked[n].ts + Skew
  <2>1. IF seen[n] = NoTime THEN now.s > asked[n].ts + Skew
                            ELSE seen[n].s > asked[n].ts + Skew
    BY <1>2 DEF IInv, NonceOutlives
  <2>2. CASE Unexpired[n] # NoTime
    BY <1>0, <1>1, <2>1, <2>2, UnexpiredIs
  <2>3. CASE Unexpired[n] = NoTime
    <3>1. now.s \in Nat /\ asked[n].ts \in Int
      BY <1>0, AskedFields DEF TypeOK, Time
    <3>2. seen[n] = NoTime \/ (seen[n] \in Time /\ seen[n].s <= now.s)
      BY <1>0, <2>3, UnexpiredIs
    <3>3. CASE seen[n] = NoTime
      BY <1>1, <2>1, <2>3, <3>3
    <3>4. CASE seen[n] # NoTime
      <4>1. seen[n].s \in Nat /\ seen[n].s <= now.s
        BY <3>2, <3>4 DEF Time
      <4>2. seen[n].s > asked[n].ts + Skew
        BY <2>1, <3>4
      <4>3. now.s > asked[n].ts + Skew
        BY <1>0, <3>1, <4>1, <4>2
      <4> QED
        BY <1>1, <2>3, <4>3
    <3> QED
      BY <3>3, <3>4
  <2> QED
    BY <2>2, <2>3
<1> QED
  BY <1>1, <1>2

LEMMA OnceStep == IInv /\ [Next]_vars => NonceOutlives' /\ HandledOnce'
<1> SUFFICES ASSUME IInv, [Next]_vars PROVE NonceOutlives' /\ HandledOnce'
  OBVIOUS
<1>0. TypeOK /\ Sent \subseteq Request /\ NonceOutlives /\ HandledOnce /\ UnsentIsUnknown
  BY SentIsSubset DEF IInv
<1>1. ASSUME NEW m \in Member, NEW ahead \in Drift, Send(m, ahead)
      PROVE  NonceOutlives' /\ HandledOnce'
  <2> DEFINE n == Cardinality(Sent) + 1
  <2>1. /\ n \in Request \ Sent /\ Sent' = Sent \cup {n}
        /\ \A q \in Sent : asked'[q] = asked[q]
        /\ UNCHANGED <<now, seen, ran>>
    BY <1>0, <1>1, SendIs DEF Send, serverVars, TypeOK
  <2>2. ran[n] = 0
    BY <1>0, <2>1 DEF UnsentIsUnknown
  <2> HIDE DEF n
  <2> QED
    BY <1>0, <2>1, <2>2 DEF NonceOutlives, HandledOnce
<1>2. ASSUME NEW q \in Request, NEW intact \in BOOLEAN, Deliver(q, intact)
      PROVE  NonceOutlives' /\ HandledOnce'
  <2>1. Sent' = Sent /\ asked' = asked /\ now' = now
    BY <1>2, DeliverIs
  <2> SUFFICES ASSUME NEW n \in Sent, asked[n].ahead < Skew
               PROVE  /\ ran'[n] > 0 =>
                           IF seen'[n] = NoTime THEN now.s > asked[n].ts + Skew
                                                ELSE seen'[n].s > asked[n].ts + Skew
                      /\ ran'[n] <= 1
    BY <2>1 DEF NonceOutlives, HandledOnce
  <2>2. CASE Accepted(q) /\ n = q
    BY <1>2, <2>2, DeliverOnce
  <2>3. CASE Rejected \/ n # q
    <3>1. ran'[n] = ran[n]
      BY <1>2, <2>3, DeliverOthers
    <3>2. ran[n] <= 1
      BY <1>0 DEF HandledOnce
    <3>3. ran[n] > 0 =>
              IF seen'[n] = NoTime THEN now.s > asked[n].ts + Skew
                                   ELSE seen'[n].s > asked[n].ts + Skew
      BY <1>2, <2>3, DeliverOthers
    <3> QED
      BY <3>1, <3>2, <3>3
  <2> QED
    BY <1>2, <2>2, <2>3, DeliverIs
<1>3. ASSUME NEW q \in Request, NEW at \in {"answered", "unsigned"},
             NEW got \in 0 .. MaxVersion, Ends(q, at, got)
      PROVE  NonceOutlives' /\ HandledOnce'
  <2>1. /\ Sent' = Sent /\ UNCHANGED <<now, seen, ran>>
        /\ asked' = [asked EXCEPT ![q].at = at, ![q].got = got]
    BY <1>3, EndsIs DEF Ends
  <2>2. \A n \in Sent : asked'[n].ts = asked[n].ts /\ asked'[n].ahead = asked[n].ahead
    BY <1>0, <2>1 DEF TypeOK
  <2> QED
    BY <1>0, <2>1, <2>2 DEF NonceOutlives, HandledOnce
<1>4. ASSUME NEW handedOn \in BOOLEAN, ServerRestarts(handedOn)
      PROVE  NonceOutlives' /\ HandledOnce'
  <2>1. CASE handedOn
    BY <1>0, <1>4, <2>1 DEF ServerRestarts, NonceOutlives, HandledOnce, Sent
  <2>2. CASE ~ handedOn
    <3>1. \A q \in Request : ran'[q] = 0
      BY <1>4, <2>2 DEF ServerRestarts
    <3>2. Sent' \subseteq Request
      BY DEF Sent
    <3> QED
      BY <3>1, <3>2 DEF NonceOutlives, HandledOnce
  <2> QED
    BY <2>1, <2>2
<1>5. CASE Tick
  <2>1. UNCHANGED <<seen, ran, asked, Sent>> /\ now'.s >= now.s
    BY <1>0, <1>5 DEF Tick, serverVars, TypeOK, Time, Sent
  <2>2. now.s \in Nat /\ now'.s \in Nat /\ Skew \in Nat
    BY <1>0, <1>5, ControlParameters DEF Tick, TypeOK, Time
  <2>3. \A n \in Sent : asked[n].ts \in Int
    BY <1>0, AskedFields
  <2>4. \A n \in Sent : now.s > asked[n].ts + Skew => now'.s > asked[n].ts + Skew
    BY <2>1, <2>2, <2>3
  <2> QED
    BY <1>0, <2>1, <2>4 DEF NonceOutlives, HandledOnce
<1>6. CASE Publish \/ UNCHANGED vars
  BY <1>0, <1>6 DEF Publish, vars, serverVars, NonceOutlives, HandledOnce, Sent
<1>7. ASSUME NEW q \in Request, HandlerReturns(q) \/ HandlerThrows(q)
      PROVE  NonceOutlives' /\ HandledOnce'
  BY <1>0, <1>7 DEF HandlerReturns, HandlerThrows, NonceOutlives, HandledOnce, Sent
<1> QED
  BY <1>1, <1>2, <1>3, <1>4, <1>5, <1>6, <1>7, ReceivedIs DEF Next, Received

LEMMA ReplayStep == IInv /\ [Next]_vars => ReplayWasRun'
<1> SUFFICES ASSUME IInv, [Next]_vars, NEW n \in Request, seen'[n] # NoTime
             PROVE  ran'[n] > 0
  BY DEF ReplayWasRun
<1>0. TypeOK /\ ReplayWasRun /\ ran[n] \in Nat
  BY DEF IInv, TypeOK
<1>1. ASSUME NEW q \in Request, NEW intact \in BOOLEAN, Deliver(q, intact)
      PROVE  ran'[n] > 0
  <2>1. Unexpired[n] # NoTime => ran[n] > 0
    BY <1>0, UnexpiredIs DEF ReplayWasRun
  <2>2. CASE Rejected
    BY <2>1, <2>2 DEF Rejected
  <2>3. CASE Accepted(q)
    BY <1>0, <2>1, <2>3 DEF Accepted, TypeOK, Unexpired
  <2> QED
    BY <1>1, <2>2, <2>3, DeliverIs
<1>2. ASSUME NEW handedOn \in BOOLEAN, ServerRestarts(handedOn) PROVE ran'[n] > 0
  BY <1>0, <1>2 DEF ServerRestarts, ReplayWasRun
<1>3. ASSUME UNCHANGED <<seen, ran>> PROVE ran'[n] > 0
  BY <1>0, <1>3 DEF ReplayWasRun
<1> QED
  BY <1>1, <1>2, <1>3
     DEF Next, Send, Receive, ReceiveUnsigned, Ends, HandlerReturns, HandlerThrows, Tick,
         Publish, vars, serverVars

\* An answer carries what there is when its handler returns, which is after
\* its request was sent.
LEMMA FreshStep == IInv /\ [Next]_vars => AnswersAreFresh' /\ AnswerIsFresh'
<1> SUFFICES ASSUME IInv, [Next]_vars PROVE AnswersAreFresh' /\ AnswerIsFresh'
  OBVIOUS
<1>0. /\ TypeOK /\ Sent \subseteq Request /\ AnswersAreFresh /\ AnswerIsFresh
      /\ SentBeforeNow /\ content \in Int
  BY SentIsSubset, ControlParameters DEF IInv, TypeOK
<1>1. ASSUME NEW m \in Member, NEW ahead \in Drift, Send(m, ahead)
      PROVE  AnswersAreFresh' /\ AnswerIsFresh'
  <2> DEFINE n == Cardinality(Sent) + 1
  <2>1. /\ n \in Request \ Sent
        /\ asked' = [asked EXCEPT ![n] =
                      [at |-> "waiting", from |-> m, ts |-> now.s + ahead,
                       ahead |-> ahead, since |-> content, got |-> 0]]
        /\ UNCHANGED <<answers, content>>
    BY <1>1, SendIs DEF Send
  <2> HIDE DEF n
  <2>2. /\ \A q \in Request : q # n => asked'[q] = asked[q]
        /\ asked'[n].at = "waiting"
    BY <1>0, <2>1 DEF TypeOK
  <2>3. \A a \in answers : a.nonce \in Request /\ a.nonce # n
    BY <1>0, <2>1 DEF TypeOK
  <2> QED
    BY <1>0, <2>1, <2>2, <2>3 DEF AnswersAreFresh, AnswerIsFresh
<1>2. ASSUME NEW q \in Request, HandlerReturns(q) PROVE AnswersAreFresh' /\ AnswerIsFresh'
  <2>1. q \in Sent
    BY <1>0, <1>2 DEF HandlerReturns, TypeOK
  <2>2. asked[q].since <= content
    BY <1>0, <2>1 DEF SentBeforeNow
  <2>3. /\ answers' = answers \cup {[nonce |-> q, content |-> content]}
        /\ UNCHANGED <<asked, content>>
    BY <1>2 DEF HandlerReturns
  <2>4. content <= content
    BY <1>0
  <2> QED
    BY <1>0, <2>2, <2>3, <2>4 DEF AnswersAreFresh, AnswerIsFresh
<1>3. ASSUME NEW q \in Request, NEW a \in answers, Receive(q, a)
      PROVE  AnswersAreFresh' /\ AnswerIsFresh'
  <2>1. /\ q = a.nonce /\ UNCHANGED <<answers, content>>
        /\ asked' = [asked EXCEPT ![q].at = "answered", ![q].got = a.content]
    BY <1>3 DEF Receive, BoundTo, Ends
  <2>2. asked[q].since <= a.content /\ a.content <= content
    BY <1>0, <2>1 DEF AnswersAreFresh
  <2>3. \A n \in Request : asked'[n].since = asked[n].since
    BY <1>0, <2>1 DEF TypeOK
  <2>4. /\ \A n \in Request : n # q => asked'[n] = asked[n]
        /\ asked'[q].got = a.content
    BY <1>0, <2>1 DEF TypeOK
  <2>5. AnswersAreFresh'
    <3>1. \A b \in answers : b.nonce \in Request
      BY <1>0 DEF TypeOK
    <3> QED
      BY <1>0, <2>1, <2>3, <3>1 DEF AnswersAreFresh
  <2>6. AnswerIsFresh'
    <3> SUFFICES ASSUME NEW n \in Request, asked'[n].at = "answered"
                 PROVE  asked'[n].since <= asked'[n].got /\ asked'[n].got <= content'
      BY DEF AnswerIsFresh
    <3>1. CASE n = q
      BY <2>1, <2>2, <2>3, <2>4, <3>1
    <3>2. CASE n # q
      BY <1>0, <2>1, <2>4, <3>2 DEF AnswerIsFresh
    <3> QED
      BY <3>1, <3>2
  <2> QED
    BY <2>5, <2>6
<1>4. CASE Publish
  <2>1. content' = content + 1 /\ UNCHANGED <<asked, answers>>
    BY <1>4 DEF Publish
  <2>2. \A a \in answers : a.content \in Int
    BY <1>0, ControlParameters DEF TypeOK
  <2>3. AnswersAreFresh'
    <3> SUFFICES ASSUME NEW a \in answers
                 PROVE  asked[a.nonce].since <= a.content /\ a.content <= content'
      BY <2>1 DEF AnswersAreFresh
    <3>1. asked[a.nonce].since <= a.content /\ a.content <= content
      BY <1>0 DEF AnswersAreFresh
    <3> QED
      BY <1>0, <2>1, <2>2, <3>1
  <2>4. AnswerIsFresh'
    <3> SUFFICES ASSUME NEW n \in Request, asked[n].at = "answered"
                 PROVE  asked[n].since <= asked[n].got /\ asked[n].got <= content'
      BY <2>1 DEF AnswerIsFresh
    <3>1. asked[n].since <= asked[n].got /\ asked[n].got <= content
      BY <1>0 DEF AnswerIsFresh
    <3>2. asked[n].got \in Int
      BY <1>0, AskedFields
    <3> QED
      BY <1>0, <2>1, <3>1, <3>2
  <2> QED
    BY <2>3, <2>4
<1>5. ASSUME UNCHANGED <<asked, answers, content>> PROVE AnswersAreFresh' /\ AnswerIsFresh'
  BY <1>0, <1>5 DEF AnswersAreFresh, AnswerIsFresh
<1>6. ASSUME NEW q \in Request, ReceiveUnsigned(q) PROVE AnswersAreFresh' /\ AnswerIsFresh'
  <2>1. /\ asked' = [asked EXCEPT ![q].at = "unsigned", ![q].got = 0]
        /\ UNCHANGED <<answers, content>>
    BY <1>6 DEF ReceiveUnsigned, Ends
  <2>2. /\ \A n \in Request : n # q => asked'[n] = asked[n]
        /\ asked'[q].at = "unsigned" /\ asked'[q].since = asked[q].since
    BY <1>0, <2>1 DEF TypeOK
  <2>3. \A b \in answers : b.nonce \in Request
    BY <1>0 DEF TypeOK
  <2> QED
    BY <1>0, <2>1, <2>2, <2>3 DEF AnswersAreFresh, AnswerIsFresh
<1> QED
  BY <1>1, <1>2, <1>3, <1>4, <1>5, <1>6
     DEF Next, Deliver, HandlerThrows, ServerRestarts, Tick, vars

\* The handler calls of a member, counted.
LEMMA CallsOf ==
    ASSUME NEW m \in Member, NEW x
    PROVE  x \in Calls(m) <=>
               \E q \in Sent : asked[q].from = m /\ \E n \in 1 .. ran[q] : x = <<q, n>>
BY DEF Calls

LEMMA CallsSame ==
    ASSUME TypeOK, NEW m \in Member, UNCHANGED <<ran, Sent>>,
           \A q \in Sent : asked'[q].from = asked[q].from
    PROVE  Calls(m)' = Calls(m)
BY DEF Calls

\* A request that has been carried out counts for its member alone.
LEMMA CallsAccepted ==
    ASSUME IInv, NEW q \in Request, NEW intact \in BOOLEAN, Deliver(q, intact), Accepted(q),
           NEW m \in Member
    PROVE  IF m = asked[q].from
           THEN /\ Calls(m)' = Calls(m) \cup {<<q, ran[q] + 1>>}
                /\ <<q, ran[q] + 1>> \notin Calls(m)
           ELSE Calls(m)' = Calls(m)
<1>0. /\ TypeOK /\ q \in Sent /\ Sent' = Sent /\ asked' = asked
      /\ ran' = [ran EXCEPT ![q] = @ + 1] /\ ran[q] \in Nat
  BY DeliverIs DEF IInv, TypeOK, Accepted
<1>1. /\ \A n \in Sent : n # q => ran'[n] = ran[n]
      /\ ran'[q] = ran[q] + 1
  BY <1>0, SentIsSubset DEF TypeOK
<1>2. CASE m # asked[q].from
  <2>1. \A n \in Sent : asked[n].from = m => ran'[n] = ran[n]
    BY <1>1, <1>2
  <2>2. Calls(m)' = Calls(m)
    BY <1>0, <2>1 DEF Calls
  <2> QED
    BY <1>2, <2>2
<1>3. CASE m = asked[q].from
  <2>1. <<q, ran[q] + 1>> \notin Calls(m)
    BY <1>0, CallsOf
  <2>2. ASSUME NEW x \in Calls(m)' PROVE x \in Calls(m) \cup {<<q, ran[q] + 1>>}
    <3>0. PICK n \in Sent : asked[n].from = m /\ \E k \in 1 .. ran'[n] : x = <<n, k>>
      BY <1>0, <2>2 DEF Calls
    <3>1. PICK k \in 1 .. ran'[n] : x = <<n, k>>
      BY <3>0
    <3>2. k \in 1 .. ran[n] \/ (n = q /\ k = ran[q] + 1)
      BY <1>0, <1>1, <3>1
    <3> QED
      BY <3>0, <3>1, <3>2, CallsOf
  <2>3. ASSUME NEW x \in Calls(m) PROVE x \in Calls(m)'
    <3>0. PICK n \in Sent : asked[n].from = m /\ \E k \in 1 .. ran[n] : x = <<n, k>>
      BY <2>3, CallsOf
    <3>1. PICK k \in 1 .. ran[n] : x = <<n, k>>
      BY <3>0
    <3>2. k \in 1 .. ran'[n]
      BY <1>0, <1>1, <3>1
    <3> QED
      BY <1>0, <3>0, <3>1, <3>2 DEF Calls
  <2>4. <<q, ran[q] + 1>> \in Calls(m)'
    <3>1. ran[q] + 1 \in 1 .. ran'[q]
      BY <1>0, <1>1
    <3> QED
      BY <1>0, <1>3, <3>1 DEF Calls
  <2>5. Calls(m)' = Calls(m) \cup {<<q, ran[q] + 1>>}
    BY <2>2, <2>3, <2>4
  <2> QED
    BY <1>3, <2>1, <2>5
<1> QED
  BY <1>2, <1>3

LEMMA QuotaStep == IInv /\ [Next]_vars => CallsAreFinite' /\ QuotaIsOwn'
<1> SUFFICES ASSUME IInv, [Next]_vars PROVE CallsAreFinite' /\ QuotaIsOwn'
  OBVIOUS
<1>0. TypeOK /\ Sent \subseteq Request /\ CallsAreFinite /\ QuotaIsOwn /\ UnsentIsUnknown
  BY SentIsSubset DEF IInv
<1>1. ASSUME \A m \in Member : Calls(m)' = Calls(m), rate' = rate
      PROVE  CallsAreFinite' /\ QuotaIsOwn'
  BY <1>0, <1>1 DEF CallsAreFinite, QuotaIsOwn
<1>2. ASSUME NEW m \in Member, NEW ahead \in Drift, Send(m, ahead)
      PROVE  CallsAreFinite' /\ QuotaIsOwn'
  <2> DEFINE n == Cardinality(Sent) + 1
  <2>1. /\ n \in Request \ Sent /\ Sent' = Sent \cup {n}
        /\ \A q \in Sent : asked'[q] = asked[q]
        /\ UNCHANGED <<rate, ran>>
    BY <1>0, <1>2, SendIs DEF Send, serverVars, TypeOK
  <2>2. ran[n] = 0
    BY <1>0, <2>1 DEF UnsentIsUnknown
  <2> HIDE DEF n
  <2>3. ASSUME NEW k \in Member PROVE Calls(k)' = Calls(k)
    <3>1. 1 .. ran[n] = {}
      BY <2>2
    <3> QED
      BY <2>1, <3>1 DEF Calls
  <2> QED
    BY <1>1, <2>1, <2>3
<1>3. ASSUME NEW q \in Request, NEW intact \in BOOLEAN, Deliver(q, intact)
      PROVE  CallsAreFinite' /\ QuotaIsOwn'
  <2>1. CASE Rejected
    BY <1>0, <1>1, <1>3, <2>1, CallsSame, DeliverIs DEF Rejected
  <2>2. CASE Accepted(q)
    <3> SUFFICES ASSUME NEW m \in Member
                 PROVE  IsFiniteSet(Calls(m)') /\ rate'[m].count <= Cardinality(Calls(m)')
      BY DEF CallsAreFinite, QuotaIsOwn
    <3>1. /\ IsFiniteSet(Calls(m)) /\ Cardinality(Calls(m)) \in Nat
          /\ rate[m].count <= Cardinality(Calls(m)) /\ rate[m].count \in Nat
      BY <1>0, FS_CardinalityType DEF CallsAreFinite, QuotaIsOwn, TypeOK
    <3>2. CASE m # asked[q].from
      <4>1. Calls(m)' = Calls(m) /\ rate'[m] = rate[m]
        BY <1>0, <1>3, <2>2, <3>2, CallsAccepted DEF Accepted, TypeOK
      <4> QED
        BY <3>1, <4>1
    <3>3. CASE m = asked[q].from
      <4>1. /\ IsFiniteSet(Calls(m)')
            /\ Cardinality(Calls(m)') = Cardinality(Calls(m)) + 1
        <5>1. /\ Calls(m)' = Calls(m) \cup {<<q, ran[q] + 1>>}
              /\ <<q, ran[q] + 1>> \notin Calls(m)
          BY <1>3, <2>2, <3>3, CallsAccepted
        <5> QED
          BY <3>1, <5>1, FS_AddElement
      <4>2. rate'[m] = Counted(m)
        BY <1>0, <2>2, <3>3 DEF Accepted, TypeOK
      <4>3. Counted(m).count <= rate[m].count + 1
        <5>1. CASE Leq(rate[m].resetAt, now)
          BY <3>1, <5>1 DEF Counted
        <5>2. CASE ~ Leq(rate[m].resetAt, now)
          BY <1>0, <3>1, <5>2 DEF Counted, TypeOK
        <5> QED
          BY <5>1, <5>2
      <4>4. Counted(m).count \in Nat
        BY <1>0, <3>1 DEF Counted, TypeOK
      <4> QED
        BY <3>1, <4>1, <4>2, <4>3, <4>4
    <3> QED
      BY <3>2, <3>3
  <2> QED
    BY <1>3, <2>1, <2>2, DeliverIs
<1>4. ASSUME NEW q \in Request, NEW at \in {"answered", "unsigned"},
             NEW got \in 0 .. MaxVersion, Ends(q, at, got)
      PROVE  CallsAreFinite' /\ QuotaIsOwn'
  <2>1. /\ UNCHANGED <<rate, ran, Sent>>
        /\ asked' = [asked EXCEPT ![q].at = at, ![q].got = got]
    BY <1>4, EndsIs DEF Ends
  <2>2. \A n \in Sent : asked'[n].from = asked[n].from
    BY <1>0, <2>1 DEF TypeOK
  <2> QED
    BY <1>0, <1>1, <2>1, <2>2, CallsSame
<1>5. ASSUME NEW handedOn \in BOOLEAN, ServerRestarts(handedOn)
      PROVE  CallsAreFinite' /\ QuotaIsOwn'
  <2> SUFFICES ASSUME NEW m \in Member
               PROVE  IsFiniteSet(Calls(m)') /\ rate'[m].count <= Cardinality(Calls(m)')
    BY DEF CallsAreFinite, QuotaIsOwn
  <2>1. rate'[m].count = 0 /\ Sent' = Sent /\ asked' = asked
    BY <1>5 DEF ServerRestarts, Sent
  <2>2. IsFiniteSet(Calls(m)')
    <3>1. CASE handedOn
      BY <1>0, <1>5, <2>1, <3>1, CallsSame DEF ServerRestarts, CallsAreFinite
    <3>2. CASE ~ handedOn
      <4>1. \A q \in Sent : 1 .. ran'[q] = {}
        BY <1>0, <1>5, <3>2 DEF ServerRestarts
      <4>2. Calls(m)' = {}
        BY <2>1, <4>1 DEF Calls
      <4> QED
        BY <4>2, FS_EmptySet
    <3> QED
      BY <3>1, <3>2
  <2>3. Cardinality(Calls(m)') \in Nat
    BY <2>2, FS_CardinalityType
  <2> QED
    BY <2>1, <2>2, <2>3
<1>6. ASSUME UNCHANGED <<rate, ran, asked>> PROVE CallsAreFinite' /\ QuotaIsOwn'
  <2>1. Sent' = Sent
    BY <1>6 DEF Sent
  <2> QED
    BY <1>0, <1>1, <1>6, <2>1, CallsSame
<1> QED
  BY <1>2, <1>3, <1>4, <1>5, <1>6, ReceivedIs
     DEF Next, Received, HandlerReturns, HandlerThrows, Tick, Publish, vars, serverVars

-----------------------------------------------------------------------------
(* The results *)

LEMMA Inductive == IInv /\ [Next]_vars => IInv'
BY TypeStep, OrderStep, SentBeforeStep, OnceStep, ReplayStep, FreshStep, QuotaStep DEF IInv

\* What the server remembers, whatever the network and the clocks of others do.
THEOREM InvariantCorrect == Spec => []IInv
BY Initially, Inductive, PTL DEF Spec

\* handle() calls the handler once for a request, however often it arrives.
THEOREM HandledOnceCorrect == Spec => []HandledOnce
<1>1. IInv => HandledOnce
  BY DEF IInv
<1> QED
  BY <1>1, InvariantCorrect, PTL

\* What is refused as a replay has been carried out.
THEOREM ReplayCorrect == Spec => []ReplayWasRun
<1>1. IInv => ReplayWasRun
  BY DEF IInv
<1> QED
  BY <1>1, InvariantCorrect, PTL

\* checkRate() charges a member for the calls that it asked for.
THEOREM QuotaCorrect == Spec => []QuotaIsOwn
<1>1. IInv => QuotaIsOwn
  BY DEF IInv
<1> QED
  BY <1>1, InvariantCorrect, PTL

\* An answer whose signature and nonce send() has checked is what was current
\* at some time since send() began.
THEOREM FreshCorrect == Spec => []AnswerIsFresh
<1>1. IInv => AnswerIsFresh
  BY DEF IInv
<1> QED
  BY <1>1, InvariantCorrect, PTL
=============================================================================
