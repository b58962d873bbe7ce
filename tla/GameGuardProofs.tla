--------------------------- MODULE GameGuardProofs ---------------------------
(***************************************************************************)
(* Proofs about GameGuard, for any subnets and platforms, any number of     *)
(* calls and journal entries.                                              *)
(***************************************************************************)
EXTENDS GameGuard, WellFoundedInduction, TLAPS

-----------------------------------------------------------------------------
(* The invariant *)

InForce == {rules[i] : i \in DOMAIN rules}

\* Ids are drawn in order.
IdsAreDrawn == \A i \in Id : entries[i] # NoEntry \/ stored[i] # NoEntry => i <= drawn

\* An entry that is active in memory and in the file; removeEntry() writes the
\* one over the other.
Journaled(p) ==
    \/ p \in forgotten
    \/ \E e \in Id : entries[e] = Intended(p) /\ stored[e] = Intended(p)

RulesAreKnown == \A i \in DOMAIN rules : Journaled(rules[i].proto)

\* What apply() relies on at its places.
ApplyIsSane ==
    /\ pc.at \in {"journal", "rules", "verify"} => guard \in Subnet
    /\ pc.at = "journal" => pc.n \in {1, 2} /\ (pc.n = 2 => Journaled("tcp"))
    /\ pc.at \in {"rules", "verify"} => \A p \in Resource : Journaled(p)
    /\ pc.at = "rules" =>
          /\ pc.n \in 1 .. Commands
          /\ \A k \in DOMAIN RuleList : k < pc.n => RuleList[k] \in InForce
    /\ pc.at = "verify" => \A k \in DOMAIN RuleList : RuleList[k] \in InForce

\* Rules that accept name a subnet, and those that drop name no source; on
\* darwin there are none.
RulesAreShaped ==
    /\ \A r \in InForce : IF r.kind = "accept" THEN r.source \in Subnet
                                              ELSE r.source = AnySource
    /\ os = "darwin" => rules = <<>>

\* On Linux each rule that drops stands behind one that accepts.
DropsAreBehind ==
    os = "linux" =>
        \A j \in DOMAIN rules : rules[j].kind = "drop" =>
            \E i \in DOMAIN rules :
                i < j /\ rules[i].kind = "accept" /\ rules[i].proto = rules[j].proto

AppliedDrops == status.state = "applied" => \A p \in Resource : Drop(p) \in InForce

IInv ==
    /\ TypeOK
    /\ IdsAreDrawn /\ RulesAreKnown /\ ApplyIsSane
    /\ RulesAreShaped /\ DropsAreBehind /\ AppliedDrops

-----------------------------------------------------------------------------
(* The operators *)

LEMMA EntryIsSome ==
    ASSUME NEW e \in Entry
    PROVE  e # NoEntry
BY DEF Entry, NoEntry

LEMMA IntendedIsEntry ==
    ASSUME NEW p \in Resource
    PROVE  Intended(p) \in Entry /\ Intended(p).state = "intended" /\ Intended(p).res = p
BY DEF Intended, Entry

\* With whole writes the file is what its last lines say.
LEMMA DiskIsStored == TypeOK => OnDisk = stored
BY DEF TypeOK, OnDisk, NoTail, Id

LEMMA WriteLine ==
    ASSUME TypeOK, NEW i, NEW e, AppendLine(i, e)
    PROVE  stored' = [stored EXCEPT ![i] = e] /\ tail' = NoTail
BY DEF TypeOK, AppendLine

\* The rules of a call.
LEMMA RuleListIs ==
    /\ os = "darwin" => RuleList = <<>> /\ Commands = 1
    /\ os # "darwin" =>
          /\ Commands = 4 /\ DOMAIN RuleList = 1 .. 4
          /\ RuleList[1] = Accept("tcp") /\ RuleList[2] = Drop("tcp")
          /\ RuleList[3] = Accept("udp") /\ RuleList[4] = Drop("udp")
BY DEF RuleList, Commands

LEMMA RuleIsRule ==
    ASSUME guard \in Subnet, NEW k \in DOMAIN RuleList
    PROVE  /\ RuleList[k] \in Rule /\ os # "darwin"
           /\ IF RuleList[k].kind = "accept" THEN RuleList[k].source \in Subnet
                                             ELSE RuleList[k].source = AnySource
<1>1. os # "darwin"
  BY RuleListIs
<1>2. k \in 1 .. 4
  BY <1>1, RuleListIs
<1>3. /\ Accept("tcp") \in Rule /\ Accept("udp") \in Rule
      /\ Drop("tcp") \in Rule /\ Drop("udp") \in Rule
  BY ProtocolsAreJournaled DEF Accept, Drop, Rule
<1> QED
  BY <1>1, <1>2, <1>3, RuleListIs DEF Accept, Drop

LEMMA RuleAt ==
    ASSUME TypeOK
    PROVE  /\ DOMAIN rules = 1 .. Len(rules) /\ Len(rules) \in Nat
           /\ \A i \in DOMAIN rules : rules[i] \in Rule /\ rules[i].proto \in Resource
<1>1. rules \in Seq(Rule)
  BY DEF TypeOK
<1>2. DOMAIN rules = 1 .. Len(rules) /\ Len(rules) \in Nat
  BY <1>1
<1>3. \A i \in DOMAIN rules : rules[i] \in Rule
  BY <1>1, <1>2
<1>4. \A r \in Rule : r.proto \in Resource
  BY DEF Rule
<1> QED
  BY <1>2, <1>3, <1>4

\* A table that grows keeps what it has.
LEMMA TableGrows ==
    ASSUME TypeOK, NEW r \in Rule, rules' = Append(rules, r)
    PROVE  /\ rules' \in Seq(Rule)
           /\ DOMAIN rules' = 1 .. Len(rules) + 1
           /\ \A i \in DOMAIN rules : i \in DOMAIN rules' /\ rules'[i] = rules[i]
           /\ rules'[Len(rules) + 1] = r
           /\ InForce' = InForce \cup {r}
<1>1. rules \in Seq(Rule)
  BY DEF TypeOK
<1>2. /\ rules' \in Seq(Rule) /\ Len(rules') = Len(rules) + 1
      /\ DOMAIN rules' = 1 .. Len(rules')
  BY <1>1
<1>3. Len(rules) \in Nat /\ DOMAIN rules = 1 .. Len(rules)
  BY <1>1
<1>4. \A i \in 1 .. Len(rules) : rules'[i] = rules[i]
  BY <1>1, <1>3
<1>5. rules'[Len(rules) + 1] = r
  BY <1>1, <1>3
<1>6. InForce' = InForce \cup {r}
  <2>1. \A x \in InForce' : x \in InForce \cup {r}
    BY <1>2, <1>3, <1>4, <1>5 DEF InForce
  <2>2. \A x \in InForce \cup {r} : x \in InForce'
    <3>1. r \in InForce'
      BY <1>2, <1>3, <1>5 DEF InForce
    <3>2. \A i \in DOMAIN rules : rules[i] \in InForce'
      BY <1>2, <1>3, <1>4 DEF InForce
    <3> QED
      BY <3>1, <3>2 DEF InForce
  <2> QED
    BY <2>1, <2>2
<1> QED
  BY <1>2, <1>3, <1>4, <1>5, <1>6

LEMMA HasLeast ==
    ASSUME NEW S, S \subseteq Nat, S # {}
    PROVE  \E x \in S : \A y \in S : x <= y
<1> DEFINE less == OpToRel(<, Nat)
<1>1. IsWellFoundedOn(less, Nat)
  BY NatLessThanWellFounded, Zenon
<1>2. \A x, y \in Nat : y < x => <<y, x>> \in less
  BY DEF OpToRel
<1> HIDE DEF less
<1>3. PICK x \in S : \A y \in S : ~ (<<y, x>> \in less)
  BY <1>1, WFMin, Zenon
<1>4. \A y \in S : ~ (y < x)
  BY <1>2, <1>3, Zenon
<1>5. \A y \in S : x <= y
  BY <1>4
<1> QED
  BY <1>5

-----------------------------------------------------------------------------
(* Steps that leave journal and rules alone *)

\* The parts of the invariant that are about the journal and the rules.
LEMMA SameRules ==
    ASSUME IInv, UNCHANGED <<journalVars, rules, os, forgotten>>
    PROVE  /\ IdsAreDrawn' /\ RulesAreKnown' /\ RulesAreShaped' /\ DropsAreBehind'
           /\ InForce' = InForce
           /\ \A p \in Resource : Journaled(p)' <=> Journaled(p)
BY DEF IInv, journalVars, IdsAreDrawn, RulesAreKnown, Journaled, RulesAreShaped,
       DropsAreBehind, InForce

\* A call of apply() that ends here; it says `applied' only where it may.
LEMMA CallEnds ==
    ASSUME IInv, UNCHANGED <<journalVars, rules, os, subnet, forgotten>>,
           pc' = Idle, guard' \in Subnet \cup {NoGuard}, status' \in Status,
           status'.state = "applied" => \A p \in Resource : Drop(p) \in InForce
    PROVE  IInv'
<1>1. TypeOK'
  BY DEF IInv, TypeOK, journalVars, Idle
<1>2. ApplyIsSane'
  BY DEF ApplyIsSane, Idle
<1>3. AppliedDrops'
  BY SameRules DEF AppliedDrops, Drop
<1> QED
  BY <1>1, <1>2, <1>3, SameRules DEF IInv

LEMMA ReportIsStatus ==
    ASSUME NEW st \in {"applied", "unverified", "not-applied", "conflict"},
           NEW o \in BOOLEAN, NEW c \in BOOLEAN, Report(st, o, c)
    PROVE  status' \in Status /\ status'.state = st
BY DEF Report, Status

\* What a call leaves as it is, when it is not where entries are written.
LEMMA CallGoesOn ==
    ASSUME IInv, UNCHANGED <<journalVars, rules, os, subnet, status, forgotten>>,
           guard' \in Subnet \cup {NoGuard}, ApplyIsSane',
           pc' \in [at : {"idle", "journal", "rules", "verify", "forget"}, n : Nat]
    PROVE  IInv'
<1>1. TypeOK'
  BY DEF IInv, TypeOK, journalVars
<1>2. AppliedDrops'
  BY SameRules DEF IInv, AppliedDrops, Drop
<1> QED
  BY <1>1, <1>2, SameRules DEF IInv

LEMMA CreatedIsSubnet == TypeOK => Created \in Subnet
BY DEF TypeOK, Created

-----------------------------------------------------------------------------
(* Init *)

LEMMA Initially == Init => IInv
<1> SUFFICES ASSUME Init PROVE IInv
  OBVIOUS
<1> USE DEF Init, JournalInit
<1>1. TypeOK
  <2>1. drawn \in 0 .. MaxId
    BY MaxIdIsNat
  <2>2. Empty \in [Id -> Entry \cup {NoEntry}]
    BY DEF Empty
  <2>3. pc \in [at : {"idle", "journal", "rules", "verify", "forget"}, n : Nat]
    BY DEF Idle
  <2>4. status \in Status
    BY DEF Fresh, Status
  <2> QED
    BY <2>1, <2>2, <2>3, <2>4 DEF TypeOK
<1>2. IdsAreDrawn
  BY DEF IdsAreDrawn, Empty
<1>3. ApplyIsSane
  BY DEF ApplyIsSane, Idle
<1>4. RulesAreKnown /\ RulesAreShaped /\ DropsAreBehind
  BY DEF RulesAreKnown, RulesAreShaped, DropsAreBehind, InForce
<1>5. AppliedDrops
  BY DEF AppliedDrops, Fresh
<1> QED
  BY <1>1, <1>2, <1>3, <1>4, <1>5 DEF IInv

-----------------------------------------------------------------------------
(* apply(), up to the journal *)

LEMMA RefusedStep == IInv /\ ApplyRefused => IInv'
<1> SUFFICES ASSUME IInv, ApplyRefused PROVE IInv'
  OBVIOUS
<1>1. status' \in Status /\ status'.state = "not-applied"
  BY ReportIsStatus DEF ApplyRefused
<1>2. guard' \in Subnet
  BY CreatedIsSubnet DEF ApplyRefused, IInv
<1> QED
  BY <1>1, <1>2, CallEnds DEF ApplyRefused

LEMMA ConflictStep == \A others \in BOOLEAN : IInv /\ ApplyConflict(others) => IInv'
<1> SUFFICES ASSUME NEW others \in BOOLEAN, IInv, ApplyConflict(others) PROVE IInv'
  OBVIOUS
<1>1. status' \in Status /\ status'.state = "conflict"
  BY ReportIsStatus DEF ApplyConflict
<1>2. guard' \in Subnet
  BY CreatedIsSubnet DEF ApplyConflict, IInv
<1> QED
  BY <1>1, <1>2, CallEnds DEF ApplyConflict

LEMMA BeginsStep == IInv /\ ApplyBegins => IInv'
<1> SUFFICES ASSUME IInv, ApplyBegins PROVE IInv'
  OBVIOUS
<1>1. guard' \in Subnet
  BY CreatedIsSubnet DEF ApplyBegins, IInv
<1>2. ApplyIsSane'
  BY <1>1 DEF ApplyBegins, ApplyIsSane, At
<1>3. pc' \in [at : {"idle", "journal", "rules", "verify", "forget"}, n : Nat]
  BY DEF ApplyBegins, At
<1> QED
  BY <1>1, <1>2, <1>3, CallGoesOn DEF ApplyBegins

LEMMA RejectsStep == IInv /\ ApplyRejects => IInv'
<1> SUFFICES ASSUME IInv, ApplyRejects PROVE IInv'
  OBVIOUS
<1>1. ApplyIsSane'
  BY DEF ApplyRejects, ApplyIsSane, Idle
<1>2. pc' \in [at : {"idle", "journal", "rules", "verify", "forget"}, n : Nat]
  BY DEF ApplyRejects, Idle
<1>3. guard' \in Subnet \cup {NoGuard}
  BY DEF ApplyRejects, IInv, TypeOK
<1> QED
  BY <1>1, <1>2, <1>3, CallGoesOn DEF ApplyRejects

\* append() draws an id that nobody has; the entries that are there stay.
LEMMA JournalsStep == IInv /\ ApplyJournals => IInv'
<1> SUFFICES ASSUME IInv, ApplyJournals PROVE IInv'
  OBVIOUS
<1> USE DEF ApplyJournals
<1>1. pc.n \in {1, 2} /\ guard \in Subnet /\ (pc.n = 2 => Journaled("tcp"))
  BY DEF IInv, ApplyIsSane
<1>2. PICK p \in Resource :
        p = Protocols[pc.n] /\ p = (IF pc.n = 1 THEN "tcp" ELSE "udp")
  BY <1>1, ProtocolsAreJournaled DEF Protocols
<1>3. /\ drawn < MaxId /\ drawn' = drawn + 1
      /\ entries' = [entries EXCEPT ![drawn + 1] = Intended(p)]
      /\ AppendLine(drawn + 1, Intended(p))
  BY <1>2 DEF JournalAppend
<1>4. stored' = [stored EXCEPT ![drawn + 1] = Intended(p)] /\ tail' = NoTail
  BY <1>3, WriteLine DEF IInv
<1>5. drawn \in 0 .. MaxId /\ drawn + 1 \in Id
  BY <1>3, MaxIdIsNat DEF IInv, TypeOK, Id
<1>6. Intended(p) \in Entry
  BY <1>2, IntendedIsEntry
<1>7. /\ entries \in [Id -> Entry \cup {NoEntry}] /\ stored \in [Id -> Entry \cup {NoEntry}]
      /\ forgotten \subseteq Resource
  BY DEF IInv, TypeOK
<1>8. /\ entries'[drawn + 1] = Intended(p) /\ stored'[drawn + 1] = Intended(p)
      /\ \A i \in Id : i # drawn + 1 => entries'[i] = entries[i] /\ stored'[i] = stored[i]
  BY <1>3, <1>4, <1>5, <1>7
<1>9. forgotten' = forgotten \ {p}
  BY <1>2
<1>10. Journaled(p)'
  <2>1. entries'[drawn + 1] = Intended(p)' /\ stored'[drawn + 1] = Intended(p)'
    BY <1>8 DEF Intended
  <2> QED
    BY <1>5, <2>1 DEF Journaled
<1>11. ASSUME NEW q \in Resource, Journaled(q) PROVE Journaled(q)'
  <2>1. CASE q = p
    BY <1>10, <2>1
  <2>2. CASE q # p /\ q \in forgotten
    BY <1>9, <2>2 DEF Journaled
  <2>3. CASE q \notin forgotten
    <3>1. PICK e \in Id : entries[e] = Intended(q) /\ stored[e] = Intended(q)
      BY <1>11, <2>3 DEF Journaled
    <3>2. entries[e] # NoEntry
      BY <3>1, IntendedIsEntry, EntryIsSome
    <3>3. e # drawn + 1
      BY <3>2, <1>5 DEF IInv, IdsAreDrawn
    <3> QED
      BY <3>1, <3>3, <1>8 DEF Journaled, Intended
  <2> QED
    BY <2>1, <2>2, <2>3
<1>12. TypeOK'
  <2>1. entries' \in [Id -> Entry \cup {NoEntry}] /\ stored' \in [Id -> Entry \cup {NoEntry}]
    BY <1>3, <1>4, <1>6, <1>7
  <2>2. drawn' \in 0 .. MaxId
    BY <1>3, <1>5, MaxIdIsNat
  <2>3. forgotten' \subseteq Resource
    BY <1>7, <1>9
  <2>4. pc' \in [at : {"idle", "journal", "rules", "verify", "forget"}, n : Nat]
    BY <1>1 DEF AfterJournal, At, Protocols
  <2> QED
    BY <1>4, <2>1, <2>2, <2>3, <2>4 DEF IInv, TypeOK
<1>13. IdsAreDrawn'
  BY <1>3, <1>5, <1>8 DEF IInv, IdsAreDrawn, Id
<1>14. RulesAreKnown'
  <2>1. \A i \in DOMAIN rules : rules[i].proto \in Resource
    BY RuleAt DEF IInv
  <2> QED
    BY <2>1, <1>11 DEF IInv, RulesAreKnown
<1>15. ApplyIsSane'
  <2>1. CASE pc.n = 1
    <3>1. pc' = At("journal", 2) /\ p = "tcp"
      BY <2>1, <1>2 DEF AfterJournal, Protocols
    <3> QED
      BY <3>1, <1>1, <1>10 DEF ApplyIsSane, At
  <2>2. CASE pc.n = 2
    <3>1. pc' = At("rules", 1) /\ p = "udp"
      BY <2>2, <1>2 DEF AfterJournal, Protocols
    <3>2. \A q \in Resource : Journaled(q)'
      BY <3>1, <2>2, <1>1, <1>10, <1>11, ProtocolsAreJournaled
    <3>3. 1 \in 1 .. Commands' /\ DOMAIN RuleList' \subseteq 1 .. 4
      BY RuleListIs, 1 <= Commands DEF Commands, RuleList
    <3> QED
      BY <3>1, <3>2, <3>3, <1>1 DEF ApplyIsSane, At
  <2> QED
    BY <1>1, <2>1, <2>2
<1>16. RulesAreShaped' /\ DropsAreBehind'
  BY DEF IInv, RulesAreShaped, DropsAreBehind, InForce
<1>17. AppliedDrops'
  BY DEF IInv, AppliedDrops, Drop, InForce
<1> QED
  BY <1>12, <1>13, <1>14, <1>15, <1>16, <1>17 DEF IInv

-----------------------------------------------------------------------------
(* apply(), from the first command on *)

\* The list with the n-th rule added, whether or not the call goes on: what is
\* in force stays, and the n-th rule is.
LEMMA AddsRule ==
    ASSUME IInv, pc.at = "rules", rules' = WithRule(pc.n),
           UNCHANGED <<journalVars, os, subnet, guard, forgotten>>
    PROVE  /\ rules' \in Seq(Rule)
           /\ InForce \subseteq InForce'
           /\ pc.n \in DOMAIN RuleList => RuleList[pc.n] \in InForce'
           /\ RulesAreKnown' /\ RulesAreShaped' /\ DropsAreBehind'
<1>1. /\ guard \in Subnet /\ pc.n \in 1 .. Commands
      /\ \A k \in DOMAIN RuleList : k < pc.n => RuleList[k] \in InForce
      /\ \A p \in Resource : Journaled(p)
  BY DEF IInv, ApplyIsSane
<1>2. \A p \in Resource : Journaled(p)' <=> Journaled(p)
  BY DEF Journaled, journalVars
<1>3. CASE pc.n \notin DOMAIN RuleList
  <2>1. rules' = rules
    BY <1>3 DEF WithRule
  <2> QED
    BY <1>3, <2>1, SameRules DEF IInv, TypeOK
<1>4. CASE pc.n \in DOMAIN RuleList
  <2> DEFINE r == RuleList[pc.n]  last == Len(rules) + 1
  <2>1. rules' = Append(rules, r)
    BY <1>4 DEF WithRule
  <2>2. r \in Rule /\ os # "darwin"
        /\ IF r.kind = "accept" THEN r.source \in Subnet ELSE r.source = AnySource
    BY <1>1, <1>4, RuleIsRule
  <2>3. r.kind \in {"accept", "drop"} /\ r.proto \in Resource
    BY <2>2 DEF Rule
  <2>4. /\ DOMAIN rules = 1 .. Len(rules) /\ Len(rules) \in Nat
        /\ \A i \in DOMAIN rules : rules[i] \in Rule /\ rules[i].proto \in Resource
    BY RuleAt DEF IInv
  <2>5. IF r.kind = "drop" THEN \E i \in DOMAIN rules :
              rules[i].kind = "accept" /\ rules[i].proto = r.proto
        ELSE TRUE
    <3>1. pc.n \in 1 .. 4
      BY <1>4, <2>2, RuleListIs
    <3>2. CASE pc.n \in {1, 3}
      BY <3>2, <2>2, RuleListIs DEF Accept
    <3>3. CASE pc.n = 2
      <4>1. r.proto = "tcp" /\ Accept("tcp") \in InForce
        BY <3>3, <2>2, <1>1, RuleListIs DEF Drop
      <4> QED
        BY <4>1 DEF InForce, Accept
    <3>4. CASE pc.n = 4
      <4>1. r.proto = "udp" /\ Accept("udp") \in InForce
        BY <3>4, <2>2, <1>1, RuleListIs DEF Drop
      <4> QED
        BY <4>1 DEF InForce, Accept
    <3> QED
      BY <3>1, <3>2, <3>3, <3>4
  <2> HIDE DEF r
  <2>6. TypeOK
    BY DEF IInv
  <2>7. /\ rules' \in Seq(Rule)
        /\ DOMAIN rules' = 1 .. last
        /\ \A i \in DOMAIN rules : i \in DOMAIN rules' /\ rules'[i] = rules[i]
        /\ rules'[last] = r
        /\ InForce' = InForce \cup {r}
    BY <2>1, <2>2, <2>6, TableGrows
  <2>8. \A i \in DOMAIN rules' : i = last \/ i \in DOMAIN rules
    BY <2>4, <2>7
  <2>9. RulesAreKnown'
    <3> SUFFICES ASSUME NEW i \in DOMAIN rules' PROVE Journaled(rules[i].proto)'
      BY DEF RulesAreKnown
    <3>1. rules'[i].proto \in Resource
      BY <2>3, <2>4, <2>7, <2>8
    <3>2. PICK p \in Resource : p = rules'[i].proto
      BY <3>1
    <3>3. Journaled(p)'
      BY <1>1, <1>2
    <3> QED
      BY <3>2, <3>3 DEF Journaled, Intended
  <2>10. RulesAreShaped'
    BY <2>2, <2>7 DEF IInv, RulesAreShaped
  <2>11. DropsAreBehind'
    <3> SUFFICES ASSUME os = "linux", NEW j \in DOMAIN rules', rules'[j].kind = "drop"
                 PROVE  \E i \in DOMAIN rules' : /\ i < j /\ rules'[i].kind = "accept"
                                                 /\ rules'[i].proto = rules'[j].proto
      BY DEF DropsAreBehind
    <3>1. CASE j \in DOMAIN rules
      <4>1. PICK i \in DOMAIN rules :
              i < j /\ rules[i].kind = "accept" /\ rules[i].proto = rules[j].proto
        BY <3>1, <2>7 DEF IInv, DropsAreBehind
      <4> QED
        BY <4>1, <3>1, <2>7
    <3>2. CASE j = last
      <4>1. PICK i \in DOMAIN rules : rules[i].kind = "accept" /\ rules[i].proto = r.proto
        BY <3>2, <2>5, <2>7
      <4>2. i < j
        BY <3>2, <2>4
      <4> QED
        BY <4>1, <4>2, <3>2, <2>7
    <3> QED
      BY <3>1, <3>2, <2>8
  <2> QED
    BY <1>4, <2>7, <2>9, <2>10, <2>11 DEF r
<1> QED
  BY <1>3, <1>4

LEMMA DropsStay ==
    ASSUME IInv, InForce \subseteq InForce', UNCHANGED status
    PROVE  AppliedDrops'
BY DEF IInv, AppliedDrops, Drop

LEMMA CommandStep == IInv /\ ApplyCommand => IInv'
<1> SUFFICES ASSUME IInv, ApplyCommand PROVE IInv'
  OBVIOUS
<1> USE DEF ApplyCommand
<1>1. /\ guard \in Subnet /\ pc.n \in 1 .. Commands /\ Commands \in Nat
      /\ \A k \in DOMAIN RuleList : k < pc.n => RuleList[k] \in InForce
      /\ \A p \in Resource : Journaled(p)
  BY RuleListIs DEF IInv, ApplyIsSane
<1>2. /\ rules' \in Seq(Rule) /\ InForce \subseteq InForce'
      /\ pc.n \in DOMAIN RuleList => RuleList[pc.n] \in InForce'
      /\ RulesAreKnown' /\ RulesAreShaped' /\ DropsAreBehind'
  BY AddsRule
<1>3. \A p \in Resource : Journaled(p)'
  BY <1>1 DEF Journaled, journalVars
<1>4. RuleList' = RuleList /\ Commands' = Commands
  BY DEF RuleList, Commands, Accept, Drop
<1>5. \A k \in DOMAIN RuleList : k < pc.n + 1 => RuleList[k] \in InForce'
  <2>1. \A k \in DOMAIN RuleList : k \in Nat
    BY RuleListIs
  <2>2. \A k \in DOMAIN RuleList : k < pc.n + 1 => k < pc.n \/ k = pc.n
    BY <1>1, <2>1
  <2> QED
    BY <1>1, <1>2, <2>2
<1>6. ApplyIsSane'
  <2>1. CASE pc.n < Commands
    <3>1. pc' = At("rules", pc.n + 1)
      BY <2>1
    <3>2. pc.n + 1 \in 1 .. Commands
      BY <2>1, <1>1
    <3> QED
      BY <3>1, <3>2, <1>1, <1>3, <1>4, <1>5 DEF ApplyIsSane, At
  <2>2. CASE pc.n = Commands
    <3>1. pc' = At("verify", 0)
      BY <2>2, <1>1
    <3>2. \A k \in DOMAIN RuleList : k < pc.n + 1
      BY <2>2, RuleListIs
    <3> QED
      BY <3>1, <3>2, <1>1, <1>3, <1>4, <1>5 DEF ApplyIsSane, At
  <2> QED
    BY <1>1, <2>1, <2>2
<1>7. pc' \in [at : {"idle", "journal", "rules", "verify", "forget"}, n : Nat]
  <2>1. pc.n + 1 \in Nat
    BY <1>1
  <2> QED
    BY <2>1 DEF At
<1>8. TypeOK' /\ IdsAreDrawn'
  BY <1>2, <1>7 DEF IInv, TypeOK, IdsAreDrawn, journalVars
<1> QED
  BY <1>2, <1>6, <1>8, DropsStay DEF IInv

LEMMA ThrowsStep == IInv /\ ApplyThrows => IInv'
<1> SUFFICES ASSUME IInv, ApplyThrows PROVE IInv'
  OBVIOUS
<1> USE DEF ApplyThrows
<1>1. status' \in Status /\ status'.state = "not-applied"
  BY ReportIsStatus
<1>2. CASE rules' = rules
  <2>1. guard' \in Subnet \cup {NoGuard}
    BY DEF IInv, TypeOK
  <2> QED
    BY <1>1, <1>2, <2>1, CallEnds
<1>3. CASE rules' = WithRule(pc.n)
  <2>1. rules' \in Seq(Rule) /\ RulesAreKnown' /\ RulesAreShaped' /\ DropsAreBehind'
    BY <1>3, AddsRule
  <2>2. TypeOK' /\ IdsAreDrawn'
    BY <1>1, <2>1 DEF IInv, TypeOK, IdsAreDrawn, journalVars, Idle
  <2>3. ApplyIsSane' /\ AppliedDrops'
    BY <1>1 DEF ApplyIsSane, AppliedDrops, Idle
  <2> QED
    BY <2>1, <2>2, <2>3 DEF IInv
<1> QED
  BY <1>2, <1>3

\* `applied' is said where rules are found, and all commands were done.
LEMMA VerifiedStep == IInv /\ ApplyVerified => IInv'
<1> SUFFICES ASSUME IInv, ApplyVerified PROVE IInv'
  OBVIOUS
<1>1. status' \in Status
  BY ReportIsStatus DEF ApplyVerified
<1>2. guard' \in Subnet \cup {NoGuard}
  BY DEF ApplyVerified, IInv, TypeOK
<1>3. \A p \in Resource : Drop(p) \in InForce
  <2>1. os # "darwin"
    BY DEF ApplyVerified, IInv, RulesAreShaped
  <2>2. Drop("tcp") \in InForce /\ Drop("udp") \in InForce
    BY <2>1, RuleListIs DEF ApplyVerified, IInv, ApplyIsSane
  <2> QED
    BY <2>2, ProtocolsAreJournaled
<1> QED
  BY <1>1, <1>2, <1>3, CallEnds DEF ApplyVerified

LEMMA UnverifiedStep == IInv /\ ApplyUnverified => IInv'
<1> SUFFICES ASSUME IInv, ApplyUnverified PROVE IInv'
  OBVIOUS
<1>1. status' \in Status /\ status'.state = "unverified"
  BY ReportIsStatus DEF ApplyUnverified
<1>2. guard' \in Subnet \cup {NoGuard}
  BY DEF ApplyUnverified, IInv, TypeOK
<1> QED
  BY <1>1, <1>2, CallEnds DEF ApplyUnverified

-----------------------------------------------------------------------------
(* remove() *)

LEMMA RemoveBeginsStep == IInv /\ RemoveBegins => IInv'
<1> SUFFICES ASSUME IInv, RemoveBegins PROVE IInv'
  OBVIOUS
<1>1. ApplyIsSane'
  BY DEF RemoveBegins, ApplyIsSane, At
<1>2. pc' \in [at : {"idle", "journal", "rules", "verify", "forget"}, n : Nat]
  BY DEF RemoveBegins, At
<1>3. guard' \in Subnet \cup {NoGuard}
  BY DEF RemoveBegins, IInv, TypeOK
<1> QED
  BY <1>1, <1>2, <1>3, CallGoesOn DEF RemoveBegins

\* Whatever becomes of the entry, that of every other id stays where it is.
LEMMA ForgetsStep == IInv /\ RemoveForgets => IInv'
<1> SUFFICES ASSUME IInv, RemoveForgets PROVE IInv'
  OBVIOUS
<1>1. PICK i \in Left :
        /\ \/ entries' = [entries EXCEPT ![i] = Removed(i)] /\ UNCHANGED <<stored, tail, drawn>>
           \/ entries' = Without(i) /\ AppendLine(i, Removed(i)) /\ UNCHANGED drawn
           \/ RemoveEntry(i)
        /\ forgotten' = forgotten \cup {entries[i].res}
        /\ pc' = At("forget", i)
        /\ UNCHANGED <<os, subnet, guard, status, rules>>
  BY DEF RemoveForgets
<1>2. /\ entries \in [Id -> Entry \cup {NoEntry}] /\ stored \in [Id -> Entry \cup {NoEntry}]
      /\ forgotten \subseteq Resource /\ tail = NoTail
  BY DEF IInv, TypeOK
<1>3. i \in Id /\ i \in Nat /\ entries[i] # NoEntry /\ entries[i] \in Entry
  BY <1>2 DEF Left, Known, Id
<1>4. entries[i].res \in Resource /\ Removed(i) \in Entry
  BY <1>3 DEF Entry, Removed
<1>5. /\ entries' \in [Id -> Entry \cup {NoEntry}] /\ stored' \in [Id -> Entry \cup {NoEntry}]
      /\ tail' = NoTail /\ drawn' = drawn
      /\ \A e \in Id : e # i =>
           entries'[e] = entries[e] /\ stored'[e] \in {stored[e], entries[e]}
  <2>1. CASE entries' = [entries EXCEPT ![i] = Removed(i)] /\ UNCHANGED <<stored, tail, drawn>>
    BY <2>1, <1>2, <1>3, <1>4
  <2>2. CASE entries' = Without(i) /\ AppendLine(i, Removed(i)) /\ UNCHANGED drawn
    <3>1. stored' = [stored EXCEPT ![i] = Removed(i)] /\ tail' = NoTail
      BY <2>2, WriteLine DEF IInv
    <3>2. entries' = [entries EXCEPT ![i] = NoEntry]
      BY <2>2 DEF Without
    <3> QED
      BY <3>1, <3>2, <2>2, <1>2, <1>3, <1>4
  <2>3. CASE RemoveEntry(i)
    <3>1. /\ entries' = [entries EXCEPT ![i] = NoEntry] /\ stored' = entries'
          /\ tail' = NoTail /\ drawn' = drawn
      BY <2>3 DEF RemoveEntry, Rewrite, Without
    <3> QED
      BY <3>1, <1>2, <1>3
  <2> QED
    BY <1>1, <2>1, <2>2, <2>3
<1>6. IdsAreDrawn'
  BY <1>3, <1>5 DEF IInv, IdsAreDrawn
<1>7. ASSUME NEW p \in Resource, Journaled(p) PROVE Journaled(p)'
  <2>1. CASE p \in forgotten \/ p = entries[i].res
    BY <1>1, <2>1 DEF Journaled
  <2>2. CASE p \notin forgotten /\ p # entries[i].res
    <3>1. PICK e \in Id : entries[e] = Intended(p) /\ stored[e] = Intended(p)
      BY <1>7, <2>2 DEF Journaled
    <3>2. e # i
      BY <3>1, <2>2, IntendedIsEntry
    <3> QED
      BY <3>1, <3>2, <1>5 DEF Journaled, Intended
  <2> QED
    BY <2>1, <2>2
<1>8. RulesAreKnown'
  BY <1>1, <1>7, RuleAt DEF IInv, RulesAreKnown
<1>9. TypeOK'
  <2>1. forgotten' \subseteq Resource
    BY <1>1, <1>2, <1>4
  <2>2. pc' \in [at : {"idle", "journal", "rules", "verify", "forget"}, n : Nat]
    BY <1>1, <1>3 DEF At
  <2> QED
    BY <2>1, <2>2, <1>1, <1>5 DEF IInv, TypeOK
<1>10. ApplyIsSane'
  BY <1>1 DEF ApplyIsSane, At
<1>11. RulesAreShaped' /\ DropsAreBehind' /\ AppliedDrops'
  BY <1>1 DEF IInv, RulesAreShaped, DropsAreBehind, AppliedDrops, InForce, Drop
<1> QED
  BY <1>6, <1>8, <1>9, <1>10, <1>11 DEF IInv

LEMMA RemoveEndsStep == IInv /\ RemoveEnds => IInv'
<1> SUFFICES ASSUME IInv, RemoveEnds PROVE IInv'
  OBVIOUS
<1> USE DEF RemoveEnds
<1>1. status' \in Status /\ status'.state # "applied"
  BY DEF Fresh, Status
<1>2. guard' \in Subnet \cup {NoGuard}
  BY DEF IInv, TypeOK
<1>3. CASE rules' = rules
  BY <1>1, <1>2, <1>3, CallEnds
<1>4. CASE rules' = <<>>
  <2>1. TypeOK' /\ IdsAreDrawn'
    BY <1>1, <1>4 DEF IInv, TypeOK, IdsAreDrawn, journalVars, Idle
  <2>2. RulesAreKnown' /\ RulesAreShaped' /\ DropsAreBehind'
    BY <1>4 DEF RulesAreKnown, RulesAreShaped, DropsAreBehind, InForce
  <2>3. ApplyIsSane' /\ AppliedDrops'
    BY <1>1 DEF ApplyIsSane, AppliedDrops, Idle
  <2> QED
    BY <2>1, <2>2, <2>3 DEF IInv
<1> QED
  BY <1>3, <1>4

-----------------------------------------------------------------------------
(* Around it *)

LEMMA PatchStep == IInv /\ PatchSettings => IInv'
<1> SUFFICES ASSUME IInv, PatchSettings PROVE IInv'
  OBVIOUS
<1> USE DEF PatchSettings, guardVars
<1>1. TypeOK'
  BY DEF IInv, TypeOK, journalVars
<1>2. ApplyIsSane'
  BY DEF ApplyIsSane, Idle
<1>3. AppliedDrops'
  BY SameRules DEF IInv, AppliedDrops, Drop
<1> QED
  BY <1>1, <1>2, <1>3, SameRules DEF IInv

\* The next process reads what the last one wrote.
LEMMA RestartStep == IInv /\ Restart => IInv'
<1> SUFFICES ASSUME IInv, Restart PROVE IInv'
  OBVIOUS
<1> USE DEF Restart, LoadJournal
<1>1. entries' = stored /\ stored' = stored
  BY DiskIsStored DEF IInv
<1>2. status' \in Status /\ status'.state # "applied"
  BY DEF Fresh, Status
<1>3. TypeOK'
  BY <1>1, <1>2 DEF IInv, TypeOK, Idle
<1>4. IdsAreDrawn'
  BY <1>1 DEF IInv, IdsAreDrawn
<1>5. \A p \in Resource : Journaled(p) => Journaled(p)'
  BY <1>1 DEF Journaled, Intended
<1>6. RulesAreKnown'
  BY <1>5, RuleAt DEF IInv, RulesAreKnown
<1>7. RulesAreShaped' /\ DropsAreBehind'
  BY DEF IInv, RulesAreShaped, DropsAreBehind, InForce
<1>8. ApplyIsSane' /\ AppliedDrops'
  BY <1>2 DEF ApplyIsSane, AppliedDrops, Idle
<1> QED
  BY <1>3, <1>4, <1>6, <1>7, <1>8 DEF IInv

LEMMA NothingChanges == IInv /\ UNCHANGED vars => IInv'
<1> SUFFICES ASSUME IInv, UNCHANGED vars PROVE IInv'
  OBVIOUS
<1> USE DEF vars, guardVars
<1>1. guard' \in Subnet \cup {NoGuard}
  BY DEF IInv, TypeOK
<1>2. pc' \in [at : {"idle", "journal", "rules", "verify", "forget"}, n : Nat]
  BY DEF IInv, TypeOK
<1>3. RuleList' = RuleList /\ Commands' = Commands
  BY DEF RuleList, Commands, Accept, Drop
<1>4. Journaled("tcp")' <=> Journaled("tcp")
  BY DEF Journaled, journalVars
<1>5. ApplyIsSane'
  BY <1>3, <1>4, SameRules DEF IInv, ApplyIsSane
<1> QED
  BY <1>1, <1>2, <1>5, CallGoesOn

\* No call, restart or change of the settings breaks the invariant.
THEOREM Inductive == IInv /\ [Next]_vars => IInv'
<1> SUFFICES ASSUME IInv, [Next]_vars PROVE IInv'
  OBVIOUS
<1>1. CASE Apply
  BY <1>1, RefusedStep, ConflictStep, BeginsStep, JournalsStep, RejectsStep, CommandStep,
     ThrowsStep, VerifiedStep, UnverifiedStep DEF Apply
<1>2. CASE Remove
  BY <1>2, RemoveBeginsStep, ForgetsStep, RemoveEndsStep DEF Remove
<1>3. CASE PatchSettings \/ Restart
  BY <1>3, PatchStep, RestartStep
<1>4. CASE UNCHANGED vars
  BY <1>4, NothingChanges
<1> QED
  BY <1>1, <1>2, <1>3, <1>4 DEF Next

\* The invariant holds in every state the guard can get into.
THEOREM InvariantCorrect == Spec => []IInv
<1>1. Init => IInv
  BY Initially
<1>2. IInv /\ [Next]_vars => IInv'
  BY Inductive
<1> QED
  BY <1>1, <1>2, PTL DEF Spec

-----------------------------------------------------------------------------
(* The properties *)

\* A rule that drops, of the protocol and from anybody, is one that matches.
LEMMA Restricts ==
    ASSUME IInv, NEW p \in Resource, Drop(p) \in InForce
    PROVE  ~Passes(p, Outside)
<1> DEFINE m == Matching(p, Outside)
<1>1. PICK d \in DOMAIN rules : rules[d] = Drop(p)
  BY DEF InForce
<1>2. d \in m /\ rules[d].kind = "drop"
  BY <1>1 DEF Matching, Drop
<1>3. CASE os = "win32"
  BY <1>2, <1>3 DEF Passes
<1>4. CASE os # "win32"
  <2>1. m # {} /\ m \subseteq DOMAIN rules
    BY <1>2 DEF Matching
  <2>2. m \subseteq Nat
    BY <2>1, RuleAt DEF IInv
  <2>3. \E x \in m : \A y \in m : x <= y
    BY <2>1, <2>2, HasLeast, Zenon
  <2> DEFINE first == CHOOSE x \in m : \A y \in m : x <= y
  <2>4. first \in m
    BY <2>3
  <2>5. \A i \in m : rules[i].source \in {Outside, AnySource}
    BY DEF Matching
  <2>6. \A i \in m : rules[i].kind # "accept"
    BY <2>1, <2>5, SubnetsAreOthers DEF IInv, RulesAreShaped, InForce
  <2> QED
    BY <1>4, <2>1, <2>4, <2>6 DEF Passes
<1> QED
  BY <1>3, <1>4

\* Where the page says `applied', nobody outside the overlay reaches the port.
THEOREM AppliedCorrect == Spec => []AppliedIsRestricted
<1>1. IInv => AppliedIsRestricted
  BY Restricts DEF IInv, AppliedDrops, AppliedIsRestricted
<1> QED
  BY <1>1, InvariantCorrect, PTL

LEMMA LetsIn ==
    ASSUME IInv, os = "linux", NEW s \in Subnet, Accepted \subseteq {s}, NEW p \in Resource
    PROVE  Passes(p, s)
<1> DEFINE m == Matching(p, s)
<1>1. CASE m = {}
  BY <1>1 DEF Passes
<1>2. CASE m # {}
  <2>1. m \subseteq DOMAIN rules /\ m \subseteq Nat
    BY RuleAt DEF IInv, Matching
  <2>2. \E x \in m : \A y \in m : x <= y
    BY <1>2, <2>1, HasLeast, Zenon
  <2> DEFINE first == CHOOSE x \in m : \A y \in m : x <= y
  <2>3. first \in m /\ \A y \in m : first <= y
    BY <2>2
  <2> HIDE DEF first
  <2>4. first \in DOMAIN rules /\ rules[first].proto = p /\ rules[first] \in Rule
    BY <2>1, <2>3, RuleAt DEF IInv, Matching
  <2>5. rules[first].kind = "accept"
    <3> SUFFICES ASSUME rules[first].kind # "accept" PROVE FALSE
      OBVIOUS
    <3>1. rules[first].kind = "drop"
      BY <2>4 DEF Rule
    <3>2. PICK i \in DOMAIN rules : /\ i < first /\ rules[i].kind = "accept"
                                    /\ rules[i].proto = rules[first].proto
      BY <2>4, <3>1 DEF IInv, DropsAreBehind
    <3>3. rules[i].source = s
      BY <3>2 DEF Accepted
    <3>4. i \in m
      BY <2>4, <3>2, <3>3 DEF Matching
    <3> QED
      BY <2>1, <2>3, <3>2, <3>4
  <2> QED
    BY <2>5 DEF Passes, first
<1> QED
  BY <1>1, <1>2

\* While the rules name one subnet, no step of apply() shuts the overlay out.
THEOREM OverlayCorrect == Spec => []OverlayPasses
<1>1. IInv => OverlayPasses
  BY LetsIn DEF OverlayPasses
<1> QED
  BY <1>1, InvariantCorrect, PTL

\* Rules in force are named by the file, unless remove() has dropped them.
THEOREM JournaledCorrect == Spec => []RulesAreJournaled
<1>1. IInv => RulesAreJournaled
  <2> SUFFICES ASSUME IInv, NEW i \in DOMAIN rules, rules[i].proto \notin forgotten
               PROVE  \E e \in Active(OnDisk) : OnDisk[e].res = rules[i].proto
    BY DEF RulesAreJournaled
  <2>1. OnDisk = stored /\ rules[i].proto \in Resource
    BY DiskIsStored, RuleAt DEF IInv
  <2>2. PICK e \in Id : stored[e] = Intended(rules[i].proto)
    BY DEF IInv, RulesAreKnown, Journaled
  <2>3. stored[e] # NoEntry /\ stored[e].state = "intended" /\ stored[e].res = rules[i].proto
    BY <2>1, <2>2, IntendedIsEntry, EntryIsSome
  <2> QED
    BY <2>1, <2>3 DEF Active, Known
<1> QED
  BY <1>1, InvariantCorrect, PTL
=============================================================================
