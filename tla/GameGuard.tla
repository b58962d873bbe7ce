----------------------------- MODULE GameGuard -----------------------------
(***************************************************************************)
(* GamePortGuard of src/src/gameguard.ts, as setGuard() of                 *)
(* src/src/services.ts uses it: firewall rules that leave the game's port  *)
(* to the overlay, with a journal entry per protocol.                      *)
(*                                                                         *)
(* apply() and remove() run without an await, but as a row of commands and *)
(* writes, each of which may throw and between which the process may die.  *)
(* Writes of the journal are whole or do nothing; Recovery has those that  *)
(* are cut short.                                                          *)
(***************************************************************************)
EXTENDS Journal, Sequences

CONSTANTS
    Platform,   \* deps.platform.os: some of "linux", "darwin", "win32"
    Subnet      \* values of subnetCIDR

ASSUME ProtocolsAreJournaled == Resource = {"tcp", "udp"}
ASSUME PlatformsAreKnown == Platform \subseteq {"linux", "darwin", "win32"}

VARIABLES
    os,         \* the platform; it never changes
    subnet,     \* config.subnetCIDR
    guard,      \* this.guard: the subnet it was created with, or NoGuard
    status,     \* guard.status
    rules,      \* the rules of our table, anchor or name, in their order
    pc,         \* where apply() or remove() is
    forgotten   \* history: protocols whose entries remove() has dropped

guardVars == <<guard, status, pc>>
vars == <<journalVars, guardVars, os, subnet, rules, forgotten>>

NoGuard == "none"
Outside == "internet"   \* a source that is not in the overlay
AnySource == "any"      \* a rule that does not name a source
ASSUME SubnetsAreOthers == Subnet \cap {NoGuard, Outside, AnySource} = {}

Protocols == <<"tcp", "udp">>
Rule == [kind : {"accept", "drop"}, proto : Resource, source : Subnet \cup {AnySource}]
Status == [state : {"applied", "unverified", "not-applied", "conflict"},
           overlayOnly : BOOLEAN, consented : BOOLEAN]
Idle == [at |-> "idle", n |-> 0]
At(place, n) == [at |-> place, n |-> n]

Report(state, overlayOnly, consented) ==
    status' = [state |-> state, overlayOnly |-> overlayOnly, consented |-> consented]
Fresh == [state |-> "not-applied", overlayOnly |-> TRUE, consented |-> FALSE]

Init ==
    /\ JournalInit
    /\ os \in Platform /\ subnet \in Subnet
    /\ guard = NoGuard /\ status = Fresh /\ pc = Idle
    /\ rules = <<>> /\ forgotten = {}

-----------------------------------------------------------------------------
(* apply() *)

\* setGuard() creates the guard at the first call.
Created == IF guard = NoGuard THEN subnet ELSE guard

\* detectExistingRules(), with or without rules of others for the port.  On
\* Windows our own look like those of others.
Detected(others) == others \/ (os = "win32" /\ rules # <<>>)

ApplyRefused ==
    /\ pc = Idle
    /\ guard' = Created
    /\ Report("not-applied", FALSE, FALSE)
    /\ UNCHANGED <<journalVars, os, subnet, rules, pc, forgotten>>

ApplyConflict(others) ==
    /\ pc = Idle /\ Detected(others)
    /\ guard' = Created
    /\ Report("conflict", FALSE, TRUE)
    /\ UNCHANGED <<journalVars, os, subnet, rules, pc, forgotten>>

\* Nothing is detected, or the command for it throws.
ApplyBegins ==
    /\ pc = Idle
    /\ guard' = Created
    /\ pc' = At("journal", 1)
    /\ UNCHANGED <<journalVars, os, subnet, status, rules, forgotten>>

AfterJournal(n) == IF n < Len(Protocols) THEN At("journal", n + 1) ELSE At("rules", 1)

\* Mutant: the entries are kept in memory.
ApplyJournalsInMemory ==
    /\ pc.at = "journal" /\ drawn < MaxId
    /\ drawn' = drawn + 1
    /\ entries' = [entries EXCEPT ![drawn + 1] = Intended(Protocols[pc.n])]
    /\ forgotten' = forgotten \ {Protocols[pc.n]}
    /\ pc' = AfterJournal(pc.n)
    /\ UNCHANGED <<stored, tail, os, subnet, guard, status, rules>>

ApplyJournals ==
    /\ pc.at = "journal"
    /\ JournalAppend(Protocols[pc.n])
    /\ forgotten' = forgotten \ {Protocols[pc.n]}
    /\ pc' = AfterJournal(pc.n)
    /\ UNCHANGED <<os, subnet, guard, status, rules>>

\* append() throws, and apply() with it: the status stays.
ApplyRejects ==
    /\ pc.at = "journal"
    /\ pc' = Idle
    /\ UNCHANGED <<journalVars, os, subnet, guard, status, rules, forgotten>>

Accept(p) == [kind |-> "accept", proto |-> p, source |-> guard]
Drop(p) == [kind |-> "drop", proto |-> p, source |-> AnySource]

\* Mutant: first the rule that drops.
RuleListDropFirst ==
    IF os = "darwin" THEN <<>>
    ELSE <<Drop("tcp"), Accept("tcp"), Drop("udp"), Accept("udp")>>

\* The commands of applyLinuxRules() and applyWin32Rules().  That of
\* applyDarwinRules() loads a file that nobody writes: no rules.
RuleList ==
    IF os = "darwin" THEN <<>>
    ELSE <<Accept("tcp"), Drop("tcp"), Accept("udp"), Drop("udp")>>

\* The n-th rule is added; on darwin what there is gives way to nothing.
WithRule(n) == IF n \in DOMAIN RuleList THEN Append(rules, RuleList[n]) ELSE rules
Commands == IF os = "darwin" THEN 1 ELSE Len(RuleList)

ApplyCommand ==
    /\ pc.at = "rules"
    /\ rules' = WithRule(pc.n)
    /\ pc' = IF pc.n < Commands THEN At("rules", pc.n + 1) ELSE At("verify", 0)
    /\ UNCHANGED <<journalVars, os, subnet, guard, status, forgotten>>

\* Mutant: an error of the last commands is as good as success.
ApplyThrowsIgnored ==
    /\ pc.at = "rules"
    /\ rules' \in {rules, WithRule(pc.n)}
    /\ Report("applied", TRUE, TRUE)
    /\ pc' = Idle
    /\ UNCHANGED <<journalVars, os, subnet, guard, forgotten>>

\* A command throws, or is killed when it takes too long: it did its work or
\* not.  What was added before stays.
ApplyThrows ==
    /\ pc.at = "rules"
    /\ rules' \in {rules, WithRule(pc.n)}
    /\ Report("not-applied", FALSE, TRUE)
    /\ pc' = Idle
    /\ UNCHANGED <<journalVars, os, subnet, guard, forgotten>>

\* verifyRules() looks for the port in what the firewall lists; a command that
\* throws is one that does not list it.
ApplyVerified ==
    /\ pc.at = "verify" /\ rules # <<>>
    /\ Report("applied", TRUE, TRUE)
    /\ pc' = Idle
    /\ UNCHANGED <<journalVars, os, subnet, guard, rules, forgotten>>

ApplyUnverified ==
    /\ pc.at = "verify"
    /\ Report("unverified", TRUE, TRUE)
    /\ pc' = Idle
    /\ UNCHANGED <<journalVars, os, subnet, guard, rules, forgotten>>

Apply ==
    \/ ApplyRefused \/ ApplyBegins
    \/ \E others \in BOOLEAN : ApplyConflict(others)
    \/ ApplyJournals \/ ApplyRejects
    \/ ApplyCommand \/ ApplyThrows
    \/ ApplyVerified \/ ApplyUnverified

-----------------------------------------------------------------------------
(* remove(); the tests call it, setGuard() does not *)

RemoveBegins ==
    /\ pc = Idle /\ guard # NoGuard
    /\ pc' = At("forget", 0)
    /\ UNCHANGED <<journalVars, os, subnet, guard, status, rules, forgotten>>

\* The entries that remove() has not dealt with; the oldest is next.
Left == {i \in Known(entries) : i > pc.n}

\* Each at best effort: updateState() throws, or removeEntry() does, or the
\* entry is gone.
RemoveForgets ==
    \E i \in Left :
        /\ pc.at = "forget" /\ \A j \in Left : i <= j
        /\ \/ entries' = [entries EXCEPT ![i] = Removed(i)]
              /\ UNCHANGED <<stored, tail, drawn>>
           \/ entries' = Without(i)
              /\ AppendLine(i, Removed(i))
              /\ UNCHANGED drawn
           \/ RemoveEntry(i)
        /\ forgotten' = forgotten \cup {entries[i].res}
        /\ pc' = At("forget", i)
        /\ UNCHANGED <<os, subnet, guard, status, rules>>

\* removeRules(), also at best effort.
RemoveEnds ==
    /\ pc.at = "forget" /\ Left = {}
    /\ rules' \in {rules, <<>>}
    /\ status' = Fresh
    /\ pc' = Idle
    /\ UNCHANGED <<journalVars, os, subnet, guard, forgotten>>

Remove == RemoveBegins \/ RemoveForgets \/ RemoveEnds

-----------------------------------------------------------------------------
(* Around it *)

\* patchSettings(): the guard keeps the subnet it was created with.
PatchSettings ==
    /\ pc = Idle
    /\ subnet' \in Subnet \ {subnet}
    /\ UNCHANGED <<journalVars, guardVars, os, rules, forgotten>>

\* The process ends at any point and the next one loads the journal.
Restart ==
    /\ LoadJournal
    /\ guard' = NoGuard /\ status' = Fresh /\ pc' = Idle
    /\ UNCHANGED <<os, subnet, rules, forgotten>>

Next == Apply \/ Remove \/ PatchSettings \/ Restart

Spec == Init /\ [][Next]_vars

-----------------------------------------------------------------------------
(* What the firewalls make of the rules: nftables takes the first rule that *)
(* matches, Windows lets every blocking rule win                           *)

Matching(p, source) == {i \in DOMAIN rules :
    rules[i].proto = p /\ rules[i].source \in {source, AnySource}}

Passes(p, source) ==
    LET m == Matching(p, source)
    IN  IF os = "win32" THEN \A i \in m : rules[i].kind = "accept"
        ELSE m = {} \/ rules[CHOOSE i \in m : \A j \in m : i <= j].kind = "accept"

-----------------------------------------------------------------------------
(* Properties *)

\* The variables keep their types.
TypeOK ==
    /\ entries \in [Id -> Entry \cup {NoEntry}]
    /\ stored \in [Id -> Entry \cup {NoEntry}]
    /\ tail = NoTail /\ drawn \in 0 .. MaxId
    /\ os \in Platform /\ subnet \in Subnet
    /\ guard \in Subnet \cup {NoGuard} /\ status \in Status
    /\ rules \in Seq(Rule)
    /\ forgotten \subseteq Resource
    /\ pc \in [at : {"idle", "journal", "rules", "verify", "forget"}, n : Nat]

\* When the user is shown `applied', nobody outside the overlay gets to the
\* port, on either protocol: whatever failed in this call or in earlier ones,
\* and however old the rules are that verifyRules() finds.
AppliedIsRestricted ==
    status.state = "applied" => \A p \in Resource : ~Passes(p, Outside)

\* Where the subnet has not changed, apply() never cuts the overlay off, not
\* for a moment and not when it fails or dies midway: on Linux each rule that
\* drops stands behind one that accepts.
Accepted == {rules[i].source : i \in {j \in DOMAIN rules : rules[j].kind = "accept"}}
OverlayPasses ==
    os = "linux" =>
        \A s \in Subnet : Accepted \subseteq {s} => \A p \in Resource : Passes(p, s)

\* Rules that are in force have an active entry in the journal, also after a
\* crash; only remove() drops entries, before it deletes the rules.
RulesAreJournaled ==
    \A i \in DOMAIN rules :
        \/ rules[i].proto \in forgotten
        \/ \E e \in Active(OnDisk) : OnDisk[e].res = rules[i].proto
=============================================================================
