----------------------------- MODULE Reconciler -----------------------------
(***************************************************************************)
(* Reconciler of src/src/reconciler.ts: brings the WireGuard device to the *)
(* peers of a roster, compiled as Roster has it.  reconcile() takes the    *)
(* `applying' flag, asks the device (getStatus), compares public keys,     *)
(* sets the full configuration (setConfig) and, if that throws, sets the   *)
(* previous one.                                                           *)
(* A caller keeps its place at each await; what lies between is one step.  *)
(*                                                                         *)
(* The device is external: setConfig replaces all peers, as `wg setconf'   *)
(* in setConfigKernel() of src/src/wgmanager.ts does; it may throw, having *)
(* changed any of them.  Somebody may change the device at any time.       *)
(***************************************************************************)
EXTENDS Roster, FiniteSets

CONSTANTS
    Rosters,    \* the rosters by version: [1 .. n -> Payload]
    Me,         \* the key of this node
    Listens,    \* whether this node is told to listen
    Spelling,   \* ways getStatus() may spell the keys: functions on Key
    Caller,     \* concurrent callers of reconcile()
    Strange,    \* settings that somebody else gives to peers
    MaxCalls    \* bound of the model: calls of reconcile()

Version == DOMAIN Rosters

ASSUME RostersCompile ==
    \A v \in Version :
        v \in Nat \ {0} /\ Rosters[v] \in Payload /\ Compiles(Rosters[v], Me)
ASSUME StrangeIsSetting == Strange \subseteq Setting
ASSUME MaxCallsIsNat == MaxCalls \in Nat

\* buildFullConfig() of each version.
Desired == [v \in Version |-> Compiled(Rosters[v], Me, Listens)]

VARIABLES
    shownAs,    \* how this device spells keys; it never changes
    device,     \* what the device has: key -> setting, or NoPeer
    gen,        \* this.currentGeneration, its roster's version; 0 is null
    version,    \* this.appliedRosterVersion
    applying,   \* this.applying
    pc,         \* per caller: where it waits
    want,       \* per caller: the version it reconciles to
    saved,      \* the state file's version; 0 if there is none
    wasSet,     \* history: versions whose setConfig() returned
    settled,    \* history: what the last setConfig() came to, until drift
    calls       \* bound: calls so far

vars == <<shownAs, device, gen, version, applying, pc, want, saved, wasSet,
          settled, calls>>

Place == {"idle", "waiting", "asking", "setting", "rollback"}
NoCall == [outcome |-> "none", v |-> 0]
Settled(o, v) == [outcome |-> o, v |-> v]

\* The public keys of the device, as getStatus() returns them.
Shown(d) == {shownAs[k] : k \in Has(d)}

Init ==
    /\ shownAs \in Spelling
    /\ device = [k \in Key |-> NoPeer]
    /\ gen = 0 /\ version = 0 /\ applying = FALSE
    /\ pc = [c \in Caller |-> "idle"]
    /\ want = [c \in Caller |-> 0]
    /\ saved = 0 /\ wasSet = {} /\ settled = NoCall /\ calls = 0

Goes(c, place) == pc' = [pc EXCEPT ![c] = place]

-----------------------------------------------------------------------------
(* reconcile() *)

Call(c, v) ==
    /\ pc[c] = "idle" /\ calls < MaxCalls
    /\ want' = [want EXCEPT ![c] = v]
    /\ calls' = calls + 1
    /\ Goes(c, "waiting")
    /\ UNCHANGED <<shownAs, device, gen, version, applying, saved, wasSet, settled>>

\* Mutant: the flag is only read.
EnterUnlocked(c) ==
    /\ pc[c] = "waiting" /\ ~applying
    /\ Goes(c, "asking")
    /\ UNCHANGED <<shownAs, device, gen, version, applying, want, saved, wasSet, settled, calls>>

\* while (this.applying) sleep: found free, it is taken in the same step.
Enter(c) ==
    /\ pc[c] = "waiting" /\ ~applying
    /\ applying' = TRUE
    /\ Goes(c, "asking")
    /\ UNCHANGED <<shownAs, device, gen, version, want, saved, wasSet, settled, calls>>

\* Nothing to add or remove, or on to setConfig().
Decide(c, current) ==
    IF current = Has(Desired[want[c]])
    THEN applying' = FALSE /\ Goes(c, "idle")
    ELSE Goes(c, "setting") /\ UNCHANGED applying

\* getStatus() answers.
CompareLive(c) ==
    /\ pc[c] = "asking"
    /\ Decide(c, Shown(device))
    /\ UNCHANGED <<shownAs, device, gen, version, want, saved, wasSet, settled, calls>>

\* It throws: compare with what was set last.
CompareLast(c) ==
    /\ pc[c] = "asking"
    /\ Decide(c, IF gen = 0 THEN {} ELSE Has(Desired[gen]))
    /\ UNCHANGED <<shownAs, device, gen, version, want, saved, wasSet, settled, calls>>

\* Mutant: the applied version counts configurations.
SetAppliedCounts(c) ==
    LET v == want[c]
    IN  /\ pc[c] = "setting"
        /\ device' = Desired[v]
        /\ gen' = v /\ version' = version + 1
        /\ saved' \in {saved, v}
        /\ wasSet' = wasSet \cup {v}
        /\ settled' = Settled("applied", v)
        /\ applying' = FALSE
        /\ Goes(c, "idle")
        /\ UNCHANGED <<shownAs, want, calls>>

\* setConfig() returns.  saveState() is best effort.
SetApplied(c) ==
    LET v == want[c]
    IN  /\ pc[c] = "setting"
        /\ device' = Desired[v]
        /\ gen' = v /\ version' = v
        /\ saved' \in {saved, v}
        /\ wasSet' = wasSet \cup {v}
        /\ settled' = Settled("applied", v)
        /\ applying' = FALSE
        /\ Goes(c, "idle")
        /\ UNCHANGED <<shownAs, want, calls>>

\* What setConfig() may leave behind when it throws.
Partly(v) ==
    {[k \in Key |-> IF k \in done THEN Desired[v][k] ELSE device[k]] : done \in SUBSET Key}

\* Mutant: what failed is recorded as the current generation.
SetThrowsRecorded(c) ==
    /\ pc[c] = "setting"
    /\ device' \in Partly(want[c])
    /\ IF gen = 0
       THEN /\ applying' = FALSE
            /\ settled' = NoCall
            /\ Goes(c, "idle")
       ELSE /\ Goes(c, "rollback")
            /\ UNCHANGED <<applying, settled>>
    /\ gen' = want[c]
    /\ UNCHANGED <<shownAs, version, want, saved, wasSet, calls>>

\* It throws: roll back if there is a previous generation.
SetThrows(c) ==
    /\ pc[c] = "setting"
    /\ device' \in Partly(want[c])
    /\ IF gen = 0
       THEN /\ applying' = FALSE
            /\ settled' = NoCall
            /\ Goes(c, "idle")
       ELSE /\ Goes(c, "rollback")
            /\ UNCHANGED <<applying, settled>>
    /\ UNCHANGED <<shownAs, gen, version, want, saved, wasSet, calls>>

RollbackDone(c) ==
    /\ pc[c] = "rollback"
    /\ device' = Desired[gen]
    /\ settled' = Settled("rolledback", version)
    /\ applying' = FALSE
    /\ Goes(c, "idle")
    /\ UNCHANGED <<shownAs, gen, version, want, saved, wasSet, calls>>

\* Mutant: the flag stays when the rollback throws.
RollbackThrowsLocked(c) ==
    /\ pc[c] = "rollback"
    /\ device' \in Partly(gen)
    /\ settled' = NoCall
    /\ Goes(c, "idle")
    /\ UNCHANGED <<shownAs, gen, version, applying, want, saved, wasSet, calls>>

\* Best effort.
RollbackThrows(c) ==
    /\ pc[c] = "rollback"
    /\ device' \in Partly(gen)
    /\ settled' = NoCall
    /\ applying' = FALSE
    /\ Goes(c, "idle")
    /\ UNCHANGED <<shownAs, gen, version, want, saved, wasSet, calls>>

Reconcile(c) ==
    \/ Enter(c)
    \/ CompareLive(c) \/ CompareLast(c)
    \/ SetApplied(c) \/ SetThrows(c)
    \/ RollbackDone(c) \/ RollbackThrows(c)

-----------------------------------------------------------------------------
(* Around it *)

\* The device is changed from outside.
Drift ==
    /\ \E k \in Key \ {Me}, s \in Strange \cup {NoPeer} :
           device' = [device EXCEPT ![k] = s]
    /\ settled' = NoCall
    /\ UNCHANGED <<shownAs, gen, version, applying, pc, want, saved, wasSet, calls>>

BeingSet ==
    {want[c] : c \in {x \in Caller : pc[x] = "setting"}}
        \cup {gen : c \in {x \in Caller : pc[x] = "rollback"}}

\* The process ends and the next one load()s; the device keeps what it has,
\* a configuration that was being set included.
Restart ==
    /\ device' \in {device} \cup UNION {Partly(v) : v \in BeingSet}
    /\ gen' = 0 /\ version' \in {saved, 0} /\ applying' = FALSE
    /\ pc' = [c \in Caller |-> "idle"]
    /\ want' = [c \in Caller |-> 0]
    /\ settled' = NoCall
    /\ UNCHANGED <<shownAs, saved, wasSet, calls>>

Next ==
    \/ \E c \in Caller : Reconcile(c) \/ \E v \in Version : Call(c, v)
    \/ Drift \/ Restart

Spec == Init /\ [][Next]_vars

\* getStatus() and setConfig() answer (the commands that they run have a
\* timeout), and so the sleeping callers get their turn.
FairSpec == Spec /\ \A c \in Caller : WF_vars(Reconcile(c))

-----------------------------------------------------------------------------
(* Properties *)

\* The variables keep their types.
TypeOK ==
    /\ shownAs \in Spelling
    /\ device \in Configs
    /\ gen \in Version \cup {0} /\ version \in Version \cup {0}
    /\ applying \in BOOLEAN
    /\ pc \in [Caller -> Place] /\ want \in [Caller -> Version \cup {0}]
    /\ saved \in Version \cup {0} /\ wasSet \in SUBSET Version
    /\ settled \in [outcome : {"none", "applied", "rolledback"},
                     v : Version \cup {0}]
    /\ calls \in 0 .. MaxCalls

Working == {c \in Caller : pc[c] \in {"asking", "setting", "rollback"}}

\* Callers work on the device one at a time, whoever throws and whenever.
OneAtATime ==
    /\ \A c, d \in Working : c = d
    /\ applying <=> Working # {}

\* Between calls the object, the version it reports and the device agree: with
\* the roster of the call that applied it last, or, after a rollback, with the
\* one before.
SettledAgrees ==
    ~applying =>
        /\ settled.outcome = "applied" =>
              /\ device = Desired[settled.v]
              /\ gen = settled.v /\ version = settled.v
        /\ settled.outcome = "rolledback" =>
              /\ gen # 0 /\ device = Desired[gen]
              /\ version = gen /\ gen \in wasSet

\* A node that a roster was applied to fits in with the nodes that compile the
\* same roster: each reaches each other one, though none of them asks what
\* the others made of it.  That takes a roster whose listeners have endpoints
\* and say what the nodes were told.
Consistent(r) ==
    /\ At(r, PositionOf(r, Me)).listener <=> (Listens \/ PositionOf(r, Me) = 0)
    /\ \A i \in Position(r) : At(r, i).listener => At(r, i).endpoint # NoEndpoint
Network(r) ==
    [k \in {At(r, i).key : i \in Position(r)} |->
        IF k = Me THEN device ELSE Compiled(r, k, At(r, PositionOf(r, k)).listener)]
AppliedFits ==
    ~applying /\ settled.outcome = "applied" /\ Consistent(Rosters[settled.v]) =>
        Connects(Network(Rosters[settled.v]), Rosters[settled.v])

\* A caller that waits gets its turn and returns.
CallsReturn == \A c \in Caller : pc[c] = "waiting" ~> pc[c] = "idle"
=============================================================================
