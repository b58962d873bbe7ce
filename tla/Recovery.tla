------------------------------ MODULE Recovery ------------------------------
(***************************************************************************)
(* Crash and recovery of port mappings: src/src/port-mapper.ts writes them *)
(* to src/src/journal.ts, and after a crash runRecoverySweep() of          *)
(* src/src/recovery.ts takes away what the journal names.                  *)
(*                                                                         *)
(* One call is under way at a time; renewals are sent and answered in the  *)
(* middle of it.  Overlapping calls are the subject of Listener.  The      *)
(* sweep ends before the first call.                                       *)
(***************************************************************************)
EXTENDS PortMapper

CONSTANTS
    MaxCuts     \* bound of the model: how many writes are cut short

ASSUME MaxCutsIsNat == MaxCuts \in Nat

VARIABLES
    phase,      \* "up", "down" or "sweep"
    todo,       \* entries the running sweep has not looked at yet
    spared,     \* history: resources a remove() of this sweep failed for
    removed,    \* history: ids whose removeEntry() returned
    cuts        \* how many writes were cut short so far

sweepVars == <<phase, todo, spared>>
vars == <<journalVars, mapperVars, live, raced, sweepVars, removed, cuts>>

Init ==
    /\ JournalInit /\ MapperInit
    /\ phase = "up" /\ todo = {} /\ spared = {}
    /\ removed = {} /\ cuts = 0

\* What a step did to the entries, for the history.
Note == removed' = removed \cup (Known(entries) \ Known(entries'))

-----------------------------------------------------------------------------
(* Crash, restart, sweep *)

\* The requests that were under way may still reach the router, or not.
Crash ==
    /\ phase # "down"
    /\ phase' = "down" /\ todo' = {} /\ spared' = {}
    /\ entries' = Empty
    /\ MapperLost
    /\ live' \in InFlight
    /\ UNCHANGED <<stored, tail, drawn, raced, removed>>

Restart ==
    /\ phase = "down"
    /\ LoadJournal
    /\ phase' = "sweep"
    /\ todo' = Active(OnDisk)
    /\ UNCHANGED <<mapperVars, live, raced, spared, removed>>

\* exists() is false: updateState() and removeEntry(), back to back.
SweepGone(i) ==
    /\ live[entries[i].res] = "none"
    /\ RemoveEntry(i)
    /\ UNCHANGED <<live, spared>>

\* matches() is false: warn and leave both alone.
SweepMismatch(i) ==
    /\ live[entries[i].res] = "foreign"
    /\ UNCHANGED <<journalVars, live, spared>>

\* Mutant: a resource that is there is only looked at.
SweepRemovedEntryOnly(i) ==
    /\ live[entries[i].res] = "ours"
    /\ RemoveEntry(i)
    /\ UNCHANGED <<live, spared>>

\* remove() works, or it throws and the entry stays.
SweepRemoved(i) ==
    /\ live[entries[i].res] = "ours"
    /\ live' = Deleted(entries[i].res)
    /\ RemoveEntry(i)
    /\ UNCHANGED spared

SweepFailed(i) ==
    /\ live[entries[i].res] = "ours"
    /\ spared' = spared \cup {entries[i].res}
    /\ UNCHANGED <<journalVars, live>>

SweepEntry ==
    /\ phase = "sweep"
    /\ \E i \in todo :
           /\ SweepGone(i) \/ SweepMismatch(i) \/ SweepRemoved(i) \/ SweepFailed(i)
           /\ todo' = todo \ {i}
    /\ Note
    /\ UNCHANGED <<mapperVars, raced, phase>>

SweepDone ==
    /\ phase = "sweep" /\ todo = {}
    /\ phase' = "up"
    /\ UNCHANGED <<journalVars, mapperVars, live, raced, todo, spared, removed>>

-----------------------------------------------------------------------------
(* The mapper at work; mapPort() that is refused, and unmapPort() without a *)
(* mapping, change nothing here                                            *)

NoCall == phase = "up" /\ \A c \in Call : job[c] = Idle

MapPort(c) == \/ \E p \in Port : NoCall /\ MapChecked(c, p)
              \/ MapAdded(c)
              \/ MapThrows(c)
UnmapPort(c) == \/ NoCall /\ UnmapStart(c)
                \/ \E e \in job[c].todo : UnmapDeleted(c, e) \/ UnmapThrows(c, e)
Renew == \/ TimerFires
         \/ \E p \in Port, ok \in BOOLEAN : RenewalAnswered(p, ok)

MapperStep ==
    /\ (\E c \in Call : MapPort(c) \/ UnmapPort(c)) \/ Renew
    /\ Note
    /\ UNCHANGED sweepVars

World ==
    /\ \E p \in Port : LeaseExpires(p) \/ Foreign(p)
    /\ UNCHANGED <<sweepVars, removed>>

Whole == MapperStep \/ World \/ Crash \/ Restart \/ SweepEntry \/ SweepDone

-----------------------------------------------------------------------------
(* Writes that are cut short.  The call throws; where it is not caught, or  *)
(* where the process dies with it, Crash follows.                          *)

MapTorn(c, p) ==
    /\ NoCall /\ live[p] # "foreign"
    /\ JournalAppendTorn(p)
    /\ UNCHANGED <<mapperVars, live, raced>>

\* updateState() throws, or removeEntry() does, or the process ends between the
\* two: best effort, on to the next.
RetireTorn(i) == UpdateState(i) \/ UpdateStateTorn(i) \/ RemoveEntryTorn(i)
UnmapTorn(c, e) ==
    /\ job[c].at = "deleting" /\ Oldest(e, c)
    /\ e.id \in Known(entries)
    /\ live' = Deleted(e.port)
    /\ RetireTorn(e.id)
    /\ Advance(c, e)
    /\ UNCHANGED <<handle, loose, renewing, raced>>

\* The sweep catches the error of an entry it removed and goes on; that of
\* an entry whose resource is gone ends it.
SweepTorn(i) ==
    /\ phase = "sweep" /\ i \in todo
    /\ \/ /\ live[entries[i].res] = "ours"
          /\ live' = Deleted(entries[i].res)
          /\ todo' = todo \ {i}
       \/ /\ live[entries[i].res] = "none"
          /\ todo' = {}
          /\ UNCHANGED live
    /\ RetireTorn(i)
    /\ UNCHANGED <<mapperVars, raced, phase, spared>>

Torn ==
    /\ cuts < MaxCuts /\ cuts' = cuts + 1
    /\ \/ \E c \in Call, p \in Port : MapTorn(c, p) /\ UNCHANGED sweepVars
       \/ \E c \in Call : \E e \in job[c].todo : UnmapTorn(c, e) /\ UNCHANGED sweepVars
       \/ \E i \in todo : SweepTorn(i)
    /\ Note

Next == (Whole /\ UNCHANGED cuts) \/ Torn

Spec == Init /\ [][Next]_vars

-----------------------------------------------------------------------------
(* Properties *)

\* The variables keep their types.
TypeOK ==
    /\ entries \in [Id -> Entry \cup {NoEntry}]
    /\ stored \in [Id -> Entry \cup {NoEntry}]
    /\ tail \in Line \cup {NoTail, Garbage}
    /\ drawn \in 0 .. MaxId
    /\ current \in Port \cup {NoPort} /\ renewing \in [Port -> Nat]
    /\ handle \in BOOLEAN /\ loose \in Nat
    /\ job \in [Call -> Job]
    /\ live \in [Port -> {"none", "ours", "foreign"}] /\ raced \subseteq Port
    /\ phase \in {"up", "down", "sweep"}
    /\ todo \subseteq Known(entries)
    /\ spared \subseteq Port /\ removed \subseteq Id
    /\ cuts \in 0 .. MaxCuts

\* As long as writes are whole, whatever is cut off between two steps, the
\* file names every mapping that this program left in the router, those of
\* ports whose renewal met an unmapPort() excepted.  This is why mapPort()
\* journals first and unmapPort() last.
JournalNamesMappings == cuts = 0 => MappingsAreJournaled

\* And what load() would read is what the program has in memory, so a restart
\* goes on from where the last one stopped.
FileIsMap == cuts = 0 /\ phase # "down" => OnDisk = entries

\* When a sweep ends, the router holds no mapping of ours but those whose
\* remove() threw and those a renewal brought back during an unmapPort().
SweepLeavesNone ==
    [][SweepDone /\ cuts = 0 =>
        \A p \in Port : live[p] = "ours" => p \in spared \cup raced]_vars

\* An entry that was removed is never read again, cut writes included: a
\* later sweep would take away what somebody else has put there since.
NoResurrection == removed \cap Known(OnDisk) = {}
=============================================================================
