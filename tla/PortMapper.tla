----------------------------- MODULE PortMapper -----------------------------
(***************************************************************************)
(* PortMapper of src/src/port-mapper.ts with its journal and the router.   *)
(* A call of mapPort() or unmapPort() is a job that moves one step at each *)
(* await; what lies between two awaits is one step.  Resources are the     *)
(* external ports.                                                         *)
(*                                                                         *)
(* Steps only, no specification: Recovery runs them under crashes,         *)
(* Listener under the calls of ListenerManager.                            *)
(***************************************************************************)
EXTENDS Journal

CONSTANTS
    Call        \* bound of the model: calls that may be under way at once

VARIABLES
    current,    \* this.currentMapping, a port or NoPort
    handle,     \* this.renewTimer is set and has not fired
    loose,      \* how many timers run whose handle was overwritten
    renewing,   \* renewals that await their answer: how many for each port
    job,        \* calls under way
    live,       \* the router's table: port -> "none", "ours" or "foreign"
    raced       \* history: ports for which a renewal and an unmapPort() have
                \* met since mapPort() last journaled them

mapperVars == <<current, handle, loose, renewing, job>>

NoPort == "none"
Port == Resource
ASSUME NoneIsNoPort == NoPort \notin Port
Idle == [at |-> "idle", port |-> NoPort, todo |-> {}]
Job == [at : {"idle", "adding", "deleting"}, port : Port \cup {NoPort},
        todo : SUBSET [id : Id, port : Port]]

MapperInit ==
    /\ current = NoPort /\ handle = FALSE /\ loose = 0
    /\ renewing = [p \in Port |-> 0]
    /\ job = [c \in Call |-> Idle]
    /\ live = [p \in Port |-> "none"]
    /\ raced = {}

\* The process ends; the next one starts like this.
MapperLost ==
    /\ current' = NoPort /\ handle' = FALSE /\ loose' = 0
    /\ renewing' = [p \in Port |-> 0]
    /\ job' = [c \in Call |-> Idle]

\* The router's answer to an add of p: it does not take a port from others.
Added(p) == [live EXCEPT ![p] = IF @ = "foreign" THEN @ ELSE "ours"]
Deleted(p) == [live EXCEPT ![p] = "none"]

\* Requests under way: adds of calls and renewals, and the delete a call awaits.
Oldest(e, c) == e \in job[c].todo /\ \A f \in job[c].todo : e.id <= f.id
Adds == {p \in Port : renewing[p] > 0 \/ \E c \in Call : job[c].at = "adding" /\ job[c].port = p}
Deletes == {p \in Port : \E c \in Call : \E e \in job[c].todo : Oldest(e, c) /\ e.port = p}

\* What they may still do to the router, each of them or none, in any order.
Fate(p) ==
    {live[p]} \cup {s \in {"none"} : p \in Deletes}
        \cup {s \in {"ours"} : p \in Adds /\ (live[p] # "foreign" \/ p \in Deletes)}
InFlight == {t \in [Port -> {"none", "ours", "foreign"}] : \A p \in Port : t[p] \in Fate(p)}

-----------------------------------------------------------------------------
(* mapPort() with consent *)

\* Mutant: the journal entry is written once the router has answered.
MapCheckedUnjournaled(c, p) ==
    /\ job[c] = Idle
    /\ live[p] # "foreign"
    /\ job' = [job EXCEPT ![c] = [Idle EXCEPT !.at = "adding", !.port = p]]
    /\ raced' = raced \ {p}
    /\ UNCHANGED <<journalVars, current, handle, loose, renewing, live>>

\* getExternalIP() and getMappings() have been answered: with an error, with
\* a mapping of another program on the port, or neither.
MapRefused(c) ==
    /\ job[c] = Idle
    /\ UNCHANGED <<journalVars, mapperVars, live, raced>>

MapChecked(c, p) ==
    /\ job[c] = Idle
    /\ live[p] # "foreign"
    /\ JournalAppend(p)
    /\ job' = [job EXCEPT ![c] = [Idle EXCEPT !.at = "adding", !.port = p]]
    /\ raced' = raced \ {p}
    /\ UNCHANGED <<current, handle, loose, renewing, live>>

\* addPortMapping() has been answered.  scheduleRenewal() overwrites the
\* handle of a timer that still runs.
MapAdded(c) ==
    LET p == job[c].port
    IN  /\ job[c].at = "adding"
        /\ live[p] # "foreign"
        /\ live' = Added(p)
        /\ current' = p
        /\ handle' = TRUE
        /\ loose' = IF handle THEN loose + 1 ELSE loose
        /\ job' = [job EXCEPT ![c] = Idle]
        /\ UNCHANGED <<journalVars, renewing, raced>>

\* addPortMapping() throws, perhaps after the router did it.
MapThrows(c) ==
    /\ job[c].at = "adding"
    /\ live' \in {live, Added(job[c].port)}
    /\ job' = [job EXCEPT ![c] = Idle]
    /\ UNCHANGED <<journalVars, current, handle, loose, renewing, raced>>

-----------------------------------------------------------------------------
(* unmapPort() *)

UnmapNothing(c) ==
    /\ job[c] = Idle /\ current = NoPort
    /\ handle' = FALSE
    /\ UNCHANGED <<journalVars, current, loose, renewing, job, live, raced>>

\* It goes through all mapping entries, this run's and older ones, by age.
Listed == {[id |-> i, port |-> entries[i].res] : i \in Known(entries)}
UnmapStart(c) ==
    /\ job[c] = Idle /\ current # NoPort
    /\ handle' = FALSE
    /\ IF Listed = {}
       THEN current' = NoPort /\ UNCHANGED <<job, raced>>
       ELSE /\ job' = [job EXCEPT ![c] = [Idle EXCEPT !.at = "deleting", !.todo = Listed]]
            /\ raced' = raced \cup {p \in Port : renewing[p] > 0}
            /\ UNCHANGED current
    /\ UNCHANGED <<journalVars, loose, renewing, live>>

\* One answer of deletePortMapping(); after the last one, currentMapping is
\* cleared whatever the answers were.

\* Mutant: currentMapping is not cleared.
AdvanceKeeps(c, e) ==
    /\ job' = [job EXCEPT ![c] = IF @.todo = {e} THEN Idle ELSE [@ EXCEPT !.todo = @ \ {e}]]
    /\ UNCHANGED current

Advance(c, e) ==
    IF job[c].todo = {e}
    THEN current' = NoPort /\ job' = [job EXCEPT ![c] = Idle]
    ELSE job' = [job EXCEPT ![c].todo = @ \ {e}] /\ UNCHANGED current

\* Mutant: the entry is dropped even if the router does not answer.
UnmapDeletedBlindly(c, e) ==
    /\ job[c].at = "deleting" /\ Oldest(e, c)
    /\ live' \in {live, Deleted(e.port)}
    /\ IF e.id \in Known(entries) THEN RemoveEntry(e.id) ELSE UNCHANGED journalVars
    /\ Advance(c, e)
    /\ UNCHANGED <<handle, loose, renewing, raced>>

\* It names the port only, whoever's it is by then.  updateState() and
\* removeEntry() follow in the same turn of the event loop and leave the file
\* as removeEntry() does.  If another call was faster, updateState() throws
\* and the entry is passed over.
UnmapDeleted(c, e) ==
    /\ job[c].at = "deleting" /\ Oldest(e, c)
    /\ live' = Deleted(e.port)
    /\ IF e.id \in Known(entries) THEN RemoveEntry(e.id) ELSE UNCHANGED journalVars
    /\ Advance(c, e)
    /\ UNCHANGED <<handle, loose, renewing, raced>>

\* Best effort: it throws, perhaps after the router did it.
UnmapThrows(c, e) ==
    /\ job[c].at = "deleting" /\ Oldest(e, c)
    /\ live' \in {live, Deleted(e.port)}
    /\ Advance(c, e)
    /\ UNCHANGED <<journalVars, handle, loose, renewing, raced>>

-----------------------------------------------------------------------------
(* Renewal, 300 s before the lease ends; nothing sets the timer again.  The *)
(* timer waits for no call: it fires while mapPort() or unmapPort() awaits  *)
(* the router, and calls start while its request is under way.             *)

Unmapping == \E c \in Call : job[c].at = "deleting"

TimerFires ==
    /\ \/ handle /\ handle' = FALSE /\ UNCHANGED loose
       \/ loose > 0 /\ loose' = loose - 1 /\ UNCHANGED handle
    /\ renewing' = [p \in Port |-> IF p = current THEN renewing[p] + 1 ELSE renewing[p]]
    /\ raced' = raced \cup {p \in Port : p = current /\ Unmapping}
    /\ UNCHANGED <<journalVars, current, job, live>>

RenewalAnswered(p, ok) ==
    /\ renewing[p] > 0
    /\ ok => live[p] # "foreign"
    /\ live' \in {Added(p)} \cup (IF ok THEN {} ELSE {live})
    /\ renewing' = [renewing EXCEPT ![p] = @ - 1]
    /\ UNCHANGED <<journalVars, current, handle, loose, job, raced>>

\* What the journal is for: a mapping that may outlive the program is in it.
\* The code does not keep this for a port whose renewal meets an unmapPort():
\* it may be added again after its entry was removed.
MappingsAreJournaled ==
    \A p \in Port : live[p] = "ours" /\ p \notin raced =>
        \E i \in Active(OnDisk) : OnDisk[i].res = p

\* The router forgets a mapping when its lease ends; others come and go.
LeaseExpires(p) ==
    /\ live[p] = "ours"
    /\ live' = [live EXCEPT ![p] = "none"]
    /\ UNCHANGED <<journalVars, mapperVars, raced>>

Foreign(p) ==
    /\ live[p] # "ours"
    /\ live' = [live EXCEPT ![p] = IF @ = "none" THEN "foreign" ELSE "none"]
    /\ UNCHANGED <<journalVars, mapperVars, raced>>
=============================================================================
