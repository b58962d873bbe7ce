--------------------------- MODULE RecoveryProofs ---------------------------
(***************************************************************************)
(* Proofs about Recovery, for any ports and calls and any number of        *)
(* journal entries, crashes and writes that are cut short.                 *)
(***************************************************************************)
EXTENDS Recovery, TLAPS

-----------------------------------------------------------------------------
(* The invariant *)

\* Map, file and history: ids are drawn in order, and one that was removed is
\* in neither, nor in what a cut write has left.
JournalOK ==
    /\ entries \in [Id -> Entry \cup {NoEntry}]
    /\ stored \in [Id -> Entry \cup {NoEntry}]
    /\ tail \in Line \cup {NoTail, Garbage}
    /\ drawn \in 0 .. MaxId
    /\ removed \subseteq Id
    /\ \A i \in Id : entries[i] # NoEntry \/ stored[i] # NoEntry \/ tail.id = i \/ i \in removed
                        => i <= drawn
    /\ \A i \in removed : entries[i] = NoEntry /\ stored[i] = NoEntry /\ tail.id # i

\* One call at a time.
JobsOK ==
    /\ job \in [Call -> Job]
    /\ \A c \in Call : job[c] # Idle => \A d \in Call \ {c} : job[d] = Idle
    /\ \A c \in Call : job[c].port # NoPort => job[c].at = "adding"

MapperOK ==
    /\ current \in Port \cup {NoPort} /\ renewing \in [Port -> Nat]
    /\ handle \in BOOLEAN /\ loose \in Nat
    /\ live \in [Port -> {"none", "ours", "foreign"}] /\ raced \subseteq Port
    /\ JobsOK

\* The sweep is alone.
SweepOK ==
    /\ phase \in {"up", "down", "sweep"}
    /\ todo \subseteq Known(entries) /\ spared \subseteq Port
    /\ todo # {} => phase = "sweep"
    /\ phase # "up" =>
          /\ current = NoPort /\ handle = FALSE /\ loose = 0
          /\ \A p \in Port : renewing[p] = 0
          /\ \A c \in Call : job[c] = Idle

CutsOK == cuts \in 0 .. MaxCuts

\* What holds while no write was cut short.
FileIsWhole ==
    /\ tail = NoTail
    /\ phase # "down" => stored = entries
    /\ \A i \in Id : stored[i] # NoEntry => stored[i].state = "intended"

Named(p) == \E i \in Id : stored[i] = Intended(p)

\* The file names what is in the router, and what may get there, but for the
\* ports whose renewal met an unmapPort(); and while one is under way, every
\* renewal has met it.
Kept(p) == Named(p) \/ p \in raced
NamesAll ==
    /\ \A p \in Port : live[p] = "ours" \/ renewing[p] > 0 => Kept(p)
    /\ \A c \in Call : job[c].at = "adding" => Named(job[c].port)
    /\ current # NoPort /\ ~Unmapping => Named(current)
    /\ Unmapping => \A p \in Port : renewing[p] > 0 => p \in raced

ListIsRight ==
    \A c \in Call : \A e \in job[c].todo :
        entries[e.id] # NoEntry => entries[e.id].res = e.port

\* What the sweep has to take away is still on its list.
SweepIsDue ==
    phase = "sweep" => \A p \in Port : live[p] = "ours" =>
        p \in spared \cup raced \/ \E i \in todo : entries[i].res = p

WholeOK == FileIsWhole /\ NamesAll /\ ListIsRight /\ SweepIsDue

Core == JournalOK /\ MapperOK /\ SweepOK /\ CutsOK

IInv == Core /\ (cuts = 0 => WholeOK)

-----------------------------------------------------------------------------
(* The operators of Journal *)

LEMMA EntryIsSome ==
    ASSUME NEW e \in Entry
    PROVE  e # NoEntry
BY DEF Entry, NoEntry

LEMMA IntendedIsEntry ==
    ASSUME NEW p \in Resource
    PROVE  Intended(p) \in Entry /\ Intended(p).state = "intended" /\ Intended(p).res = p
BY DEF Intended, Entry

LEMMA RemovedIsEntry ==
    ASSUME JournalOK, NEW i \in Known(entries)
    PROVE  /\ i \in Id /\ entries[i] \in Entry /\ entries[i].res \in Port
           /\ Removed(i) \in Entry
<1>1. i \in Id /\ entries[i] \in Entry
  BY DEF JournalOK, Known
<1> QED
  BY <1>1 DEF Entry, Removed, Port

LEMMA LineHasId ==
    ASSUME NEW i, NEW e
    PROVE  LineOf(i, e).id = i /\ LineOf(i, e).e = e
BY DEF LineOf

LEMMA MarksHaveNoId == NoTail.id \notin Id /\ Garbage.id \notin Id
BY DEF NoTail, Garbage, Id

\* What a line that is appended, whole or torn, does to the file.
LEMMA LineIsAdded ==
    ASSUME JournalOK, NEW i \in Id, NEW e \in Entry, AppendLine(i, e) \/ AppendTorn(i, e)
    PROVE  /\ stored' \in [Id -> Entry \cup {NoEntry}]
           /\ \A j \in Id : j # i => stored'[j] = stored[j]
           /\ tail' \in Line \cup {NoTail, Garbage}
           /\ \A j \in Id : tail'.id = j => j = i \/ tail.id = j
<1>1. LineOf(i, e) \in Line
  BY DEF LineOf, Line
<1>2. CASE AppendLine(i, e)
  <2>1. stored' = stored \/ stored' = [stored EXCEPT ![i] = e]
    BY <1>2 DEF AppendLine
  <2> QED
    BY <1>2, <2>1, MarksHaveNoId DEF AppendLine, JournalOK
<1>3. CASE AppendTorn(i, e)
  <2>1. stored' = stored /\ tail' \in {tail, Garbage, LineOf(i, e)}
    BY <1>3 DEF AppendTorn
  <2> QED
    BY <2>1, <1>1, LineHasId, MarksHaveNoId DEF JournalOK
<1> QED
  BY <1>2, <1>3

\* What a rewrite, whole or torn, leaves of a map.
LEMMA FileIsRewritten ==
    ASSUME NEW m \in [Id -> Entry \cup {NoEntry}], Rewrite(m) \/ RewriteTorn(m)
    PROVE  /\ stored' \in [Id -> Entry \cup {NoEntry}]
           /\ \A j \in Id : stored'[j] # NoEntry => m[j] # NoEntry
           /\ tail' \in Line \cup {NoTail, Garbage}
           /\ \A j \in Id : tail'.id = j => m[j] # NoEntry
<1>1. CASE Rewrite(m)
  BY <1>1, MarksHaveNoId DEF Rewrite
<1>2. CASE RewriteTorn(m)
  <2>1. PICK n \in 1 .. MaxId + 1 :
          /\ stored' = [i \in Id |-> IF i < n THEN m[i] ELSE NoEntry]
          /\ tail' \in {NoTail} \cup (IF n \in Known(m) THEN {Garbage, LineOf(n, m[n])} ELSE {})
    BY <1>2 DEF RewriteTorn
  <2>2. CASE tail' \in {NoTail, Garbage}
    BY <2>1, <2>2, MarksHaveNoId
  <2>3. CASE n \in Known(m) /\ tail' = LineOf(n, m[n])
    <3>1. n \in Id /\ m[n] \in Entry /\ m[n] # NoEntry
      BY <2>3 DEF Known
    <3>2. LineOf(n, m[n]) \in Line
      BY <3>1 DEF LineOf, Line
    <3> QED
      BY <2>1, <2>3, <3>1, <3>2, LineHasId
  <2> QED
    BY <2>1, <2>2, <2>3
<1> QED
  BY <1>1, <1>2

\* What load() reads is in the lines or in the tail.
LEMMA DiskIs ==
    ASSUME JournalOK
    PROVE  /\ OnDisk \in [Id -> Entry \cup {NoEntry}]
           /\ \A i \in Id : OnDisk[i] # NoEntry => stored[i] # NoEntry \/ tail.id = i
<1>1. CASE tail.id \in Id
  <2>1. tail \in Line
    BY <1>1, MarksHaveNoId DEF JournalOK
  <2>2. tail.e \in Entry
    BY <2>1 DEF Line
  <2>3. OnDisk = [stored EXCEPT ![tail.id] = tail.e]
    BY <1>1 DEF OnDisk
  <2> QED
    BY <1>1, <2>2, <2>3 DEF JournalOK
<1>2. CASE tail.id \notin Id
  BY <1>2 DEF OnDisk, JournalOK
<1> QED
  BY <1>1, <1>2

LEMMA SameJournal ==
    ASSUME JournalOK, UNCHANGED journalVars, Note \/ UNCHANGED removed
    PROVE  JournalOK' /\ removed' = removed /\ Known(entries)' = Known(entries)
<1>1. Known(entries') = Known(entries)
  BY DEF Known, journalVars
<1>2. removed' = removed
  BY <1>1 DEF Note
<1> QED
  BY <1>1, <1>2 DEF JournalOK, journalVars

\* append(), whether or not its line gets to the disk.
LEMMA AppendKeeps ==
    ASSUME JournalOK, NEW r \in Resource, JournalAppend(r) \/ JournalAppendTorn(r), Note
    PROVE  JournalOK' /\ Known(entries) \subseteq Known(entries')
<1> DEFINE n == drawn + 1
<1>1. /\ drawn' = n /\ drawn \in 0 .. MaxId /\ n \in Id /\ drawn' \in 0 .. MaxId
      /\ \A i \in Id : i <= drawn => i <= n /\ i # n
  BY MaxIdIsNat DEF JournalOK, JournalAppend, JournalAppendTorn, Id
<1>2. Intended(r) \in Entry /\ Intended(r) # NoEntry
  BY IntendedIsEntry, EntryIsSome
<1>3. AppendLine(n, Intended(r)) \/ AppendTorn(n, Intended(r))
  BY DEF JournalAppend, JournalAppendTorn
<1>4. entries' = entries \/ entries' = [entries EXCEPT ![n] = Intended(r)]
  BY DEF JournalAppend, JournalAppendTorn
<1> HIDE DEF n
<1>5. /\ stored' \in [Id -> Entry \cup {NoEntry}]
      /\ \A j \in Id : j # n => stored'[j] = stored[j]
      /\ tail' \in Line \cup {NoTail, Garbage}
      /\ \A j \in Id : tail'.id = j => j = n \/ tail.id = j
  BY <1>1, <1>2, <1>3, LineIsAdded
<1>6. /\ entries' \in [Id -> Entry \cup {NoEntry}]
      /\ \A j \in Id : j # n => entries'[j] = entries[j]
  BY <1>1, <1>2, <1>4 DEF JournalOK
<1>7. n <= n
  BY <1>1 DEF Id
<1>8. entries[n] = NoEntry /\ n \notin removed
  BY <1>1 DEF JournalOK
<1>9. Known(entries) \subseteq Known(entries')
  BY <1>6, <1>8 DEF Known
<1>10. removed' = removed
  BY <1>9 DEF Note
<1> QED
  BY <1>1, <1>5, <1>6, <1>7, <1>8, <1>9, <1>10 DEF JournalOK

\* updateState() and removeEntry() of an id that is known, whole or torn.
Retires(i) == UpdateState(i) \/ UpdateStateTorn(i) \/ RemoveEntry(i) \/ RemoveEntryTorn(i)

LEMMA RetireKeeps ==
    ASSUME JournalOK, NEW i \in Known(entries), Retires(i), Note
    PROVE  JournalOK' /\ Known(entries) \ {i} \subseteq Known(entries')
<1>1. i \in Id /\ entries[i] # NoEntry /\ Removed(i) \in Entry /\ Removed(i) # NoEntry
  BY RemovedIsEntry, EntryIsSome
<1>2. drawn' = drawn
  BY DEF Retires, UpdateState, UpdateStateTorn, RemoveEntry, RemoveEntryTorn
<1>3. /\ entries \in [Id -> Entry \cup {NoEntry}]
      /\ i <= drawn /\ i \notin removed /\ removed \subseteq Id
  BY <1>1 DEF JournalOK, Known
<1>4. CASE UpdateState(i) \/ UpdateStateTorn(i)
  <2>1. entries' = [entries EXCEPT ![i] = Removed(i)]
    BY <1>4 DEF UpdateState, UpdateStateTorn
  <2>2. AppendLine(i, Removed(i)) \/ AppendTorn(i, Removed(i))
    BY <1>4 DEF UpdateState, UpdateStateTorn
  <2>3. /\ stored' \in [Id -> Entry \cup {NoEntry}]
        /\ \A j \in Id : j # i => stored'[j] = stored[j]
        /\ tail' \in Line \cup {NoTail, Garbage}
        /\ \A j \in Id : tail'.id = j => j = i \/ tail.id = j
    BY <1>1, <2>2, LineIsAdded
  <2>4. /\ entries' \in [Id -> Entry \cup {NoEntry}]
        /\ \A j \in Id : j # i => entries'[j] = entries[j]
        /\ entries'[i] # NoEntry
    BY <1>1, <1>3, <2>1
  <2>5. Known(entries') = Known(entries)
    BY <1>1, <2>4 DEF Known
  <2>6. removed' = removed
    BY <2>5 DEF Note
  <2> QED
    BY <1>1, <1>2, <1>3, <2>3, <2>4, <2>5, <2>6 DEF JournalOK
<1>5. CASE RemoveEntry(i) \/ RemoveEntryTorn(i)
  <2>1. entries' = Without(i) /\ entries' = [entries EXCEPT ![i] = NoEntry]
    BY <1>5 DEF RemoveEntry, RemoveEntryTorn, Without
  <2>2. /\ entries' \in [Id -> Entry \cup {NoEntry}]
        /\ \A j \in Id : j # i => entries'[j] = entries[j]
        /\ entries'[i] = NoEntry
    BY <1>1, <1>3, <2>1
  <2>3. Without(i) \in [Id -> Entry \cup {NoEntry}]
    BY <2>1, <2>2
  <2>4. Rewrite(Without(i)) \/ RewriteTorn(Without(i))
    BY <1>5 DEF RemoveEntry, RemoveEntryTorn
  <2>5. /\ stored' \in [Id -> Entry \cup {NoEntry}]
        /\ \A j \in Id : stored'[j] # NoEntry => entries'[j] # NoEntry
        /\ tail' \in Line \cup {NoTail, Garbage}
        /\ \A j \in Id : tail'.id = j => entries'[j] # NoEntry
    BY <2>1, <2>3, <2>4, FileIsRewritten
  <2>6. Known(entries') = Known(entries) \ {i}
    BY <1>1, <2>2 DEF Known
  <2>7. removed' = removed \cup {i}
    BY <2>6 DEF Note
  <2>8. \A j \in removed' : entries'[j] = NoEntry
    BY <1>1, <1>3, <2>2, <2>7 DEF JournalOK
  <2>9. \A j \in Id : entries'[j] # NoEntry => entries[j] # NoEntry
    BY <1>1, <2>2
  <2> QED
    BY <1>1, <1>2, <1>3, <2>2, <2>5, <2>6, <2>7, <2>8, <2>9 DEF JournalOK
<1> QED
  BY <1>4, <1>5 DEF Retires

-----------------------------------------------------------------------------
(* The operators of PortMapper *)

LEMMA AddedIs ==
    ASSUME MapperOK, NEW p
    PROVE  /\ Added(p) \in [Port -> {"none", "ours", "foreign"}]
           /\ \A q \in Port : Added(p)[q] = "ours" => live[q] = "ours" \/ q = p
BY DEF MapperOK, Added

LEMMA DeletedIs ==
    ASSUME MapperOK, NEW p
    PROVE  /\ Deleted(p) \in [Port -> {"none", "ours", "foreign"}]
           /\ \A q \in Port : Deleted(p)[q] = "ours" => live[q] = "ours" /\ q # p
BY DEF MapperOK, Deleted

LEMMA IdleIs ==
    /\ Idle \in Job /\ Idle.at = "idle" /\ Idle.port = NoPort /\ Idle.todo = {}
BY DEF Idle, Job

LEMMA AddingIs ==
    ASSUME NEW p \in Port
    PROVE  LET j == [Idle EXCEPT !.at = "adding", !.port = p]
           IN  j \in Job /\ j # Idle /\ j.at = "adding" /\ j.port = p /\ j.todo = {}
<1> DEFINE j == [Idle EXCEPT !.at = "adding", !.port = p]
<1>1. j.at = "adding" /\ j.port = p /\ j.todo = {}
  BY DEF Idle
<1>2. j \in Job
  BY DEF Idle, Job
<1> QED
  BY <1>1, <1>2, IdleIs

LEMMA DeletingIs ==
    ASSUME NEW t \in SUBSET [id : Id, port : Port]
    PROVE  LET j == [Idle EXCEPT !.at = "deleting", !.todo = t]
           IN  /\ j \in Job /\ j # Idle /\ j.at = "deleting"
               /\ j.port = NoPort /\ j.todo = t
<1> DEFINE j == [Idle EXCEPT !.at = "deleting", !.todo = t]
<1>1. j.at = "deleting" /\ j.port = NoPort /\ j.todo = t
  BY DEF Idle
<1>2. j \in Job
  BY DEF Idle, Job
<1> QED
  BY <1>1, <1>2, IdleIs

LEMMA ListedIs ==
    ASSUME JournalOK
    PROVE  /\ Listed \in SUBSET [id : Id, port : Port]
           /\ \A e \in Listed : e.port = entries[e.id].res
<1>1. ASSUME NEW i \in Known(entries)
      PROVE  [id |-> i, port |-> entries[i].res] \in [id : Id, port : Port]
  BY RemovedIsEntry
<1> QED
  BY <1>1 DEF Listed

\* The call that is under way is the only one, and the program is up.
LEMMA Busy ==
    ASSUME Core, NEW c \in Call, job[c] # Idle
    PROVE  phase = "up" /\ todo = {} /\ \A d \in Call \ {c} : job[d] = Idle
BY DEF Core, SweepOK, MapperOK, JobsOK

LEMMA JobMoves ==
    ASSUME Core, NEW c \in Call, NEW j \in Job, job' = [job EXCEPT ![c] = j],
           j.port # NoPort => j.at = "adding",
           job[c] # Idle \/ NoCall \/ j = Idle
    PROVE  JobsOK'
<1>1. job \in [Call -> Job] /\ \A d \in Call : job[d].port # NoPort => job[d].at = "adding"
  BY DEF Core, MapperOK, JobsOK
<1>2. \A d \in Call : job'[d] = IF d = c THEN j ELSE job[d]
  BY <1>1
<1>3. job' \in [Call -> Job]
  BY <1>1
<1>4. \A d \in Call : job'[d] # Idle => \A f \in Call \ {d} : job'[f] = Idle
  <2>1. CASE job[c] # Idle \/ NoCall
    <3>1. \A d \in Call \ {c} : job[d] = Idle
      BY <2>1, Busy DEF NoCall
    <3> QED
      BY <1>2, <3>1
  <2>2. CASE j = Idle
    BY <1>2, <2>2 DEF Core, MapperOK, JobsOK
  <2> QED
    BY <2>1, <2>2
<1>5. \A d \in Call : job'[d].port # NoPort => job'[d].at = "adding"
  BY <1>1, <1>2
<1> QED
  BY <1>3, <1>4, <1>5 DEF JobsOK

\* The next of the list, or the end of the call.
LEMMA AdvanceIs ==
    ASSUME Core, NEW c \in Call, NEW e \in job[c].todo, Advance(c, e)
    PROVE  /\ job[c] # Idle /\ JobsOK'
           /\ current' \in Port \cup {NoPort}
           /\ \A d \in Call : job'[d].todo \subseteq job[d].todo
           /\ \A d \in Call : job'[d].at = "adding" =>
                job[d].at = "adding" /\ job'[d].port = job[d].port
           /\ Unmapping' => Unmapping
           /\ ~Unmapping' => current' = NoPort \/ ~Unmapping
<1> USE DEF Unmapping
<1>1. /\ job \in [Call -> Job] /\ job[c] \in Job /\ current \in Port \cup {NoPort}
      /\ job[c].port # NoPort => job[c].at = "adding"
  BY DEF Core, MapperOK, JobsOK
<1>2. job[c] # Idle
  BY IdleIs
<1>3. CASE job[c].todo = {e}
  <2>1. current' = NoPort /\ job' = [job EXCEPT ![c] = Idle]
    BY <1>3 DEF Advance
  <2>2. JobsOK'
    BY <2>1, IdleIs, JobMoves
  <2> QED
    BY <1>1, <1>2, <2>1, <2>2, IdleIs
<1>4. CASE job[c].todo # {e}
  <2> DEFINE j == [job[c] EXCEPT !.todo = job[c].todo \ {e}]
  <2>1. current' = current /\ job' = [job EXCEPT ![c] = j]
    BY <1>1, <1>4 DEF Advance
  <2>2. /\ j \in Job /\ j.at = job[c].at /\ j.port = job[c].port
        /\ j.todo = job[c].todo \ {e}
    BY <1>1 DEF Job
  <2> HIDE DEF j
  <2>3. JobsOK'
    BY <1>1, <1>2, <2>1, <2>2, JobMoves
  <2>4. \A d \in Call : job'[d] = IF d = c THEN j ELSE job[d]
    BY <1>1, <2>1
  <2> QED
    BY <1>1, <1>2, <2>1, <2>2, <2>3, <2>4
<1> QED
  BY <1>3, <1>4

LEMMA UpStays ==
    ASSUME Core, phase = "up", UNCHANGED sweepVars
    PROVE  SweepOK' /\ phase' = "up" /\ todo' = {}
BY DEF Core, SweepOK, sweepVars

-----------------------------------------------------------------------------
(* Every step keeps the types, the order of the ids and what was removed,   *)
(* cut writes included                                                     *)

LEMMA MapCheckedCore ==
    ASSUME Core, NEW c \in Call, NEW p \in Port, NoCall, MapChecked(c, p), Note,
           UNCHANGED sweepVars
    PROVE  JournalOK' /\ MapperOK' /\ SweepOK'
<1> USE DEF MapChecked
<1>1. JournalOK'
  BY AppendKeeps DEF Core, Port
<1>2. JobsOK'
  BY AddingIs, JobMoves
<1>3. SweepOK'
  BY UpStays DEF NoCall
<1>4. raced' \subseteq Port
  BY DEF Core, MapperOK
<1> QED
  BY <1>1, <1>2, <1>3, <1>4 DEF Core, MapperOK

LEMMA MapEndsCore ==
    ASSUME Core, NEW c \in Call, MapAdded(c) \/ MapThrows(c), Note, UNCHANGED sweepVars
    PROVE  JournalOK' /\ MapperOK' /\ SweepOK'
<1> USE DEF MapAdded, MapThrows
<1>1. job[c] # Idle /\ job[c].port \in Port \cup {NoPort}
  BY IdleIs DEF Core, MapperOK, JobsOK, Job
<1>2. JournalOK'
  BY SameJournal DEF Core
<1>3. JobsOK'
  BY IdleIs, JobMoves
<1>4. live' \in [Port -> {"none", "ours", "foreign"}]
  BY AddedIs DEF Core, MapperOK
<1>5. SweepOK'
  BY <1>1, Busy, UpStays
<1>6. current' \in Port \cup {NoPort} /\ handle' \in BOOLEAN
  BY <1>1 DEF Core, MapperOK
<1>7. loose' \in Nat
  BY DEF Core, MapperOK
<1> QED
  BY <1>2, <1>3, <1>4, <1>5, <1>6, <1>7 DEF Core, MapperOK

LEMMA UnmapStartCore ==
    ASSUME Core, NEW c \in Call, NoCall, UnmapStart(c), Note, UNCHANGED sweepVars
    PROVE  JournalOK' /\ MapperOK' /\ SweepOK'
<1> USE DEF UnmapStart
<1>1. JournalOK'
  BY SameJournal DEF Core
<1>2. SweepOK'
  BY UpStays DEF NoCall
<1>3. CASE Listed = {}
  <2>1. current' = NoPort /\ UNCHANGED job
    BY <1>3
  <2> QED
    BY <2>1, <1>1, <1>2 DEF Core, MapperOK, JobsOK
<1>4. CASE Listed # {}
  <2>1. job' = [job EXCEPT ![c] = [Idle EXCEPT !.at = "deleting", !.todo = Listed]]
        /\ UNCHANGED current
    BY <1>4
  <2>2. JobsOK'
    BY <2>1, ListedIs, DeletingIs, JobMoves DEF Core
  <2>3. raced' \subseteq Port
    BY <1>4 DEF Core, MapperOK
  <2> QED
    BY <2>1, <2>2, <2>3, <1>1, <1>2 DEF Core, MapperOK
<1> QED
  BY <1>3, <1>4

LEMMA UnmapAnsweredCore ==
    ASSUME Core, NEW c \in Call, NEW e \in job[c].todo,
           UnmapDeleted(c, e) \/ UnmapThrows(c, e), Note, UNCHANGED sweepVars
    PROVE  JournalOK' /\ MapperOK' /\ SweepOK'
<1> USE DEF UnmapDeleted, UnmapThrows
<1>1. job[c] # Idle /\ JobsOK' /\ current' \in Port \cup {NoPort}
  BY AdvanceIs
<1>2. JournalOK'
  <2>1. CASE UNCHANGED journalVars
    BY <2>1, SameJournal DEF Core
  <2>2. CASE ~UNCHANGED journalVars
    <3>1. e.id \in Known(entries) /\ RemoveEntry(e.id)
      BY <2>2
    <3> QED
      BY <3>1, RetireKeeps DEF Core, Retires
  <2> QED
    BY <2>1, <2>2
<1>3. SweepOK'
  BY <1>1, Busy, UpStays
<1>4. live' \in [Port -> {"none", "ours", "foreign"}]
  BY DeletedIs DEF Core, MapperOK
<1> QED
  BY <1>1, <1>2, <1>3, <1>4 DEF Core, MapperOK

\* The timer fires, or a renewal is answered, only while the program is up.
LEMMA RenewIsUp ==
    ASSUME Core, Renew, UNCHANGED sweepVars
    PROVE  /\ phase = "up" /\ UNCHANGED <<journalVars, current, job>>
           /\ renewing' \in [Port -> Nat] /\ loose' \in Nat /\ handle' \in BOOLEAN
<1>1. CASE TimerFires
  <2>1. handle \/ loose > 0
    BY <1>1 DEF TimerFires
  <2>2. phase = "up"
    BY <2>1 DEF Core, SweepOK
  <2>3. renewing' \in [Port -> Nat]
    BY <1>1 DEF TimerFires, Core, MapperOK
  <2>4. loose \in Nat /\ (loose' = loose \/ (loose > 0 /\ loose' = loose - 1))
    BY <1>1 DEF TimerFires, Core, MapperOK
  <2>5. handle' \in BOOLEAN
    BY <1>1 DEF TimerFires, Core, MapperOK
  <2> QED
    BY <1>1, <2>2, <2>3, <2>4, <2>5 DEF TimerFires
<1>2. CASE \E p \in Port, ok \in BOOLEAN : RenewalAnswered(p, ok)
  BY <1>2 DEF RenewalAnswered, Core, MapperOK, SweepOK
<1> QED
  BY <1>1, <1>2 DEF Renew

LEMMA RenewCore ==
    ASSUME Core, Renew, Note, UNCHANGED sweepVars
    PROVE  JournalOK' /\ MapperOK' /\ SweepOK'
<1>1. JournalOK' /\ SweepOK'
  BY RenewIsUp, SameJournal, UpStays DEF Core
<1>2. JobsOK'
  BY RenewIsUp DEF Core, MapperOK, JobsOK
<1>3. live' \in [Port -> {"none", "ours", "foreign"}] /\ raced' \subseteq Port
  <2>1. CASE TimerFires
    BY <2>1 DEF TimerFires, Core, MapperOK
  <2>2. CASE \E p \in Port, ok \in BOOLEAN : RenewalAnswered(p, ok)
    BY <2>2, AddedIs DEF RenewalAnswered, Core, MapperOK
  <2> QED
    BY <2>1, <2>2 DEF Renew
<1> QED
  BY <1>1, <1>2, <1>3, RenewIsUp DEF Core, MapperOK

LEMMA MapperCore == Core /\ MapperStep => JournalOK' /\ MapperOK' /\ SweepOK'
<1> SUFFICES ASSUME Core, MapperStep PROVE JournalOK' /\ MapperOK' /\ SweepOK'
  OBVIOUS
<1>1. Note /\ UNCHANGED sweepVars
  BY DEF MapperStep
<1>2. CASE \E c \in Call : MapPort(c)
  BY <1>1, <1>2, MapCheckedCore, MapEndsCore DEF MapPort
<1>3. CASE \E c \in Call : UnmapPort(c)
  BY <1>1, <1>3, UnmapStartCore, UnmapAnsweredCore DEF UnmapPort
<1>4. CASE Renew
  BY <1>1, <1>4, RenewCore
<1> QED
  BY <1>2, <1>3, <1>4 DEF MapperStep

LEMMA WorldLive ==
    ASSUME MapperOK, NEW p \in Port, LeaseExpires(p) \/ Foreign(p)
    PROVE  /\ live' \in [Port -> {"none", "ours", "foreign"}]
           /\ \A q \in Port : live'[q] = "ours" => live[q] = "ours"
           /\ UNCHANGED <<journalVars, mapperVars, raced>>
BY DEF MapperOK, LeaseExpires, Foreign

LEMMA WorldCore == Core /\ World => JournalOK' /\ MapperOK' /\ SweepOK'
<1> SUFFICES ASSUME Core, World PROVE JournalOK' /\ MapperOK' /\ SweepOK'
  OBVIOUS
<1>1. PICK p \in Port : LeaseExpires(p) \/ Foreign(p)
  BY DEF World
<1>2. /\ live' \in [Port -> {"none", "ours", "foreign"}]
      /\ UNCHANGED <<journalVars, mapperVars, raced>>
  BY <1>1, WorldLive DEF Core
<1>3. JournalOK'
  BY <1>2, SameJournal DEF Core, World
<1> QED
  BY <1>2, <1>3 DEF World, Core, MapperOK, JobsOK, SweepOK, mapperVars, sweepVars, journalVars,
                    Known

LEMMA InFlightIs ==
    ASSUME Core, NEW l \in InFlight
    PROVE  /\ l \in [Port -> {"none", "ours", "foreign"}]
           /\ \A q \in Port : l[q] = "ours" =>
                \/ live[q] = "ours" \/ renewing[q] > 0
                \/ \E c \in Call : job[c].at = "adding" /\ job[c].port = q
<1>1. l \in [Port -> {"none", "ours", "foreign"}] /\ \A q \in Port : l[q] \in Fate(q)
  BY DEF InFlight
<1>2. ASSUME NEW q \in Port, l[q] = "ours" PROVE live[q] = "ours" \/ q \in Adds
  BY <1>1, <1>2 DEF Fate
<1> QED
  BY <1>1, <1>2 DEF Adds

LEMMA LostIs ==
    ASSUME MapperLost
    PROVE  /\ JobsOK' /\ current' = NoPort /\ handle' = FALSE /\ loose' = 0
           /\ renewing' \in [Port -> Nat] /\ \A p \in Port : renewing'[p] = 0
           /\ \A c \in Call : job'[c] = Idle
BY IdleIs DEF MapperLost, JobsOK

LEMMA CrashCore == Core /\ Crash => JournalOK' /\ MapperOK' /\ SweepOK'
<1> SUFFICES ASSUME Core, Crash PROVE JournalOK' /\ MapperOK' /\ SweepOK'
  OBVIOUS
<1> USE DEF Crash
<1>1. \A i \in Id : entries'[i] = NoEntry
  BY DEF Empty
<1>2. entries' \in [Id -> Entry \cup {NoEntry}]
  BY DEF Empty
<1>3. JournalOK'
  BY <1>1, <1>2 DEF Core, JournalOK
<1>4. MapperOK'
  BY InFlightIs, LostIs DEF Core, MapperOK
<1>5. SweepOK'
  BY LostIs DEF SweepOK
<1> QED
  BY <1>3, <1>4, <1>5

LEMMA RestartCore == Core /\ Restart => JournalOK' /\ MapperOK' /\ SweepOK'
<1> SUFFICES ASSUME Core, Restart PROVE JournalOK' /\ MapperOK' /\ SweepOK'
  OBVIOUS
<1> USE DEF Restart, LoadJournal
<1>1. JournalOK'
  BY DiskIs DEF Core, JournalOK
<1>2. MapperOK'
  BY DEF Core, MapperOK, JobsOK, mapperVars
<1>3. SweepOK'
  BY DEF Core, SweepOK, Active, mapperVars
<1> QED
  BY <1>1, <1>2, <1>3

LEMMA SweepEntryCore == Core /\ SweepEntry => JournalOK' /\ MapperOK' /\ SweepOK'
<1> SUFFICES ASSUME Core, SweepEntry PROVE JournalOK' /\ MapperOK' /\ SweepOK'
  OBVIOUS
<1> USE DEF SweepEntry
<1>1. PICK i \in todo :
        /\ SweepGone(i) \/ SweepMismatch(i) \/ SweepRemoved(i) \/ SweepFailed(i)
        /\ todo' = todo \ {i}
  OBVIOUS
<1>2. i \in Known(entries) /\ entries[i].res \in Port
  BY RemovedIsEntry DEF Core, SweepOK
<1>3. JournalOK' /\ Known(entries) \ {i} \subseteq Known(entries')
  <2>1. CASE SweepGone(i) \/ SweepRemoved(i)
    BY <2>1, <1>2, RetireKeeps DEF Core, Retires, SweepGone, SweepRemoved
  <2>2. CASE SweepMismatch(i) \/ SweepFailed(i)
    BY <2>2, SameJournal DEF Core, SweepMismatch, SweepFailed
  <2> QED
    BY <1>1, <2>1, <2>2
<1>4. live' \in [Port -> {"none", "ours", "foreign"}] /\ spared' \subseteq Port
  BY <1>1, <1>2, DeletedIs DEF Core, MapperOK, SweepOK, SweepGone, SweepMismatch,
                              SweepRemoved, SweepFailed
<1>5. MapperOK'
  BY <1>4 DEF Core, MapperOK, JobsOK, mapperVars
<1>6. SweepOK'
  BY <1>1, <1>3, <1>4 DEF Core, SweepOK, mapperVars
<1> QED
  BY <1>3, <1>5, <1>6

LEMMA SweepDoneCore == Core /\ SweepDone => JournalOK' /\ MapperOK' /\ SweepOK'
<1> SUFFICES ASSUME Core, SweepDone PROVE JournalOK' /\ MapperOK' /\ SweepOK'
  OBVIOUS
<1> USE DEF SweepDone
<1>1. JournalOK'
  BY SameJournal DEF Core
<1> QED
  BY <1>1 DEF Core, MapperOK, JobsOK, SweepOK, mapperVars

LEMMA TornCore == Core /\ Torn => JournalOK' /\ MapperOK' /\ SweepOK'
<1> SUFFICES ASSUME Core, Torn PROVE JournalOK' /\ MapperOK' /\ SweepOK'
  OBVIOUS
<1>1. Note
  BY DEF Torn
<1>2. ASSUME NEW c \in Call, NEW p \in Port, MapTorn(c, p), UNCHANGED sweepVars
      PROVE  JournalOK' /\ MapperOK' /\ SweepOK'
  <2> USE <1>2 DEF MapTorn
  <2>1. JournalOK'
    BY <1>1, AppendKeeps DEF Core, Port
  <2>2. SweepOK'
    BY UpStays DEF NoCall
  <2> QED
    BY <2>1, <2>2 DEF Core, MapperOK, JobsOK, mapperVars
<1>3. ASSUME NEW c \in Call, NEW e \in job[c].todo, UnmapTorn(c, e), UNCHANGED sweepVars
      PROVE  JournalOK' /\ MapperOK' /\ SweepOK'
  <2> USE <1>3 DEF UnmapTorn
  <2>1. job[c] # Idle /\ JobsOK' /\ current' \in Port \cup {NoPort}
    BY AdvanceIs
  <2>2. JournalOK'
    BY <1>1, RetireKeeps DEF Core, Retires, RetireTorn
  <2>3. SweepOK'
    BY <2>1, Busy, UpStays
  <2>4. live' \in [Port -> {"none", "ours", "foreign"}]
    BY DeletedIs DEF Core
  <2> QED
    BY <2>1, <2>2, <2>3, <2>4 DEF Core, MapperOK
<1>4. ASSUME NEW i \in todo, SweepTorn(i)
      PROVE  JournalOK' /\ MapperOK' /\ SweepOK'
  <2> USE <1>4 DEF SweepTorn
  <2>1. i \in Known(entries)
    BY DEF Core, SweepOK
  <2>2. JournalOK' /\ Known(entries) \ {i} \subseteq Known(entries')
    BY <1>1, <2>1, RetireKeeps DEF Core, Retires, RetireTorn
  <2>3. live' \in [Port -> {"none", "ours", "foreign"}]
    BY DeletedIs DEF Core, MapperOK
  <2>4. MapperOK'
    BY <2>3 DEF Core, MapperOK, JobsOK, mapperVars
  <2>5. SweepOK'
    BY <2>2 DEF Core, SweepOK, mapperVars
  <2> QED
    BY <2>2, <2>4, <2>5
<1> QED
  BY <1>2, <1>3, <1>4 DEF Torn

LEMMA CoreStays == Core /\ [Next]_vars => Core'
<1> SUFFICES ASSUME Core, [Next]_vars PROVE Core'
  OBVIOUS
<1>1. CASE Whole /\ UNCHANGED cuts
  BY <1>1, MapperCore, WorldCore, CrashCore, RestartCore, SweepEntryCore, SweepDoneCore
     DEF Whole, Core, CutsOK
<1>2. CASE Torn
  <2>1. CutsOK'
    BY <1>2, MaxCutsIsNat DEF Core, CutsOK, Torn
  <2> QED
    BY <1>2, <2>1, TornCore DEF Core
<1>3. CASE UNCHANGED vars
  <2>1. JournalOK'
    BY <1>3, SameJournal DEF Core, vars
  <2> QED
    BY <1>3, <2>1 DEF vars, Core, MapperOK, JobsOK, SweepOK, CutsOK, mapperVars, sweepVars,
                      journalVars, Known
<1> QED
  BY <1>1, <1>2, <1>3 DEF Next

-----------------------------------------------------------------------------
(* While no write was cut short *)

\* append() adds a name.
LEMMA AppendNames ==
    ASSUME JournalOK, FileIsWhole, phase = "up", NEW r \in Resource, JournalAppend(r),
           phase' = "up"
    PROVE  /\ FileIsWhole' /\ Named(r)'
           /\ \A p \in Resource : Named(p) => Named(p)'
<1> DEFINE n == drawn + 1
<1>1. n \in Id
  BY MaxIdIsNat DEF JournalOK, JournalAppend, Id
<1>2. /\ entries' = [entries EXCEPT ![n] = Intended(r)]
      /\ stored' = [stored EXCEPT ![n] = Intended(r)] /\ tail' = NoTail
  BY DEF JournalAppend, AppendLine, FileIsWhole
<1>3. stored[n] = NoEntry
  BY <1>1 DEF JournalOK, Id
<1> HIDE DEF n
<1>4. /\ stored'[n] = Intended(r) /\ stored' = entries'
      /\ \A i \in Id : i # n => stored'[i] = stored[i]
  BY <1>1, <1>2 DEF JournalOK, FileIsWhole
<1>5. FileIsWhole'
  BY <1>2, <1>4, IntendedIsEntry DEF FileIsWhole
<1>6. Named(r)'
  BY <1>1, <1>4 DEF Named, Intended
<1>7. ASSUME NEW p \in Resource, Named(p) PROVE Named(p)'
  <2>1. PICK i \in Id : stored[i] = Intended(p)
    BY <1>7 DEF Named
  <2>2. i # n
    BY <2>1, <1>3, IntendedIsEntry, EntryIsSome
  <2> QED
    BY <2>1, <2>2, <1>4 DEF Named, Intended
<1> QED
  BY <1>5, <1>6, <1>7

\* removeEntry() takes one away.
LEMMA RemoveNames ==
    ASSUME JournalOK, FileIsWhole, phase # "down", NEW i \in Known(entries), RemoveEntry(i)
    PROVE  /\ FileIsWhole'
           /\ \A k \in Id : k # i => entries'[k] = entries[k]
           /\ entries'[i] = NoEntry
           /\ \A p \in Resource : p # entries[i].res /\ Named(p) => Named(p)'
<1>1. i \in Id /\ entries = stored /\ entries \in [Id -> Entry \cup {NoEntry}]
  BY DEF JournalOK, FileIsWhole, Known
<1>2. /\ entries' = [entries EXCEPT ![i] = NoEntry]
      /\ stored' = entries' /\ tail' = NoTail
  BY DEF RemoveEntry, Rewrite, Without
<1>3. /\ \A k \in Id : k # i => entries'[k] = entries[k]
      /\ entries'[i] = NoEntry
  BY <1>1, <1>2
<1>4. FileIsWhole'
  BY <1>1, <1>2, <1>3 DEF FileIsWhole
<1>5. ASSUME NEW p \in Resource, p # entries[i].res, Named(p) PROVE Named(p)'
  <2>1. PICK k \in Id : stored[k] = Intended(p)
    BY <1>5 DEF Named
  <2>2. k # i
    BY <2>1, <1>1, <1>5, IntendedIsEntry
  <2> QED
    BY <2>1, <2>2, <1>1, <1>2, <1>3 DEF Named, Intended
<1> QED
  BY <1>3, <1>4, <1>5

\* Steps that leave the journal alone.
LEMMA SameNames ==
    ASSUME FileIsWhole, UNCHANGED journalVars, phase' = phase
    PROVE  FileIsWhole' /\ \A p \in Resource : Named(p) => Named(p)'
BY DEF FileIsWhole, Named, Intended, journalVars

LEMMA NamedIsKnown ==
    ASSUME FileIsWhole, NEW p \in Resource, Named(p)
    PROVE  \E i \in Active(OnDisk) : OnDisk[i].res = p
<1>1. OnDisk = stored
  BY MarksHaveNoId DEF FileIsWhole, OnDisk
<1>2. PICK i \in Id : stored[i] = Intended(p)
  BY DEF Named
<1>3. stored[i] # NoEntry /\ stored[i].state = "intended" /\ stored[i].res = p
  BY <1>2, IntendedIsEntry, EntryIsSome
<1> QED
  BY <1>1, <1>3 DEF Active, Known

LEMMA MapCheckedWhole ==
    ASSUME Core, WholeOK, NEW c \in Call, NEW p \in Port, NoCall, MapChecked(c, p),
           UNCHANGED sweepVars
    PROVE  WholeOK'
<1> USE DEF MapChecked
<1>1. phase = "up" /\ phase' = "up" /\ \A d \in Call : job[d] = Idle
  BY DEF NoCall, sweepVars
<1>2. FileIsWhole' /\ Named(p)' /\ \A q \in Resource : Named(q) => Named(q)'
  BY <1>1, AppendNames DEF Core, WholeOK, Port
<1>3. \A d \in Call : job'[d] = IF d = c THEN [Idle EXCEPT !.at = "adding", !.port = p] ELSE Idle
  BY <1>1 DEF Core, MapperOK, JobsOK
<1>4. \A d \in Call : /\ job'[d].todo = {} /\ job'[d].at # "deleting"
                      /\ job'[d].at = "adding" => job'[d].port = p
  <2> DEFINE j == [Idle EXCEPT !.at = "adding", !.port = p]
  <2>1. j.todo = {} /\ j.at = "adding" /\ j.port = p
    BY AddingIs
  <2> HIDE DEF j
  <2>2. \A d \in Call : job'[d] = IF d = c THEN j ELSE Idle
    BY <1>3 DEF j
  <2> QED
    BY <2>1, <2>2, IdleIs
<1>5. NamesAll'
  <2>1. \A q \in Port : live'[q] = "ours" \/ renewing'[q] > 0 => Kept(q)'
    BY <1>2 DEF WholeOK, NamesAll, Kept, Port
  <2>2. \A d \in Call : job'[d].at = "adding" => Named(job[d].port)'
    BY <1>2, <1>4 DEF Named, Intended
  <2>3. current' # NoPort => Named(current)'
    <3> SUFFICES ASSUME current # NoPort PROVE Named(current)'
      OBVIOUS
    <3>1. PICK q \in Resource : q = current
      BY DEF Core, MapperOK, Port
    <3>2. Named(q)
      BY <1>1, <3>1, IdleIs DEF WholeOK, NamesAll, Unmapping
    <3>3. Named(q)'
      BY <1>2, <3>2
    <3> QED
      BY <3>1, <3>3 DEF Named, Intended
  <2> QED
    BY <1>1, <1>4, <2>1, <2>2, <2>3 DEF NamesAll, Unmapping
<1>6. ListIsRight' /\ SweepIsDue'
  BY <1>1, <1>4 DEF ListIsRight, SweepIsDue
<1> QED
  BY <1>2, <1>5, <1>6 DEF WholeOK

LEMMA MapEndsWhole ==
    ASSUME Core, WholeOK, NEW c \in Call, MapAdded(c) \/ MapThrows(c), UNCHANGED sweepVars
    PROVE  WholeOK'
<1> USE DEF MapAdded, MapThrows
<1>1. job[c] # Idle /\ job[c].at = "adding"
  BY IdleIs
<1>2. phase = "up" /\ phase' = "up" /\ \A d \in Call \ {c} : job[d] = Idle
  BY <1>1, Busy DEF sweepVars
<1>3. FileIsWhole' /\ UNCHANGED stored
  BY <1>2, SameNames DEF WholeOK, journalVars
<1>4. \A d \in Call : job'[d] = Idle
  BY <1>2 DEF Core, MapperOK, JobsOK
<1>5. Named(job[c].port)
  BY <1>1 DEF WholeOK, NamesAll
<1>6. \A q \in Port : live'[q] = "ours" => live[q] = "ours" \/ q = job[c].port
  BY AddedIs DEF Core
<1>7. \A q \in Port : live'[q] = "ours" \/ renewing'[q] > 0 => Kept(q)
  BY <1>5, <1>6 DEF WholeOK, NamesAll, Kept
<1>8. current' # NoPort => \E i \in Id : stored[i] = Intended(current')
  <2>1. CASE current' = job[c].port
    BY <1>5, <2>1 DEF Named
  <2>2. CASE current' = current
    <3>1. \A d \in Call : job[d].at # "deleting"
      BY <1>1, <1>2, IdleIs
    <3> QED
      BY <2>2, <3>1 DEF WholeOK, NamesAll, Unmapping, Named
  <2> QED
    BY <2>1, <2>2
<1>9. NamesAll'
  BY <1>2, <1>3, <1>4, <1>7, <1>8, IdleIs DEF NamesAll, Kept, Unmapping, Named, Intended
<1>10. ListIsRight' /\ SweepIsDue'
  BY <1>2, <1>4, IdleIs DEF ListIsRight, SweepIsDue
<1> QED
  BY <1>3, <1>9, <1>10 DEF WholeOK

LEMMA UnmapStartWhole ==
    ASSUME Core, WholeOK, NEW c \in Call, NoCall, UnmapStart(c), UNCHANGED sweepVars
    PROVE  WholeOK'
<1> USE DEF UnmapStart
<1>1. phase = "up" /\ phase' = "up" /\ \A d \in Call : job[d] = Idle
  BY DEF NoCall, sweepVars
<1>2. FileIsWhole' /\ UNCHANGED <<stored, entries, live>>
  BY <1>1, SameNames DEF WholeOK, journalVars
<1>3. SweepIsDue'
  BY <1>1 DEF SweepIsDue
<1>4. \A p \in Port : live'[p] = "ours" \/ renewing'[p] > 0 => Kept(p)'
  BY <1>2 DEF WholeOK, NamesAll, Kept, Named, Intended
<1>5. CASE Listed = {}
  <2>1. current' = NoPort /\ UNCHANGED job
    BY <1>5
  <2>2. NamesAll' /\ ListIsRight'
    BY <2>1, <1>1, <1>4, IdleIs DEF NamesAll, Unmapping, ListIsRight
  <2> QED
    BY <2>2, <1>2, <1>3 DEF WholeOK
<1>6. CASE Listed # {}
  <2> DEFINE j == [Idle EXCEPT !.at = "deleting", !.todo = Listed]
  <2>1. job' = [job EXCEPT ![c] = j]
    BY <1>6
  <2>2. j.at = "deleting" /\ j.todo = Listed /\ \A e \in Listed : e.port = entries[e.id].res
    BY ListedIs, DeletingIs DEF Core
  <2> HIDE DEF j
  <2>3. \A d \in Call : job'[d] = IF d = c THEN j ELSE Idle
    BY <2>1, <1>1 DEF Core, MapperOK, JobsOK
  <2>4. job'[c].at = "deleting" /\ \A d \in Call : job'[d].at # "adding"
    BY <2>2, <2>3, IdleIs
  <2>5. NamesAll'
    BY <1>4, <1>6, <2>4 DEF NamesAll, Unmapping
  <2>6. ListIsRight'
    BY <1>2, <2>2, <2>3, IdleIs DEF ListIsRight
  <2> QED
    BY <2>5, <2>6, <1>2, <1>3 DEF WholeOK
<1> QED
  BY <1>5, <1>6

LEMMA UnmapAnsweredWhole ==
    ASSUME Core, WholeOK, NEW c \in Call, NEW e \in job[c].todo,
           UnmapDeleted(c, e) \/ UnmapThrows(c, e), UNCHANGED sweepVars
    PROVE  WholeOK'
<1> USE DEF UnmapDeleted, UnmapThrows
<1>1. /\ job[c] # Idle /\ job[c].at = "deleting"
      /\ \A d \in Call : job'[d].todo \subseteq job[d].todo
      /\ \A d \in Call : job'[d].at = "adding" => job[d].at = "adding"
      /\ Unmapping /\ (~Unmapping' => current' = NoPort)
  BY AdvanceIs DEF Unmapping
<1>2. phase = "up" /\ phase' = "up" /\ \A d \in Call \ {c} : job[d] = Idle
  BY <1>1, Busy DEF sweepVars
<1>3. \A q \in Port : live'[q] = "ours" => live[q] = "ours" \/ FALSE
  BY DeletedIs DEF Core
<1>4. /\ FileIsWhole'
      /\ \A k \in Id : entries'[k] # NoEntry => entries'[k] = entries[k]
      /\ \A q \in Port : live'[q] = "ours" /\ Named(q) => Named(q)'
  <2>1. CASE UNCHANGED journalVars
    <3>1. FileIsWhole' /\ \A q \in Resource : Named(q) => Named(q)'
      BY <2>1, <1>2, SameNames DEF WholeOK
    <3> QED
      BY <2>1, <3>1 DEF journalVars, Port
  <2>2. CASE ~UNCHANGED journalVars
    <3>1. e.id \in Known(entries) /\ RemoveEntry(e.id) /\ live' = Deleted(e.port)
      BY <2>2
    <3>2. entries[e.id].res = e.port
      BY <3>1 DEF WholeOK, ListIsRight, Known
    <3>3. \A q \in Port : live'[q] = "ours" => q # entries[e.id].res
      BY <3>1, <3>2, DeletedIs DEF Core
    <3>4. /\ FileIsWhole'
          /\ \A k \in Id : k # e.id => entries'[k] = entries[k]
          /\ entries'[e.id] = NoEntry
          /\ \A p \in Resource : p # entries[e.id].res /\ Named(p) => Named(p)'
      BY <3>1, <1>2, RemoveNames DEF Core, WholeOK
    <3> QED
      BY <3>3, <3>4 DEF Port
  <2> QED
    BY <2>1, <2>2
<1>5. NamesAll'
  <2>1. \A q \in Port : live'[q] = "ours" \/ renewing'[q] > 0 => Kept(q)'
    BY <1>1, <1>3, <1>4 DEF WholeOK, NamesAll, Kept
  <2>2. \A d \in Call : job'[d].at # "adding"
    BY <1>1, <1>2, IdleIs
  <2> QED
    BY <1>1, <2>1, <2>2 DEF WholeOK, NamesAll
<1>6. ListIsRight'
  <2> SUFFICES ASSUME NEW d \in Call, NEW f \in job'[d].todo, entries'[f.id] # NoEntry
               PROVE  entries'[f.id].res = f.port
    BY DEF ListIsRight
  <2>1. f \in job[d].todo
    BY <1>1
  <2>2. f.id \in Id
    BY <2>1 DEF Core, MapperOK, JobsOK, Job
  <2> QED
    BY <2>1, <2>2, <1>4 DEF WholeOK, ListIsRight
<1>7. SweepIsDue'
  BY <1>2 DEF SweepIsDue
<1> QED
  BY <1>4, <1>5, <1>6, <1>7 DEF WholeOK

LEMMA TimerWhole ==
    ASSUME Core, WholeOK, TimerFires, phase = "up", UNCHANGED sweepVars
    PROVE  NamesAll'
<1> USE DEF TimerFires
<1>1. /\ UNCHANGED <<journalVars, current, job, live>> /\ (Unmapping' <=> Unmapping)
      /\ raced \subseteq raced'
  BY DEF Unmapping
<1>2. \A q \in Port : /\ renewing'[q] > 0 => renewing[q] > 0 \/ q = current
                      /\ q = current /\ Unmapping => q \in raced'
  BY DEF Core, MapperOK
<1>3. \A q \in Port : live'[q] = "ours" \/ renewing'[q] > 0 => Named(q) \/ q \in raced'
  <2> SUFFICES ASSUME NEW q \in Port, live[q] = "ours" \/ renewing'[q] > 0
               PROVE  Named(q) \/ q \in raced'
    BY <1>1
  <2>1. CASE live[q] = "ours" \/ renewing[q] > 0
    BY <2>1, <1>1 DEF WholeOK, NamesAll, Kept
  <2>2. CASE q = current
    BY <2>2, <1>2, NoneIsNoPort DEF WholeOK, NamesAll
  <2> QED
    BY <2>1, <2>2, <1>2
<1> QED
  BY <1>1, <1>2, <1>3 DEF WholeOK, NamesAll, Kept, Named, Intended, journalVars

LEMMA RenewalWhole ==
    ASSUME Core, WholeOK, NEW p \in Port, NEW ok \in BOOLEAN, RenewalAnswered(p, ok)
    PROVE  NamesAll'
<1> USE DEF RenewalAnswered
<1>1. /\ UNCHANGED <<journalVars, current, job, raced>> /\ (Unmapping' <=> Unmapping)
  BY DEF Unmapping
<1>2. \A q \in Port : /\ live'[q] = "ours" => live[q] = "ours" \/ q = p
                      /\ renewing'[q] > 0 => renewing[q] > 0
  BY AddedIs DEF Core, MapperOK
<1>3. \A q \in Port : live'[q] = "ours" \/ renewing'[q] > 0 => Kept(q)
  BY <1>2 DEF WholeOK, NamesAll
<1> QED
  BY <1>1, <1>2, <1>3 DEF WholeOK, NamesAll, Kept, Named, Intended, journalVars

LEMMA RenewWhole ==
    ASSUME Core, WholeOK, Renew, UNCHANGED sweepVars
    PROVE  WholeOK'
<1>1. phase = "up" /\ phase' = "up" /\ UNCHANGED <<journalVars, current, job>>
  BY RenewIsUp DEF sweepVars
<1>2. FileIsWhole' /\ UNCHANGED entries
  BY <1>1, SameNames DEF WholeOK, journalVars
<1>3. NamesAll'
  BY <1>1, TimerWhole, RenewalWhole DEF Renew
<1>4. ListIsRight' /\ SweepIsDue'
  BY <1>1, <1>2 DEF WholeOK, ListIsRight, SweepIsDue
<1> QED
  BY <1>2, <1>3, <1>4 DEF WholeOK

LEMMA MapperWhole == Core /\ WholeOK /\ MapperStep => WholeOK'
<1> SUFFICES ASSUME Core, WholeOK, MapperStep PROVE WholeOK'
  OBVIOUS
<1>1. UNCHANGED sweepVars
  BY DEF MapperStep
<1>2. CASE \E c \in Call : MapPort(c)
  BY <1>1, <1>2, MapCheckedWhole, MapEndsWhole DEF MapPort
<1>3. CASE \E c \in Call : UnmapPort(c)
  BY <1>1, <1>3, UnmapStartWhole, UnmapAnsweredWhole DEF UnmapPort
<1>4. CASE Renew
  BY <1>1, <1>4, RenewWhole
<1> QED
  BY <1>2, <1>3, <1>4 DEF MapperStep

LEMMA WorldWhole == Core /\ WholeOK /\ World => WholeOK'
<1> SUFFICES ASSUME Core, WholeOK, World PROVE WholeOK'
  OBVIOUS
<1>1. PICK p \in Port : LeaseExpires(p) \/ Foreign(p)
  BY DEF World
<1>2. /\ \A q \in Port : live'[q] = "ours" => live[q] = "ours"
      /\ UNCHANGED <<journalVars, mapperVars, raced>>
  BY <1>1, WorldLive DEF Core
<1>3. FileIsWhole' /\ UNCHANGED <<stored, entries, phase, spared, todo>>
  BY <1>2, SameNames DEF WholeOK, journalVars, World, sweepVars
<1>4. NamesAll'
  BY <1>2, <1>3 DEF WholeOK, NamesAll, Kept, Unmapping, Named, Intended, mapperVars
<1>5. ListIsRight' /\ SweepIsDue'
  BY <1>2, <1>3 DEF WholeOK, ListIsRight, SweepIsDue, mapperVars
<1> QED
  BY <1>3, <1>4, <1>5 DEF WholeOK

\* What a crash leaves in the router, the file names.
LEMMA CrashWhole == Core /\ WholeOK /\ Crash => WholeOK'
<1> SUFFICES ASSUME Core, WholeOK, Crash PROVE WholeOK'
  OBVIOUS
<1> USE DEF Crash
<1>1. \A q \in Port : live'[q] = "ours" => Kept(q)
  BY InFlightIs DEF WholeOK, NamesAll, Kept
<1>2. NamesAll'
  BY <1>1, LostIs, IdleIs DEF NamesAll, Kept, Unmapping, Named, Intended
<1>3. ListIsRight' /\ SweepIsDue'
  BY LostIs, IdleIs DEF ListIsRight, SweepIsDue
<1>4. FileIsWhole'
  BY DEF WholeOK, FileIsWhole
<1> QED
  BY <1>2, <1>3, <1>4 DEF WholeOK

\* The sweep gets every name that the file has.
LEMMA RestartWhole == Core /\ WholeOK /\ Restart => WholeOK'
<1> SUFFICES ASSUME Core, WholeOK, Restart PROVE WholeOK'
  OBVIOUS
<1> USE DEF Restart, LoadJournal
<1>1. OnDisk = stored /\ entries' = stored
  BY MarksHaveNoId DEF WholeOK, FileIsWhole, OnDisk
<1>2. FileIsWhole'
  BY <1>1 DEF WholeOK, FileIsWhole
<1>3. NamesAll'
  BY DEF WholeOK, NamesAll, Kept, Unmapping, Named, Intended, mapperVars
<1>4. \A c \in Call : job'[c] = Idle
  BY DEF Core, SweepOK, mapperVars
<1>5. ListIsRight'
  BY <1>4, IdleIs DEF ListIsRight
<1>6. SweepIsDue'
  <2> SUFFICES ASSUME NEW p \in Port, live[p] = "ours", p \notin raced
               PROVE  \E i \in todo' : entries'[i].res = p
    BY DEF SweepIsDue
  <2>1. \E i \in Active(OnDisk) : OnDisk[i].res = p
    BY NamedIsKnown DEF WholeOK, NamesAll, Kept, Port
  <2> QED
    BY <1>1, <2>1
<1> QED
  BY <1>2, <1>3, <1>5, <1>6 DEF WholeOK

LEMMA SweepEntryWhole == Core /\ WholeOK /\ SweepEntry => WholeOK'
<1> SUFFICES ASSUME Core, WholeOK, SweepEntry PROVE WholeOK'
  OBVIOUS
<1> USE DEF SweepEntry
<1>1. PICK i \in todo :
        /\ SweepGone(i) \/ SweepMismatch(i) \/ SweepRemoved(i) \/ SweepFailed(i)
        /\ todo' = todo \ {i}
  OBVIOUS
<1>2. i \in Known(entries) /\ entries[i].res \in Port /\ todo \subseteq Id
  BY RemovedIsEntry DEF Core, SweepOK, Known
<1>3. /\ phase = "sweep" /\ phase' = "sweep" /\ \A q \in Port : renewing'[q] = 0
      /\ current' = NoPort /\ \A c \in Call : job'[c] = Idle
  BY DEF Core, SweepOK, mapperVars
<1>4. \A c \in Call : job'[c].at = "idle" /\ job[c].at = "idle" /\ job'[c].todo = {}
  BY <1>3, IdleIs DEF mapperVars
<1> DEFINE p == entries[i].res
<1>5. /\ \A q \in Port : live'[q] = "ours" => live[q] = "ours"
      /\ live'[p] = "ours" => p \in spared' /\ ~RemoveEntry(i)
      /\ spared \subseteq spared'
  <2>1. CASE SweepGone(i) \/ SweepMismatch(i)
    BY <2>1 DEF SweepGone, SweepMismatch
  <2>2. CASE SweepRemoved(i)
    BY <2>2, <1>2, DeletedIs DEF Core, SweepRemoved
  <2>3. CASE SweepFailed(i)
    <3>1. entries'[i] # NoEntry
      BY <2>3, <1>2 DEF SweepFailed, journalVars, Known
    <3>2. ~RemoveEntry(i)
      BY <3>1, <1>2, <1>3, RemoveNames DEF Core, WholeOK
    <3> QED
      BY <2>3, <3>2 DEF SweepFailed
  <2> QED
    BY <1>1, <2>1, <2>2, <2>3
<1>6. /\ FileIsWhole'
      /\ \A k \in Id : k # i => entries'[k] = entries[k]
      /\ \A q \in Port : live'[q] = "ours" /\ Named(q) => Named(q)'
  <2>1. CASE RemoveEntry(i)
    BY <2>1, <1>2, <1>3, <1>5, RemoveNames DEF Core, WholeOK, Port
  <2>2. CASE UNCHANGED journalVars
    BY <2>2, <1>3, SameNames DEF WholeOK, journalVars, Port
  <2> QED
    BY <1>1, <2>1, <2>2 DEF SweepGone, SweepMismatch, SweepRemoved, SweepFailed
<1>7. NamesAll'
  <2>1. \A q \in Port : live'[q] = "ours" => Kept(q)'
    BY <1>5, <1>6 DEF WholeOK, NamesAll, Kept
  <2> QED
    BY <1>3, <1>4, <2>1 DEF NamesAll, Unmapping
<1>8. ListIsRight'
  BY <1>4 DEF ListIsRight
<1>9. SweepIsDue'
  <2> SUFFICES ASSUME NEW q \in Port, live'[q] = "ours", q \notin spared' \cup raced
               PROVE  \E k \in todo' : entries'[k].res = q
    BY DEF SweepIsDue
  <2>1. PICK k \in todo : entries[k].res = q
    BY <1>3, <1>5 DEF WholeOK, SweepIsDue
  <2>2. k # i
    BY <2>1, <1>5
  <2> QED
    BY <2>1, <2>2, <1>1, <1>2, <1>6
<1> QED
  BY <1>6, <1>7, <1>8, <1>9 DEF WholeOK

LEMMA SweepDoneWhole == Core /\ WholeOK /\ SweepDone => WholeOK'
<1> SUFFICES ASSUME Core, WholeOK, SweepDone PROVE WholeOK'
  OBVIOUS
<1> USE DEF SweepDone
<1>1. FileIsWhole'
  BY DEF WholeOK, FileIsWhole, journalVars
<1>2. NamesAll' /\ ListIsRight'
  BY DEF WholeOK, NamesAll, Kept, Unmapping, ListIsRight, Named, Intended, journalVars,
         mapperVars
<1> QED
  BY <1>1, <1>2 DEF WholeOK, SweepIsDue

-----------------------------------------------------------------------------
(* The theorems *)

LEMMA Initially == Init => IInv
<1> SUFFICES ASSUME Init PROVE IInv
  OBVIOUS
<1> USE DEF Init, JournalInit, MapperInit
<1>1. Empty \in [Id -> Entry \cup {NoEntry}] /\ \A i \in Id : Empty[i] = NoEntry
  BY DEF Empty
<1>2. tail.id \notin Id
  BY MarksHaveNoId
<1>3. JournalOK
  BY <1>1, <1>2, MaxIdIsNat DEF JournalOK
<1>4. \A c \in Call : job[c] = Idle
  OBVIOUS
<1>5. MapperOK
  BY <1>4, IdleIs DEF MapperOK, JobsOK
<1>6. SweepOK /\ CutsOK
  BY <1>4, MaxCutsIsNat DEF SweepOK, CutsOK
<1>7. FileIsWhole
  BY <1>1 DEF FileIsWhole
<1>8. NamesAll /\ ListIsRight /\ SweepIsDue
  BY <1>4, IdleIs DEF NamesAll, Unmapping, ListIsRight, SweepIsDue
<1> QED
  BY <1>3, <1>5, <1>6, <1>7, <1>8 DEF IInv, Core, WholeOK

LEMMA NothingChanges ==
    ASSUME WholeOK, UNCHANGED vars
    PROVE  WholeOK'
<1> USE DEF vars, journalVars, mapperVars, sweepVars
<1>1. FileIsWhole'
  BY DEF WholeOK, FileIsWhole
<1>2. NamesAll' /\ ListIsRight' /\ SweepIsDue'
  BY DEF WholeOK, NamesAll, Kept, Unmapping, ListIsRight, SweepIsDue, Named, Intended
<1> QED
  BY <1>1, <1>2 DEF WholeOK

\* No request, crash, sweep or cut write breaks the invariant.
THEOREM Inductive == IInv /\ [Next]_vars => IInv'
<1> SUFFICES ASSUME IInv, [Next]_vars PROVE IInv'
  OBVIOUS
<1>1. Core'
  BY CoreStays DEF IInv
<1>2. ASSUME cuts' = 0 PROVE WholeOK'
  <2>1. ~Torn
    BY <1>2 DEF IInv, Core, CutsOK, Torn
  <2>2. cuts = 0
    BY <1>2, <2>1 DEF Next, vars
  <2>3. Core /\ WholeOK
    BY <2>2 DEF IInv
  <2>4. CASE Whole
    BY <2>3, <2>4, MapperWhole, WorldWhole, CrashWhole, RestartWhole, SweepEntryWhole,
       SweepDoneWhole DEF Whole
  <2>5. CASE UNCHANGED vars
    BY <2>3, <2>5, NothingChanges
  <2> QED
    BY <2>1, <2>4, <2>5 DEF Next
<1> QED
  BY <1>1, <1>2 DEF IInv

\* The invariant holds in every state of mapper, journal, router and sweep.
THEOREM InvariantCorrect == Spec => []IInv
<1>1. Init => IInv
  BY Initially
<1>2. IInv /\ [Next]_vars => IInv'
  BY Inductive
<1> QED
  BY <1>1, <1>2, PTL DEF Spec

\* The variables keep their types.
THEOREM TypeCorrect == Spec => []TypeOK
<1>1. IInv => TypeOK
  BY DEF IInv, Core, JournalOK, MapperOK, JobsOK, SweepOK, CutsOK, TypeOK
<1> QED
  BY <1>1, InvariantCorrect, PTL

\* With whole writes the file names every mapping of ours, crash or not, and
\* with renewals that are sent and answered whenever they like; only a port
\* whose renewal met an unmapPort() may be without an entry.
THEOREM NamesCorrect == Spec => []JournalNamesMappings
<1>1. IInv => JournalNamesMappings
  BY NamedIsKnown
     DEF IInv, WholeOK, NamesAll, Kept, JournalNamesMappings, MappingsAreJournaled, Port
<1> QED
  BY <1>1, InvariantCorrect, PTL

\* With whole writes load() reads back what the program had in memory.
THEOREM FileCorrect == Spec => []FileIsMap
<1>1. IInv => FileIsMap
  <2> SUFFICES ASSUME IInv, cuts = 0, phase # "down" PROVE OnDisk = entries
    BY DEF FileIsMap
  <2>1. tail = NoTail /\ stored = entries
    BY DEF IInv, WholeOK, FileIsWhole
  <2> QED
    BY <2>1, MarksHaveNoId DEF OnDisk
<1> QED
  BY <1>1, InvariantCorrect, PTL

\* An entry that was removed is never read again, however writes are cut.
THEOREM ResurrectionCorrect == Spec => []NoResurrection
<1>1. IInv => NoResurrection
  <2> SUFFICES ASSUME IInv, NEW i \in removed, i \in Known(OnDisk) PROVE FALSE
    BY DEF NoResurrection
  <2>1. i \in Id /\ OnDisk[i] # NoEntry
    BY DEF Known
  <2> QED
    BY <2>1, DiskIs DEF IInv, Core, JournalOK
<1> QED
  BY <1>1, InvariantCorrect, PTL

\* At the end of a sweep the router holds none of ours but those it gave up on
\* and those that a renewal brought back during an unmapPort().
THEOREM SweepCorrect == Spec => SweepLeavesNone
<1>1. IInv /\ [Next]_vars =>
        [SweepDone /\ cuts = 0 =>
            \A p \in Port : live[p] = "ours" => p \in spared \cup raced]_vars
  BY DEF IInv, WholeOK, SweepIsDue, SweepDone
<1> QED
  BY <1>1, InvariantCorrect, PTL DEF Spec, SweepLeavesNone
=============================================================================
