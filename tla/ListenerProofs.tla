--------------------------- MODULE ListenerProofs ---------------------------
(***************************************************************************)
(* Proofs about Listener, for calls that are made one after the other,     *)
(* with renewals that are sent and answered at any time: any ports,        *)
(* addresses and callers, any number of calls.                             *)
(***************************************************************************)
EXTENDS Listener, TLAPS

-----------------------------------------------------------------------------
(* The invariant *)

\* Writes are whole here, and only append() and removeEntry() leave their
\* mark: the file is the map, and it has active entries only.
JournalOK ==
    /\ entries \in [Id -> Entry \cup {NoEntry}]
    /\ \A i \in Id : entries[i] # NoEntry => entries[i].state = "intended" /\ i <= drawn
    /\ stored = entries /\ tail = NoTail
    /\ drawn \in 0 .. MaxId

MapperTypes ==
    /\ current \in Port \cup {NoPort} /\ renewing \in [Port -> Nat]
    /\ handle \in BOOLEAN /\ loose \in Nat
    /\ live \in [Port -> {"none", "ours", "foreign"}] /\ raced \subseteq Port
    /\ job \in [Call -> Job]
    /\ \A c \in Call : job[c].at = "idle" => job[c] = Idle

Named(p) == \E i \in Id : entries[i] = Intended(p)

\* The file names what is in the router, and what may get there, but for the
\* ports whose renewal met an unmapPort(); and while one is under way, every
\* renewal has met it.
Kept(p) == Named(p) \/ p \in raced
NamesAll ==
    /\ \A p \in Port : live[p] = "ours" \/ renewing[p] > 0 => Kept(p)
    /\ \A c \in Call : job[c].at = "adding" => Named(job[c].port)
    /\ current # NoPort /\ ~Unmapping => Named(current)
    /\ Unmapping => \A p \in Port : renewing[p] > 0 => p \in raced

ListIsRight ==
    \A c \in Call : \A e \in job[c].todo :
        entries[e.id] # NoEntry => entries[e.id].res = e.port

MapperOK == JournalOK /\ MapperTypes /\ NamesAll /\ ListIsRight

Place == {"idle", "mapping", "verifying", "rollback", "disabling"}

ListenerTypes ==
    /\ status \in Status
    /\ ask \in [Call -> [at : Place, ep : Endpoint \cup {NoEndpoint}]]
    /\ extIP \in Ip /\ confirmed \in Endpoint \cup {NoEndpoint}

\* One call at a time.
OneAsks ==
    \A c \in Call : ask[c].at # "idle" => \A d \in Call \ {c} : ask[d].at = "idle"

\* Where the request of a call stands, and what the status says meanwhile.
PlaceOK(c) ==
    /\ job[c].at = "adding" =>
          ask[c].at = "mapping" /\ ask[c].ep \in Endpoint /\ job[c].port = ask[c].ep[2]
    /\ job[c].at = "deleting" =>
          ask[c].at \in {"rollback", "disabling"} /\ current # NoPort
    /\ ask[c].at = "mapping" => status.state = "mapping"
    /\ ask[c].at = "verifying" =>
          /\ status.state = "verifying" /\ ask[c].ep \in Endpoint
          /\ status.ep = ask[c].ep /\ current = ask[c].ep[2]
    /\ ask[c].at = "disabling" => ~handle

Silent == \A c \in Call : ask[c].at = "idle"

\* What is left when the last call was answered; a renewal does not matter.  In
\* the state "verifying" its verifier has thrown.
RestOK ==
    Silent =>
        /\ status.advertised /\ status.state # "verifying" =>
              /\ status.state = "active" /\ status.verified
              /\ status.ep = confirmed /\ current = status.ep[2]
        /\ status.state = "disabled" => current = NoPort /\ ~handle

ListenerOK == ListenerTypes /\ OneAsks /\ (\A c \in Call : PlaceOK(c)) /\ RestOK

IInv == MapperOK /\ ListenerOK

-----------------------------------------------------------------------------
(* The operators *)

LEMMA EntryIsSome ==
    ASSUME NEW e \in Entry
    PROVE  e # NoEntry
BY DEF Entry, NoEntry

LEMMA IntendedIsEntry ==
    ASSUME NEW p \in Resource
    PROVE  Intended(p) \in Entry /\ Intended(p).state = "intended" /\ Intended(p).res = p
BY DEF Intended, Entry

LEMMA KnownIsEntry ==
    ASSUME JournalOK, NEW i \in Known(entries)
    PROVE  i \in Id /\ entries[i] \in Entry /\ entries[i].res \in Port
<1>1. i \in Id /\ entries[i] \in Entry
  BY DEF JournalOK, Known
<1> QED
  BY <1>1 DEF Entry, Port

LEMMA AddedIs ==
    ASSUME MapperTypes, NEW p
    PROVE  /\ Added(p) \in [Port -> {"none", "ours", "foreign"}]
           /\ \A q \in Port : Added(p)[q] = "ours" => live[q] = "ours" \/ q = p
BY DEF MapperTypes, Added

LEMMA DeletedIs ==
    ASSUME MapperTypes, NEW p
    PROVE  /\ Deleted(p) \in [Port -> {"none", "ours", "foreign"}]
           /\ \A q \in Port : Deleted(p)[q] = "ours" => live[q] = "ours" /\ q # p
BY DEF MapperTypes, Deleted

LEMMA IdleIs == Idle \in Job /\ Idle.at = "idle" /\ Idle.port = NoPort /\ Idle.todo = {}
BY DEF Idle, Job

LEMMA AddingIs ==
    ASSUME NEW p \in Port
    PROVE  LET j == [Idle EXCEPT !.at = "adding", !.port = p]
           IN  j \in Job /\ j.at = "adding" /\ j.port = p /\ j.todo = {}
<1> DEFINE j == [Idle EXCEPT !.at = "adding", !.port = p]
<1>1. j.at = "adding" /\ j.port = p /\ j.todo = {}
  BY DEF Idle
<1>2. j \in Job
  BY DEF Idle, Job
<1> QED
  BY <1>1, <1>2

LEMMA DeletingIs ==
    ASSUME NEW t \in SUBSET [id : Id, port : Port]
    PROVE  LET j == [Idle EXCEPT !.at = "deleting", !.todo = t]
           IN  j \in Job /\ j.at = "deleting" /\ j.todo = t
<1> DEFINE j == [Idle EXCEPT !.at = "deleting", !.todo = t]
<1>1. j.at = "deleting" /\ j.todo = t
  BY DEF Idle
<1>2. j \in Job
  BY DEF Idle, Job
<1> QED
  BY <1>1, <1>2

LEMMA ListedIs ==
    ASSUME JournalOK
    PROVE  /\ Listed \in SUBSET [id : Id, port : Port]
           /\ \A e \in Listed : e.port = entries[e.id].res
<1>1. ASSUME NEW i \in Known(entries)
      PROVE  [id |-> i, port |-> entries[i].res] \in [id : Id, port : Port]
  BY KnownIsEntry
<1> QED
  BY <1>1 DEF Listed

LEMMA AppendIs ==
    ASSUME JournalOK, NEW r \in Resource, JournalAppend(r)
    PROVE  /\ JournalOK' /\ Named(r)'
           /\ \A p \in Resource : Named(p) => Named(p)'
<1> DEFINE n == drawn + 1
<1>1. n \in Id /\ drawn \in 0 .. MaxId /\ drawn' = n /\ drawn' \in 0 .. MaxId
  BY MaxIdIsNat DEF JournalOK, JournalAppend, Id
<1>2. /\ entries' = [entries EXCEPT ![n] = Intended(r)]
      /\ stored' = [stored EXCEPT ![n] = Intended(r)] /\ tail' = NoTail
  BY DEF JournalAppend, AppendLine, JournalOK
<1>3. entries[n] = NoEntry
  BY <1>1 DEF JournalOK, Id
<1>4. \A i \in Id : i <= drawn => i <= n
  BY <1>1 DEF Id
<1>5. n <= n
  BY <1>1 DEF Id
<1> HIDE DEF n
<1>6. /\ entries'[n] = Intended(r) /\ stored' = entries'
      /\ entries' \in [Id -> Entry \cup {NoEntry}]
      /\ \A i \in Id : i # n => entries'[i] = entries[i]
  BY <1>1, <1>2, IntendedIsEntry DEF JournalOK
<1>7. JournalOK'
  BY <1>1, <1>2, <1>4, <1>5, <1>6, IntendedIsEntry DEF JournalOK
<1>8. Named(r)'
  BY <1>1, <1>6 DEF Named, Intended
<1>9. ASSUME NEW p \in Resource, Named(p) PROVE Named(p)'
  <2>1. PICK i \in Id : entries[i] = Intended(p)
    BY <1>9 DEF Named
  <2>2. i # n
    BY <2>1, <1>3, IntendedIsEntry, EntryIsSome
  <2> QED
    BY <2>1, <2>2, <1>6 DEF Named, Intended
<1> QED
  BY <1>7, <1>8, <1>9

LEMMA RemoveIs ==
    ASSUME JournalOK, NEW i \in Known(entries), RemoveEntry(i)
    PROVE  /\ JournalOK'
           /\ \A k \in Id : entries'[k] # NoEntry => entries'[k] = entries[k]
           /\ \A p \in Resource : p # entries[i].res /\ Named(p) => Named(p)'
<1>1. i \in Id /\ entries \in [Id -> Entry \cup {NoEntry}]
  BY DEF JournalOK, Known
<1>2. /\ entries' = [entries EXCEPT ![i] = NoEntry]
      /\ stored' = entries' /\ tail' = NoTail /\ drawn' = drawn
  BY DEF RemoveEntry, Rewrite, Without
<1>3. /\ \A k \in Id : k # i => entries'[k] = entries[k]
      /\ entries'[i] = NoEntry
  BY <1>1, <1>2
<1>4. JournalOK'
  BY <1>1, <1>2, <1>3 DEF JournalOK
<1>5. ASSUME NEW p \in Resource, p # entries[i].res, Named(p) PROVE Named(p)'
  <2>1. PICK k \in Id : entries[k] = Intended(p)
    BY <1>5 DEF Named
  <2>2. k # i
    BY <2>1, <1>5, IntendedIsEntry
  <2> QED
    BY <2>1, <2>2, <1>3 DEF Named, Intended
<1> QED
  BY <1>3, <1>4, <1>5

-----------------------------------------------------------------------------
(* What the mapper does for a call that is the only one *)

Alone(c) == \A d \in Call \ {c} : job[d] = Idle

LEMMA SameJournal ==
    ASSUME JournalOK, UNCHANGED journalVars
    PROVE  JournalOK' /\ \A p \in Resource : Named(p) => Named(p)'
BY DEF JournalOK, Named, Intended, journalVars

LEMMA MapCheckedIs ==
    ASSUME MapperOK, NEW c \in Call, NEW p \in Port, Alone(c), MapChecked(c, p)
    PROVE  /\ MapperOK'
           /\ job'[c].at = "adding" /\ job'[c].port = p
           /\ \A d \in Call \ {c} : job'[d] = Idle
<1> USE DEF MapChecked
<1>1. JournalOK' /\ Named(p)' /\ \A q \in Resource : Named(q) => Named(q)'
  BY AppendIs DEF MapperOK, Port
<1> DEFINE j == [Idle EXCEPT !.at = "adding", !.port = p]
<1>2. j \in Job /\ j.todo = {} /\ j.at = "adding" /\ j.port = p /\ job' = [job EXCEPT ![c] = j]
  BY AddingIs
<1> HIDE DEF j
<1>3. /\ \A d \in Call : job'[d] = IF d = c THEN j ELSE Idle
      /\ job' \in [Call -> Job] /\ job[c] = Idle
  BY <1>2 DEF Alone, MapperOK, MapperTypes
<1>4. MapperTypes'
  BY <1>2, <1>3, IdleIs DEF MapperOK, MapperTypes
<1>5. ListIsRight'
  BY <1>2, <1>3, IdleIs DEF ListIsRight
<1>6. NamesAll'
  <2>1. \A q \in Port : live'[q] = "ours" \/ renewing'[q] > 0 => Kept(q)'
    BY <1>1 DEF MapperOK, NamesAll, Kept, Port
  <2>2. \A d \in Call : job'[d].at = "adding" => job'[d].port = p
    BY <1>2, <1>3, IdleIs
  <2>3. \A d \in Call : job'[d].at = "adding" => Named(job[d].port)'
    BY <1>1, <2>2 DEF Named, Intended
  <2>4. current' # NoPort => Named(current)'
    <3> SUFFICES ASSUME current # NoPort PROVE Named(current)'
      OBVIOUS
    <3>1. \A d \in Call : job[d].at # "deleting"
      BY <1>3, IdleIs DEF Alone
    <3>2. PICK q \in Resource : q = current
      BY DEF MapperOK, MapperTypes, Port
    <3>3. Named(q)
      BY <3>1, <3>2 DEF MapperOK, NamesAll, Unmapping
    <3>4. Named(q)'
      BY <1>1, <3>3
    <3> QED
      BY <3>2, <3>4 DEF Named, Intended
  <2>5. ~Unmapping'
    BY <1>2, <1>3, IdleIs DEF Unmapping
  <2> QED
    BY <2>1, <2>3, <2>4, <2>5 DEF NamesAll
<1> QED
  BY <1>1, <1>2, <1>3, <1>4, <1>5, <1>6, IdleIs DEF MapperOK

LEMMA MapEndsIs ==
    ASSUME MapperOK, NEW c \in Call, Alone(c), MapAdded(c) \/ MapThrows(c)
    PROVE  MapperOK' /\ \A d \in Call : job'[d] = Idle
<1> USE DEF MapAdded, MapThrows
<1>1. JournalOK' /\ entries' = entries
  BY SameJournal DEF MapperOK, journalVars
<1>2. job[c].at = "adding" /\ job[c].port \in Port \cup {NoPort}
  BY DEF MapperOK, MapperTypes, Job
<1>3. \A d \in Call : job'[d] = Idle
  BY DEF Alone, MapperOK, MapperTypes
<1>4. job' \in [Call -> Job]
  BY IdleIs DEF MapperOK, MapperTypes
<1>5. MapperTypes'
  <2>1. live' \in [Port -> {"none", "ours", "foreign"}]
    BY AddedIs DEF MapperOK, MapperTypes
  <2>2. current' \in Port \cup {NoPort} /\ handle' \in BOOLEAN
    BY <1>2 DEF MapperOK, MapperTypes
  <2>3. loose' \in Nat
    BY DEF MapperOK, MapperTypes
  <2> QED
    BY <1>3, <1>4, <2>1, <2>2, <2>3 DEF MapperOK, MapperTypes
<1>6. \A q \in Port : live'[q] = "ours" \/ renewing'[q] > 0 => Kept(q)
  BY <1>2, AddedIs DEF MapperOK, NamesAll, Kept
<1>7. current' # NoPort => \E i \in Id : entries[i] = Intended(current')
  <2>1. CASE current' = job[c].port
    BY <1>2, <2>1 DEF MapperOK, NamesAll, Named
  <2>2. CASE current' = current
    <3>1. \A d \in Call : job[d].at # "deleting"
      BY <1>2, IdleIs DEF Alone
    <3> QED
      BY <2>2, <3>1 DEF MapperOK, NamesAll, Unmapping, Named
  <2> QED
    BY <2>1, <2>2
<1>8. NamesAll' /\ ListIsRight'
  BY <1>1, <1>3, <1>6, <1>7, IdleIs
     DEF NamesAll, ListIsRight, Kept, Unmapping, Named, Intended
<1> QED
  BY <1>1, <1>3, <1>5, <1>8 DEF MapperOK

\* unmapPort() up to its first await; it may be over by then.
LEMMA UnmapBeginsIs ==
    ASSUME MapperOK, NEW c \in Call, Alone(c), UnmapStart(c) \/ UnmapNothing(c)
    PROVE  /\ MapperOK' /\ handle' = FALSE
           /\ job'[c].at \in {"idle", "deleting"}
           /\ job'[c] = Idle => current' = NoPort
           /\ job'[c].at = "deleting" => current' # NoPort
           /\ \A d \in Call \ {c} : job'[d] = Idle
<1> USE DEF UnmapStart, UnmapNothing
<1>1. JournalOK' /\ entries' = entries /\ live' = live
  BY SameJournal DEF MapperOK, journalVars
<1>2. handle' = FALSE /\ \A d \in Call : job[d] = Idle
  BY DEF Alone
<1>3. \A p \in Port : live'[p] = "ours" \/ renewing'[p] > 0 => Kept(p)'
  BY <1>1 DEF MapperOK, NamesAll, Kept, Named, Intended
<1>4. CASE job' = job /\ current' = NoPort
  <2>1. MapperTypes'
    BY <1>2, <1>4 DEF MapperOK, MapperTypes
  <2>2. NamesAll' /\ ListIsRight'
    BY <1>2, <1>3, <1>4, IdleIs DEF NamesAll, Unmapping, ListIsRight
  <2> QED
    BY <1>1, <1>2, <1>4, <2>1, <2>2, IdleIs DEF MapperOK
<1>5. CASE ~(job' = job /\ current' = NoPort)
  <2> DEFINE j == [Idle EXCEPT !.at = "deleting", !.todo = Listed]
  <2>1. job' = [job EXCEPT ![c] = j] /\ current' = current /\ current # NoPort
    BY <1>5
  <2>2. /\ j \in Job /\ j.at = "deleting" /\ j.todo = Listed
        /\ \A e \in Listed : e.port = entries[e.id].res
    BY ListedIs, DeletingIs DEF MapperOK
  <2> HIDE DEF j
  <2>3. job' \in [Call -> Job] /\ \A d \in Call : job'[d] = IF d = c THEN j ELSE Idle
    BY <2>1, <2>2, <1>2 DEF MapperOK, MapperTypes
  <2>4. MapperTypes'
    BY <1>1, <1>2, <2>1, <2>2, <2>3, IdleIs DEF MapperOK, MapperTypes
  <2>5. job'[c].at = "deleting" /\ \A d \in Call : job'[d].at # "adding"
    BY <2>2, <2>3, IdleIs
  <2>6. NamesAll' /\ ListIsRight'
    BY <1>1, <1>2, <1>3, <1>5, <2>2, <2>3, <2>5, IdleIs DEF NamesAll, Unmapping, ListIsRight
  <2> QED
    BY <1>1, <1>2, <2>1, <2>3, <2>4, <2>5, <2>6, IdleIs DEF MapperOK
<1> QED
  BY <1>4, <1>5

LEMMA AdvanceIs ==
    ASSUME MapperTypes, NEW c \in Call, NEW e \in job[c].todo, job[c].at = "deleting",
           Advance(c, e)
    PROVE  /\ job' \in [Call -> Job] /\ current' \in Port \cup {NoPort}
           /\ \A d \in Call : job'[d].todo \subseteq job[d].todo
           /\ \A d \in Call \ {c} : job'[d] = job[d]
           /\ \/ job'[c] = Idle /\ current' = NoPort
              \/ job'[c].at = "deleting" /\ current' = current
<1>1. job \in [Call -> Job] /\ job[c] \in Job /\ current \in Port \cup {NoPort}
  BY DEF MapperTypes
<1>2. CASE job[c].todo = {e}
  <2>1. current' = NoPort /\ job' = [job EXCEPT ![c] = Idle]
    BY <1>2 DEF Advance
  <2> QED
    BY <1>1, <2>1, IdleIs
<1>3. CASE job[c].todo # {e}
  <2> DEFINE j == [job[c] EXCEPT !.todo = job[c].todo \ {e}]
  <2>1. current' = current /\ job' = [job EXCEPT ![c] = j]
    BY <1>1, <1>3 DEF Advance
  <2>2. j \in Job /\ j.at = "deleting" /\ j.todo = job[c].todo \ {e}
    BY <1>1 DEF Job
  <2> HIDE DEF j
  <2>3. \A d \in Call : job'[d] = IF d = c THEN j ELSE job[d]
    BY <1>1, <2>1
  <2> QED
    BY <1>1, <2>1, <2>2, <2>3
<1> QED
  BY <1>2, <1>3

LEMMA UnmapAnsweredIs ==
    ASSUME MapperOK, NEW c \in Call, NEW e \in job[c].todo, Alone(c),
           UnmapDeleted(c, e) \/ UnmapThrows(c, e)
    PROVE  /\ MapperOK' /\ handle' = handle
           /\ job[c].at = "deleting" /\ job'[c].at \in {"idle", "deleting"}
           /\ job'[c] = Idle => current' = NoPort
           /\ job'[c].at = "deleting" => current' = current
           /\ \A d \in Call \ {c} : job'[d] = Idle
<1> USE DEF UnmapDeleted, UnmapThrows
<1>1. /\ job' \in [Call -> Job] /\ current' \in Port \cup {NoPort}
      /\ \A d \in Call : job'[d].todo \subseteq job[d].todo
      /\ \A d \in Call \ {c} : job'[d] = job[d]
      /\ \/ job'[c] = Idle /\ current' = NoPort
         \/ job'[c].at = "deleting" /\ current' = current
  BY AdvanceIs DEF MapperOK
<1>2. Unmapping /\ \A d \in Call \ {c} : job[d] = Idle
  BY DEF Alone, Unmapping
<1>3. /\ JournalOK'
      /\ \A k \in Id : entries'[k] # NoEntry => entries'[k] = entries[k]
      /\ \A q \in Port : live'[q] = "ours" /\ Named(q) => Named(q)'
  <2>1. CASE UNCHANGED journalVars
    BY <2>1, SameJournal DEF MapperOK, journalVars, Port
  <2>2. CASE ~UNCHANGED journalVars
    <3>1. e.id \in Known(entries) /\ RemoveEntry(e.id) /\ live' = Deleted(e.port)
      BY <2>2
    <3>2. entries[e.id].res = e.port
      BY <3>1 DEF MapperOK, ListIsRight, Known
    <3>3. \A q \in Port : live'[q] = "ours" => q # entries[e.id].res
      BY <3>1, <3>2, DeletedIs DEF MapperOK
    <3> QED
      BY <3>1, <3>3, RemoveIs DEF MapperOK, Port
  <2> QED
    BY <2>1, <2>2
<1>4. MapperTypes'
  BY <1>1, <1>2, IdleIs, DeletedIs DEF MapperOK, MapperTypes
<1>5. NamesAll'
  <2>1. \A q \in Port : live'[q] = "ours" => live[q] = "ours"
    BY DeletedIs DEF MapperOK
  <2>2. \A q \in Port : live'[q] = "ours" \/ renewing'[q] > 0 => Kept(q)'
    BY <1>2, <1>3, <2>1 DEF MapperOK, NamesAll, Kept
  <2>3. \A d \in Call : job'[d].at # "adding"
    BY <1>1, <1>2, IdleIs
  <2>4. ~Unmapping' => current' = NoPort
    BY <1>1 DEF Unmapping
  <2> QED
    BY <1>2, <2>2, <2>3, <2>4 DEF MapperOK, NamesAll
<1>6. ListIsRight'
  <2> SUFFICES ASSUME NEW d \in Call, NEW f \in job'[d].todo, entries'[f.id] # NoEntry
               PROVE  entries'[f.id].res = f.port
    BY DEF ListIsRight
  <2>1. f \in job[d].todo
    BY <1>1
  <2>2. f.id \in Id
    BY <2>1 DEF MapperOK, MapperTypes, Job
  <2> QED
    BY <2>1, <2>2, <1>3 DEF MapperOK, ListIsRight
<1> QED
  BY <1>1, <1>2, <1>3, <1>4, <1>5, <1>6, IdleIs DEF MapperOK

LEMMA SameMapper ==
    ASSUME MapperOK, UNCHANGED <<journalVars, mapperVars, live, raced>>
    PROVE  MapperOK'
<1>1. JournalOK'
  BY SameJournal DEF MapperOK
<1> QED
  BY <1>1 DEF MapperOK, MapperTypes, NamesAll, ListIsRight, Kept, Unmapping, Named, Intended,
              journalVars, mapperVars

\* A timer fires, a renewal is answered, or the router changes by itself: a
\* call that is under way does not notice.
LEMMA FireIs ==
    ASSUME MapperOK, TimerFires
    PROVE  MapperOK' /\ (handle' => handle) /\ UNCHANGED <<current, job>>
<1> USE DEF TimerFires
<1>1. JournalOK' /\ entries' = entries /\ (Unmapping' <=> Unmapping)
  BY SameJournal DEF MapperOK, journalVars, Unmapping
<1>2. handle' \in BOOLEAN /\ (handle' => handle)
  <2>1. handle \in BOOLEAN
    BY DEF MapperOK, MapperTypes
  <2>2. CASE handle' = FALSE
    BY <2>2
  <2>3. CASE handle' = handle
    BY <2>1, <2>3
  <2> QED
    BY <2>2, <2>3
<1>3. loose \in Nat /\ (loose' = loose \/ (loose > 0 /\ loose' = loose - 1))
  BY DEF MapperOK, MapperTypes
<1>4. loose' \in Nat
  BY <1>3
<1>5. renewing' \in [Port -> Nat] /\ raced' \subseteq Port /\ raced \subseteq raced'
  BY DEF MapperOK, MapperTypes
<1>6. MapperTypes'
  BY <1>2, <1>4, <1>5 DEF MapperOK, MapperTypes
<1>7. \A q \in Port : /\ renewing'[q] > 0 => renewing[q] > 0 \/ q = current
                      /\ q = current /\ Unmapping => q \in raced'
  BY DEF MapperOK, MapperTypes
<1>8. ASSUME NEW q \in Port, live[q] = "ours" \/ renewing'[q] > 0
      PROVE  Named(q) \/ q \in raced'
  <2>1. CASE live[q] = "ours" \/ renewing[q] > 0
    BY <2>1, <1>5 DEF MapperOK, NamesAll, Kept
  <2>2. CASE q = current
    BY <2>2, <1>7, NoneIsNoPort DEF MapperOK, NamesAll
  <2> QED
    BY <1>7, <1>8, <2>1, <2>2
<1>9. NamesAll' /\ ListIsRight'
  BY <1>1, <1>5, <1>7, <1>8 DEF MapperOK, NamesAll, ListIsRight, Kept, Named, Intended
<1> QED
  BY <1>1, <1>2, <1>6, <1>9 DEF MapperOK

LEMMA RenewedIs ==
    ASSUME MapperOK, NEW p \in Port, NEW ok \in BOOLEAN, RenewalAnswered(p, ok)
    PROVE  MapperOK' /\ UNCHANGED <<current, handle, job>>
<1> USE DEF RenewalAnswered
<1>1. JournalOK' /\ entries' = entries /\ (Unmapping' <=> Unmapping)
  BY SameJournal DEF MapperOK, journalVars, Unmapping
<1>2. live' \in [Port -> {"none", "ours", "foreign"}] /\ renewing' \in [Port -> Nat]
  <2>1. live' \in [Port -> {"none", "ours", "foreign"}]
    BY AddedIs DEF MapperOK, MapperTypes
  <2>2. renewing' \in [Port -> Nat]
    BY DEF MapperOK, MapperTypes
  <2> QED
    BY <2>1, <2>2
<1>3. MapperTypes'
  BY <1>2 DEF MapperOK, MapperTypes
<1>4. \A q \in Port : /\ live'[q] = "ours" => live[q] = "ours" \/ q = p
                      /\ renewing'[q] > 0 => renewing[q] > 0
  BY AddedIs DEF MapperOK, MapperTypes
<1>5. \A q \in Port : live'[q] = "ours" \/ renewing'[q] > 0 => Kept(q)
  BY <1>4 DEF MapperOK, NamesAll
<1>6. NamesAll' /\ ListIsRight'
  BY <1>1, <1>4, <1>5 DEF MapperOK, NamesAll, ListIsRight, Kept, Named, Intended
<1> QED
  BY <1>1, <1>3, <1>6 DEF MapperOK

LEMMA RouterIs ==
    ASSUME MapperOK, NEW p \in Port, LeaseExpires(p) \/ Foreign(p)
    PROVE  MapperOK' /\ UNCHANGED <<mapperVars, raced>>
<1> USE DEF LeaseExpires, Foreign
<1>1. JournalOK' /\ entries' = entries /\ UNCHANGED <<mapperVars, raced>>
  BY SameJournal DEF MapperOK, journalVars
<1>2. /\ live' \in [Port -> {"none", "ours", "foreign"}]
      /\ \A q \in Port : live'[q] = "ours" => live[q] = "ours"
  BY DEF MapperOK, MapperTypes
<1>3. MapperTypes'
  BY <1>1, <1>2 DEF MapperOK, MapperTypes, mapperVars
<1>4. NamesAll' /\ ListIsRight'
  BY <1>1, <1>2 DEF MapperOK, NamesAll, ListIsRight, Kept, Unmapping, Named, Intended,
                    mapperVars
<1> QED
  BY <1>1, <1>3, <1>4 DEF MapperOK

-----------------------------------------------------------------------------
(* Calls *)

\* Only the call that is under way has a request.
LEMMA NoRequest ==
    ASSUME IInv, NEW d \in Call, ask[d].at \in {"idle", "verifying"}
    PROVE  job[d] = Idle
<1>1. job[d] \in Job /\ PlaceOK(d)
  BY DEF IInv, MapperOK, MapperTypes, ListenerOK
<1>2. job[d].at = "idle"
  BY <1>1 DEF PlaceOK, Job
<1> QED
  BY <1>2 DEF IInv, MapperOK, MapperTypes

LEMMA CallIsAlone ==
    ASSUME IInv, NEW c \in Call, ask[c].at # "idle" \/ Rest
    PROVE  Alone(c) /\ \A d \in Call \ {c} : ask[d].at = "idle"
<1>1. \A d \in Call \ {c} : ask[d].at = "idle"
  BY DEF IInv, ListenerOK, OneAsks, Rest, At
<1> QED
  BY <1>1, NoRequest DEF Alone

\* The step of a call that leaves the others alone: what there is to show.
LEMMA CallSteps ==
    ASSUME IInv, NEW c \in Call, \A d \in Call \ {c} : ask[d].at = "idle",
           NEW a \in [at : Place, ep : Endpoint \cup {NoEndpoint}],
           ask' = [ask EXCEPT ![c] = a],
           MapperOK', \A d \in Call \ {c} : job'[d] = Idle,
           status' \in Status, extIP' = extIP, confirmed' \in Endpoint \cup {NoEndpoint},
           PlaceOK(c)', a.at = "idle" => RestOK'
    PROVE  IInv'
<1>1. /\ ask \in [Call -> [at : Place, ep : Endpoint \cup {NoEndpoint}]] /\ extIP \in Ip
      /\ Call # {}
  BY DEF IInv, ListenerOK, ListenerTypes
<1>2. \A d \in Call : ask'[d] = IF d = c THEN a ELSE ask[d]
  BY <1>1
<1>3. ListenerTypes'
  BY <1>1 DEF ListenerTypes
<1>4. OneAsks'
  BY <1>2 DEF OneAsks
<1>5. ASSUME NEW d \in Call PROVE PlaceOK(d)'
  <2>1. CASE d = c
    BY <2>1
  <2>2. CASE d # c
    <3>1. ask'[d].at = "idle" /\ job'[d].at = "idle"
      BY <1>2, <2>2, IdleIs
    <3> QED
      BY <3>1 DEF PlaceOK
  <2> QED
    BY <2>1, <2>2
<1>6. RestOK'
  <2>1. CASE a.at = "idle"
    BY <2>1
  <2>2. CASE a.at # "idle"
    <3>1. ~Silent'
      BY <1>2, <2>2 DEF Silent
    <3> QED
      BY <3>1 DEF RestOK
  <2> QED
    BY <2>1, <2>2
<1> QED
  BY <1>3, <1>4, <1>5, <1>6 DEF IInv, ListenerOK

LEMMA AskingIs ==
    ASSUME NEW at \in Place, NEW ep \in Endpoint \cup {NoEndpoint}
    PROVE  /\ Asking(at, ep) \in [at : Place, ep : Endpoint \cup {NoEndpoint}]
           /\ Asking(at, ep).at = at /\ Asking(at, ep).ep = ep
BY DEF Asking

LEMMA NotAskingIs ==
    /\ NotAsking \in [at : Place, ep : Endpoint \cup {NoEndpoint}]
    /\ NotAsking.at = "idle"
BY DEF NotAsking, Place

LEMMA StatusFields ==
    ASSUME NEW s \in Status
    PROVE  /\ s.ep \in (Ip \cup {"none"}) \X (Port \cup {"none"})
           /\ s.advertised \in BOOLEAN /\ s.verified \in BOOLEAN
BY DEF Status

LEMMA EndpointIs ==
    /\ Endpoint \cup {NoEndpoint} \subseteq (Ip \cup {"none"}) \X (Port \cup {"none"})
    /\ \A ip \in Ip, p \in Port : <<ip, p>> \in Endpoint /\ <<ip, p>>[2] = p
    /\ \A e \in Endpoint : e[2] \in Port
BY DEF Endpoint, NoEndpoint

LEMMA FailedIs ==
    ASSUME NEW ip \in Ip \cup {"none"}
    PROVE  /\ Failed(ip) \in Status /\ Failed(ip).state = "failed"
           /\ Failed(ip).advertised = FALSE
<1>1. <<ip, "none">> \in (Ip \cup {"none"}) \X (Port \cup {"none"})
  OBVIOUS
<1> QED
  BY <1>1 DEF Failed, Status

LEMMA DisabledIs ==
    Disabled \in Status /\ Disabled.state = "disabled" /\ Disabled.advertised = FALSE
<1>1. NoEndpoint \in (Ip \cup {"none"}) \X (Port \cup {"none"})
  BY DEF NoEndpoint
<1> QED
  BY <1>1 DEF Disabled, Status

LEMMA RolledBackIs ==
    ASSUME NEW s \in Status
    PROVE  /\ RolledBack(s) \in Status /\ RolledBack(s).state = "failed"
           /\ RolledBack(s).advertised = FALSE
<1>1. <<s.ep[1], "none">> \in (Ip \cup {"none"}) \X (Port \cup {"none"})
  BY StatusFields
<1> QED
  BY <1>1 DEF RolledBack, Status

\* A call that fails or is done with nothing to show.
LEMMA RestEmpty ==
    ASSUME status'.advertised = FALSE, status'.state # "disabled"
    PROVE  RestOK'
BY DEF RestOK

LEMMA EnableStartStep ==
    ASSUME IInv, NEW c \in Call, Rest, EnableStart(c)
    PROVE  IInv'
<1> USE DEF EnableStart
<1>1. MapperOK' /\ UNCHANGED <<current, handle, job>>
  BY SameMapper DEF IInv, mapperVars
<1>2. Alone(c) /\ \A d \in Call \ {c} : ask[d].at = "idle"
  BY CallIsAlone
<1>3. ask' = [ask EXCEPT ![c] = Asking("mapping", NoEndpoint)]
  BY DEF Goes
<1>4. /\ Asking("mapping", NoEndpoint) \in [at : Place, ep : Endpoint \cup {NoEndpoint}]
      /\ Asking("mapping", NoEndpoint).at = "mapping"
  BY AskingIs DEF Place
<1>5. status' \in Status /\ status'.state = "mapping"
  BY DEF IInv, ListenerOK, ListenerTypes, Status
<1>6. job[c] = Idle
  BY NoRequest DEF At
<1>7. ask'[c].at = "mapping"
  BY <1>3, <1>4 DEF IInv, ListenerOK, ListenerTypes
<1>8. PlaceOK(c)'
  BY <1>1, <1>5, <1>6, <1>7, IdleIs DEF PlaceOK
<1>9. confirmed' \in Endpoint \cup {NoEndpoint} /\ extIP' = extIP
  BY DEF IInv, ListenerOK, ListenerTypes
<1>10. \A d \in Call \ {c} : job'[d] = Idle
  BY <1>1, <1>2 DEF Alone
<1> QED
  BY <1>1, <1>2, <1>3, <1>4, <1>5, <1>8, <1>9, <1>10, CallSteps

\* A call that is answered.
LEMMA CallEnds ==
    ASSUME IInv, NEW c \in Call, \A d \in Call \ {c} : ask[d].at = "idle", MapperOK',
           \A d \in Call : job'[d] = Idle, status' \in Status, Quits(c),
           extIP' = extIP, confirmed' \in Endpoint \cup {NoEndpoint}, RestOK'
    PROVE  IInv'
<1>2. ask' = [ask EXCEPT ![c] = NotAsking]
  BY DEF Quits
<1>3. ask'[c].at = "idle"
  BY <1>2, NotAskingIs DEF IInv, ListenerOK, ListenerTypes
<1>4. PlaceOK(c)'
  BY <1>3, IdleIs DEF PlaceOK
<1> QED
  BY <1>2, <1>4, NotAskingIs, CallSteps

LEMMA EnableRefusedStep ==
    ASSUME IInv, NEW c \in Call, EnableRefused(c)
    PROVE  IInv'
<1> USE DEF EnableRefused, MapRefused
<1>1. MapperOK' /\ UNCHANGED job
  BY SameMapper DEF IInv, mapperVars
<1>2. Alone(c) /\ \A d \in Call \ {c} : ask[d].at = "idle"
  BY CallIsAlone DEF At
<1>3. \A d \in Call : job'[d] = Idle
  BY <1>1, <1>2 DEF Alone
<1>4. extIP \in Ip /\ confirmed' \in Endpoint \cup {NoEndpoint} /\ extIP' = extIP
  BY DEF IInv, ListenerOK, ListenerTypes
<1>5. status' \in Status /\ status'.state = "failed" /\ status'.advertised = FALSE
  BY <1>4, FailedIs
<1> QED
  BY <1>1, <1>2, <1>3, <1>4, <1>5, RestEmpty, CallEnds

LEMMA EnableMapThrowsStep ==
    ASSUME IInv, NEW c \in Call, EnableMapThrows(c)
    PROVE  IInv'
<1> USE DEF EnableMapThrows
<1>1. Alone(c) /\ \A d \in Call \ {c} : ask[d].at = "idle"
  BY CallIsAlone DEF At
<1>2. MapperOK' /\ \A d \in Call : job'[d] = Idle
  BY <1>1, MapEndsIs DEF IInv
<1>3. status' \in Status /\ status'.state = "failed" /\ status'.advertised = FALSE
  BY FailedIs
<1>4. confirmed' \in Endpoint \cup {NoEndpoint} /\ extIP' = extIP
  BY DEF IInv, ListenerOK, ListenerTypes
<1> QED
  BY <1>1, <1>2, <1>3, <1>4, RestEmpty, CallEnds

LEMMA EnableCheckedStep ==
    ASSUME IInv, NEW c \in Call, NEW p \in Port, EnableChecked(c, p)
    PROVE  IInv'
<1> USE DEF EnableChecked
<1>1. Alone(c) /\ \A d \in Call \ {c} : ask[d].at = "idle"
  BY CallIsAlone DEF At
<1>2. /\ MapperOK'
      /\ job'[c].at = "adding" /\ job'[c].port = p
      /\ \A d \in Call \ {c} : job'[d] = Idle
  BY <1>1, MapCheckedIs DEF IInv
<1>3. extIP \in Ip /\ <<extIP, p>> \in Endpoint /\ <<extIP, p>>[2] = p
  BY EndpointIs DEF IInv, ListenerOK, ListenerTypes
<1> DEFINE a == Asking("mapping", <<extIP, p>>)
<1>4. a \in [at : Place, ep : Endpoint \cup {NoEndpoint}]
      /\ a.at = "mapping" /\ a.ep = <<extIP, p>>
  BY <1>3, AskingIs DEF Place
<1>5. ask' = [ask EXCEPT ![c] = a]
  BY DEF Goes
<1> HIDE DEF a
<1>6. ask'[c] = a
  BY <1>5 DEF IInv, ListenerOK, ListenerTypes
<1>7. /\ status' \in Status /\ status'.state = "mapping"
      /\ confirmed' \in Endpoint \cup {NoEndpoint} /\ extIP' = extIP
  BY DEF IInv, ListenerOK, ListenerTypes, PlaceOK, At
<1>8. PlaceOK(c)'
  BY <1>2, <1>3, <1>4, <1>6, <1>7, IdleIs DEF PlaceOK
<1> QED
  BY <1>1, <1>2, <1>4, <1>5, <1>7, <1>8, CallSteps

\* The endpoint that goes to the verifier is the one that was mapped.
LEMMA EnableMappedStep ==
    ASSUME IInv, NEW c \in Call, EnableMapped(c)
    PROVE  IInv'
<1> USE DEF EnableMapped
<1>1. Alone(c) /\ \A d \in Call \ {c} : ask[d].at = "idle"
  BY CallIsAlone DEF At
<1>2. MapperOK' /\ \A d \in Call : job'[d] = Idle
  BY <1>1, MapEndsIs DEF IInv
<1>3. ask[c].ep \in Endpoint /\ current' = ask[c].ep[2]
  BY DEF IInv, ListenerOK, PlaceOK, MapAdded
<1> DEFINE a == Asking("verifying", ask[c].ep)
<1>4. a \in [at : Place, ep : Endpoint \cup {NoEndpoint}]
      /\ a.at = "verifying" /\ a.ep = ask[c].ep
  BY <1>3, AskingIs DEF Place
<1>5. ask' = [ask EXCEPT ![c] = a]
  BY DEF Goes
<1> HIDE DEF a
<1>6. ask'[c] = a
  BY <1>5 DEF IInv, ListenerOK, ListenerTypes
<1>7. status' \in Status /\ status'.state = "verifying" /\ status'.ep = ask[c].ep
  <2>1. status \in Status
    BY DEF IInv, ListenerOK, ListenerTypes
  <2>2. ask[c].ep \in (Ip \cup {"none"}) \X (Port \cup {"none"})
    BY <1>3, EndpointIs
  <2> QED
    BY <2>1, <2>2 DEF Status
<1>8. confirmed' \in Endpoint \cup {NoEndpoint} /\ extIP' = extIP
  BY DEF IInv, ListenerOK, ListenerTypes
<1>9. PlaceOK(c)'
  BY <1>2, <1>3, <1>4, <1>6, <1>7, IdleIs DEF PlaceOK
<1> QED
  BY <1>1, <1>2, <1>4, <1>5, <1>7, <1>8, <1>9, CallSteps

LEMMA EnableVerifiedStep ==
    ASSUME IInv, NEW c \in Call, EnableVerified(c)
    PROVE  IInv'
<1> USE DEF EnableVerified
<1>1. MapperOK' /\ UNCHANGED <<current, job>>
  BY SameMapper DEF IInv, mapperVars
<1>2. /\ Alone(c) /\ ask[c].at = "verifying"
      /\ \A d \in Call \ {c} : ask[d].at = "idle"
  BY CallIsAlone DEF At
<1>3. \A d \in Call : job'[d] = Idle
  BY <1>1, <1>2, NoRequest DEF Alone
<1>4. ask[c].ep \in Endpoint /\ status.ep = ask[c].ep /\ current = ask[c].ep[2]
  BY <1>2 DEF IInv, ListenerOK, PlaceOK
<1>5. /\ status' \in Status /\ status'.state = "active" /\ status'.verified
      /\ status'.ep = status.ep
  BY DEF IInv, ListenerOK, ListenerTypes, Status
<1>6. RestOK'
  BY <1>1, <1>4, <1>5 DEF RestOK
<1> QED
  BY <1>1, <1>2, <1>3, <1>4, <1>5, <1>6, CallEnds

\* The status is left at "verifying".
LEMMA EnableRejectsStep ==
    ASSUME IInv, NEW c \in Call, EnableRejects(c)
    PROVE  IInv'
<1> USE DEF EnableRejects
<1>1. MapperOK' /\ UNCHANGED <<current, job>>
  BY SameMapper DEF IInv, mapperVars
<1>2. /\ Alone(c) /\ ask[c].at = "verifying"
      /\ \A d \in Call \ {c} : ask[d].at = "idle"
  BY CallIsAlone DEF At
<1>3. \A d \in Call : job'[d] = Idle
  BY <1>1, <1>2, NoRequest DEF Alone
<1>4. status' \in Status /\ confirmed' \in Endpoint \cup {NoEndpoint}
  BY DEF IInv, ListenerOK, ListenerTypes
<1>5. status'.state = "verifying"
  BY <1>2 DEF IInv, ListenerOK, PlaceOK
<1>6. RestOK'
  BY <1>5 DEF RestOK
<1> QED
  BY <1>1, <1>2, <1>3, <1>4, <1>6, CallEnds

\* unmapPort() is under way for c, or it is over and the call with it.
LEMMA UnmappedStep ==
    ASSUME IInv, NEW c \in Call, \A d \in Call \ {c} : ask[d].at = "idle",
           MapperOK', \A d \in Call \ {c} : job'[d] = Idle,
           job'[c].at \in {"idle", "deleting"}, job'[c] = Idle => current' = NoPort,
           job'[c].at = "deleting" => current' # NoPort,
           NEW at \in {"rollback", "disabling"}, at = "disabling" => ~handle',
           NEW s \in Status, s.advertised = FALSE, s.state = "disabled" => at = "disabling",
           Unmapped(c, at, s), UNCHANGED <<extIP, confirmed>>
    PROVE  IInv'
<1>1. confirmed' \in Endpoint \cup {NoEndpoint} /\ status \in Status
  BY DEF IInv, ListenerOK, ListenerTypes
<1>2. CASE job'[c] = Idle
  <2>1. status' = s /\ Quits(c)
    BY <1>2 DEF Unmapped
  <2>2. RestOK'
    BY <1>2, <2>1 DEF RestOK
  <2>3. \A d \in Call : job'[d] = Idle
    BY <1>2
  <2> QED
    BY <1>1, <2>1, <2>2, <2>3, CallEnds
<1>3. CASE job'[c] # Idle
  <2>1. job'[c].at = "deleting"
    BY <1>3 DEF MapperOK, MapperTypes
  <2>2. status' = status /\ ask' = [ask EXCEPT ![c] = Asking(at, NoEndpoint)]
    BY <1>3 DEF Unmapped, Goes
  <2>3. /\ Asking(at, NoEndpoint) \in [at : Place, ep : Endpoint \cup {NoEndpoint}]
        /\ Asking(at, NoEndpoint).at = at
    BY AskingIs DEF Place
  <2>4. ask'[c].at = at
    BY <2>2, <2>3 DEF IInv, ListenerOK, ListenerTypes
  <2>5. PlaceOK(c)'
    BY <2>1, <2>4 DEF PlaceOK
  <2> QED
    BY <1>1, <2>2, <2>3, <2>5, CallSteps
<1> QED
  BY <1>2, <1>3

LEMMA EnableUnverifiedStep ==
    ASSUME IInv, NEW c \in Call, EnableUnverified(c)
    PROVE  IInv'
<1> USE DEF EnableUnverified
<1>1. Alone(c) /\ \A d \in Call \ {c} : ask[d].at = "idle"
  BY CallIsAlone DEF At
<1>2. /\ MapperOK' /\ job'[c].at \in {"idle", "deleting"}
      /\ job'[c] = Idle => current' = NoPort
      /\ job'[c].at = "deleting" => current' # NoPort
      /\ \A d \in Call \ {c} : job'[d] = Idle
  BY <1>1, UnmapBeginsIs DEF IInv
<1>3. /\ RolledBack(status) \in Status /\ RolledBack(status).state = "failed"
      /\ RolledBack(status).advertised = FALSE
  BY RolledBackIs DEF IInv, ListenerOK, ListenerTypes
<1> QED
  BY <1>1, <1>2, <1>3, UnmappedStep

LEMMA DisableStartStep ==
    ASSUME IInv, NEW c \in Call, Rest, DisableStart(c)
    PROVE  IInv'
<1> USE DEF DisableStart
<1>1. Alone(c) /\ \A d \in Call \ {c} : ask[d].at = "idle"
  BY CallIsAlone
<1>2. /\ MapperOK' /\ job'[c].at \in {"idle", "deleting"}
      /\ handle' = FALSE /\ (job'[c] = Idle => current' = NoPort)
      /\ job'[c].at = "deleting" => current' # NoPort
      /\ \A d \in Call \ {c} : job'[d] = Idle
  BY <1>1, UnmapBeginsIs DEF IInv
<1> QED
  BY <1>1, <1>2, DisabledIs, UnmappedStep

LEMMA UnmapStep ==
    ASSUME IInv, NEW c \in Call, Unmap(c)
    PROVE  IInv'
<1> USE DEF Unmap
<1>1. PICK e \in job[c].todo : UnmapDeleted(c, e) \/ UnmapThrows(c, e)
  OBVIOUS
<1>2. ask[c].at \in {"rollback", "disabling"} /\ current # NoPort
  BY <1>1 DEF IInv, ListenerOK, PlaceOK, UnmapDeleted, UnmapThrows
<1>3. Alone(c) /\ \A d \in Call \ {c} : ask[d].at = "idle"
  BY <1>2, CallIsAlone
<1>4. /\ MapperOK' /\ handle' = handle
      /\ job'[c].at \in {"idle", "deleting"} /\ (job'[c] = Idle => current' = NoPort)
      /\ job'[c].at = "deleting" => current' # NoPort
      /\ \A d \in Call \ {c} : job'[d] = Idle
  BY <1>1, <1>2, <1>3, UnmapAnsweredIs DEF IInv
<1>5. ask[c].at = "disabling" => ~handle'
  BY <1>4 DEF IInv, ListenerOK, PlaceOK
<1> DEFINE s == IF At(c, "rollback") THEN RolledBack(status) ELSE Disabled
<1>6. s \in Status /\ s.advertised = FALSE /\ (s.state = "disabled" => ask[c].at = "disabling")
  BY <1>2, RolledBackIs, DisabledIs DEF IInv, ListenerOK, ListenerTypes, At
<1>7. Unmapped(c, ask[c].at, s)
  OBVIOUS
<1> HIDE DEF s
<1> QED
  BY <1>2, <1>3, <1>4, <1>5, <1>6, <1>7, UnmappedStep

\* What no call notices.
LEMMA GoesOn ==
    ASSUME IInv, MapperOK', handle' => handle,
           UNCHANGED <<current, job, listenerVars, confirmed>>, extIP' \in Ip
    PROVE  IInv'
<1> USE DEF listenerVars
<1>1. ListenerTypes' /\ OneAsks'
  BY DEF IInv, ListenerOK, ListenerTypes, OneAsks
<1>2. ASSUME NEW c \in Call PROVE PlaceOK(c)'
  <2>1. PlaceOK(c)
    BY DEF IInv, ListenerOK
  <2> QED
    BY <2>1 DEF PlaceOK
<1>3. RestOK'
  BY DEF IInv, ListenerOK, RestOK, Silent
<1> QED
  BY <1>1, <1>2, <1>3 DEF IInv, ListenerOK

LEMMA FireStep ==
    ASSUME IInv, Fire
    PROVE  IInv'
<1>1. extIP' \in Ip
  BY DEF Fire, IInv, ListenerOK, ListenerTypes
<1> QED
  BY <1>1, FireIs, GoesOn DEF Fire, IInv

LEMMA RenewedStep ==
    ASSUME IInv, Renewed
    PROVE  IInv'
<1>1. PICK p \in Port, ok \in BOOLEAN : RenewalAnswered(p, ok)
  BY DEF Renewed
<1>2. MapperOK' /\ UNCHANGED <<current, handle, job>>
  BY <1>1, RenewedIs DEF IInv
<1>3. extIP' \in Ip
  BY DEF Renewed, IInv, ListenerOK, ListenerTypes
<1> QED
  BY <1>2, <1>3, GoesOn DEF Renewed

LEMMA WorldStep ==
    ASSUME IInv, World
    PROVE  IInv'
<1>1. CASE \E p \in Port : LeaseExpires(p) \/ Foreign(p)
  <2>1. MapperOK' /\ UNCHANGED <<current, handle, job>>
    BY <1>1, RouterIs DEF IInv, mapperVars
  <2>2. CASE UNCHANGED <<listenerVars, extIP, confirmed>>
    <3>1. extIP' \in Ip
      BY <2>2 DEF IInv, ListenerOK, ListenerTypes
    <3> QED
      BY <2>1, <2>2, <3>1, GoesOn
  <2>3. CASE extIP' \in Ip /\ UNCHANGED <<listenerVars, confirmed>>
    BY <2>1, <2>3, GoesOn
  <2> QED
    BY <2>2, <2>3 DEF World
<1>2. CASE /\ extIP' \in Ip
           /\ UNCHANGED <<journalVars, mapperVars, live, raced, listenerVars, confirmed>>
  <2>1. MapperOK' /\ UNCHANGED <<current, handle, job>>
    BY <1>2, SameMapper DEF IInv, mapperVars
  <2> QED
    BY <1>2, <2>1, GoesOn
<1> QED
  BY <1>1, <1>2 DEF World

-----------------------------------------------------------------------------
(* The theorems *)

LEMMA Initially == Init => IInv
<1> SUFFICES ASSUME Init PROVE IInv
  OBVIOUS
<1> USE DEF Init, JournalInit, MapperInit
<1>1. Empty \in [Id -> Entry \cup {NoEntry}] /\ \A i \in Id : Empty[i] = NoEntry
  BY DEF Empty
<1>2. JournalOK
  BY <1>1, MaxIdIsNat DEF JournalOK
<1>3. \A c \in Call : job[c] = Idle /\ ask[c] = NotAsking
  OBVIOUS
<1>4. MapperTypes
  BY <1>3, IdleIs DEF MapperTypes
<1>5. NamesAll /\ ListIsRight
  BY <1>3, IdleIs DEF NamesAll, Unmapping, ListIsRight
<1>6. ListenerTypes
  BY NotAskingIs, DisabledIs DEF ListenerTypes
<1>7. OneAsks /\ \A c \in Call : PlaceOK(c)
  BY <1>3, IdleIs, NotAskingIs DEF OneAsks, PlaceOK
<1>8. RestOK
  BY DisabledIs DEF RestOK
<1> QED
  BY <1>2, <1>4, <1>5, <1>6, <1>7, <1>8 DEF IInv, MapperOK, ListenerOK

\* Calls, renewals and the router's own changes keep the invariant.
THEOREM Inductive == IInv /\ [SerialNext]_vars => IInv'
<1> SUFFICES ASSUME IInv, [SerialNext]_vars PROVE IInv'
  OBVIOUS
<1>1. ASSUME NEW c \in Call, Enable(c) PROVE IInv'
  BY <1>1, EnableRefusedStep, EnableMapThrowsStep, EnableMappedStep, EnableCheckedStep,
     EnableVerifiedStep, EnableUnverifiedStep, EnableRejectsStep DEF Enable
<1>2. ASSUME NEW c \in Call, GoOn(c) PROVE IInv'
  BY <1>1, <1>2, UnmapStep DEF GoOn
<1>3. ASSUME NEW c \in Call, Rest, Start(c) PROVE IInv'
  BY <1>3, EnableStartStep, DisableStartStep DEF Start
<1>4. CASE UNCHANGED vars
  <2>1. MapperOK' /\ UNCHANGED <<current, handle, job, listenerVars, confirmed>>
    BY <1>4, SameMapper DEF IInv, vars, mapperVars
  <2>2. extIP' \in Ip
    BY <1>4 DEF vars, IInv, ListenerOK, ListenerTypes
  <2> QED
    BY <2>1, <2>2, GoesOn
<1> QED
  BY <1>2, <1>3, <1>4, RenewedStep, WorldStep, FireStep DEF SerialNext, Progress

\* The invariant holds in every state that calls made one by one lead to.
THEOREM InvariantCorrect == SerialSpec => []IInv
<1>1. Init => IInv
  BY Initially
<1>2. IInv /\ [SerialNext]_vars => IInv'
  BY Inductive
<1> QED
  BY <1>1, <1>2, PTL DEF SerialSpec

\* The parts of the invariant say what the types are, of a request that waits for
\* the router whose it is, and of one that deletes that there is a mapping.
THEOREM TypeCorrect == SerialSpec => []TypeOK
<1>1. IInv => TypeOK
  <2> SUFFICES ASSUME IInv PROVE TypeOK
    OBVIOUS
  <2>1. tail \in Line \cup {NoTail, Garbage} /\ stored \in [Id -> Entry \cup {NoEntry}]
    BY DEF IInv, MapperOK, JournalOK
  <2>2. ASSUME NEW c \in Call, job[c] # Idle
        PROVE  ask[c].at \in {"mapping", "rollback", "disabling"}
    <3>1. job[c].at \in {"adding", "deleting"}
      BY <2>2 DEF IInv, MapperOK, MapperTypes, Job
    <3> QED
      BY <3>1 DEF IInv, ListenerOK, PlaceOK
  <2>3. \A c \in Call : job[c].at = "deleting" => current # NoPort
    BY DEF IInv, ListenerOK, PlaceOK
  <2> QED
    BY <2>1, <2>2, <2>3
       DEF IInv, MapperOK, JournalOK, MapperTypes, ListenerOK, ListenerTypes, TypeOK
<1> QED
  BY <1>1, InvariantCorrect, PTL

\* Once each call is answered, what is advertised is what was confirmed last; or
\* the verifier of the last enable() has thrown, and the state says "verifying".
THEOREM AdvertisedCorrect == SerialSpec => []AdvertisedAtRest
<1>1. IInv => AdvertisedAtRest
  BY DEF IInv, ListenerOK, RestOK, Silent, AdvertisedAtRest, Rest, At
<1> QED
  BY <1>1, InvariantCorrect, PTL

\* Once disable() has been answered, no mapping is held, and no timer with a
\* handle runs.
THEOREM DisabledCorrect == SerialSpec => []DisabledIsUnmapped
<1>1. IInv => DisabledIsUnmapped
  BY DEF IInv, ListenerOK, RestOK, Silent, DisabledIsUnmapped, Rest, At
<1> QED
  BY <1>1, InvariantCorrect, PTL

\* The journal names every mapping of ours, at every await of every call and
\* with renewals in the middle of them; only a port whose renewal met an
\* unmapPort() may be without an entry.
THEOREM JournaledCorrect == SerialSpec => []MappingsAreJournaled
<1>1. IInv => MappingsAreJournaled
  <2> SUFFICES ASSUME IInv, NEW p \in Port, live[p] = "ours", p \notin raced
               PROVE  \E i \in Active(OnDisk) : OnDisk[i].res = p
    BY DEF MappingsAreJournaled
  <2>1. NoTail.id \notin Id
    BY DEF NoTail, Id
  <2>2. OnDisk = entries
    BY <2>1 DEF OnDisk, IInv, MapperOK, JournalOK
  <2>3. p \in Resource /\ Named(p)
    BY DEF IInv, MapperOK, NamesAll, Kept, Port
  <2>4. PICK i \in Id : entries[i] = Intended(p)
    BY <2>3 DEF Named
  <2>5. entries[i] # NoEntry /\ entries[i].state = "intended" /\ entries[i].res = p
    BY <2>3, <2>4, IntendedIsEntry, EntryIsSome
  <2> QED
    BY <2>2, <2>5 DEF Active, Known
<1> QED
  BY <1>1, InvariantCorrect, PTL
=============================================================================
