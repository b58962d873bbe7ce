------------------------------- MODULE Journal -------------------------------
(***************************************************************************)
(* The resource journal (src/src/journal.ts): a map in memory and a file   *)
(* of JSON lines.  append() and updateState() add one line with            *)
(* appendFileSync, removeEntry() writes the whole file anew with a plain   *)
(* writeFileSync, load() skips what it cannot parse and lets the last      *)
(* valid line of an id win.  Of the file the model keeps just that: for    *)
(* each id its last complete line (`stored'), and what follows the last    *)
(* newline (`tail').                                                       *)
(*                                                                         *)
(* A write can be cut short: the disk is full and the call throws, or the  *)
(* machine stops.  The part of a line that is left is not JSON, or it is   *)
(* the whole object and only the newline is missing.  In both cases the    *)
(* next append goes on in that very line.                                  *)
(***************************************************************************)
EXTENDS Integers, FiniteSets

CONSTANTS
    MaxId,      \* bound of the model: how many ids append() draws
    Resource    \* what entries are about

ASSUME MaxIdIsNat == MaxId \in Nat

VARIABLES
    entries,    \* this.entries: id -> record, or NoEntry
    stored,     \* the complete lines of the file: id -> the last one's record
    tail,       \* what follows the last newline: NoTail, Garbage or a line
    drawn       \* the last id append() generated; ids grow with createdAt

journalVars == <<entries, stored, tail, drawn>>

Id == 1 .. MaxId
NoEntry == [state |-> "none", res |-> "none"]
Entry == [state : {"intended", "removed"}, res : Resource]
Line == [id : Id, e : Entry]
NoTail == [id |-> 0, e |-> NoEntry]
Garbage == [id |-> -1, e |-> NoEntry]
LineOf(i, e) == [id |-> i, e |-> e]
Empty == [i \in Id |-> NoEntry]

Known(m) == {i \in Id : m[i] # NoEntry}

\* load(): of the lines with an id the last one counts, a whole tail included.
OnDisk == IF tail.id \in Id THEN [stored EXCEPT ![tail.id] = tail.e] ELSE stored

\* getActiveEntries()
Active(m) == {i \in Known(m) : m[i].state = "intended"}

-----------------------------------------------------------------------------
(* Writes *)

\* appendFileSync of one line.  After a torn write it only ends that line,
\* and the two together are not JSON.
AppendLine(i, e) ==
    /\ stored' = IF tail = NoTail THEN [stored EXCEPT ![i] = e] ELSE stored
    /\ tail' = NoTail

AppendTorn(i, e) ==
    /\ tail' \in {tail, Garbage} \cup (IF tail = NoTail THEN {LineOf(i, e)} ELSE {})
    /\ UNCHANGED stored

\* rewriteDisk() of the map m: truncate, then one line per entry.
Rewrite(m) == stored' = m /\ tail' = NoTail

\* Cut short after the entries below n, perhaps inside the entry n.
RewriteTorn(m) ==
    \E n \in 1 .. MaxId + 1 :
        /\ stored' = [i \in Id |-> IF i < n THEN m[i] ELSE NoEntry]
        /\ tail' \in {NoTail} \cup
               (IF n \in Known(m) THEN {Garbage, LineOf(n, m[n])} ELSE {})

-----------------------------------------------------------------------------
(* Methods, when they return *)

\* append(): first the file, then the map.
Intended(r) == [state |-> "intended", res |-> r]
JournalAppend(r) ==
    /\ drawn < MaxId
    /\ drawn' = drawn + 1
    /\ AppendLine(drawn + 1, Intended(r))
    /\ entries' = [entries EXCEPT ![drawn + 1] = Intended(r)]

\* updateState(i, 'removed') of a known id: first the map, then the file.
Removed(i) == [entries[i] EXCEPT !.state = "removed"]
UpdateState(i) ==
    /\ entries' = [entries EXCEPT ![i] = Removed(i)]
    /\ AppendLine(i, Removed(i))
    /\ UNCHANGED drawn

Without(i) == [entries EXCEPT ![i] = NoEntry]
\* Mutants: the entry is dropped from the map only; the file is written
\* before the entry is dropped from the map.
RemoveEntryInMemory(i) ==
    /\ entries' = Without(i)
    /\ UNCHANGED <<stored, tail, drawn>>
RemoveEntryAfterwards(i) ==
    /\ entries' = Without(i)
    /\ Rewrite(entries)
    /\ UNCHANGED drawn

\* removeEntry()
RemoveEntry(i) ==
    /\ entries' = Without(i)
    /\ Rewrite(Without(i))
    /\ UNCHANGED drawn

(* Methods, when their write is cut short *)

JournalAppendTorn(r) ==
    /\ drawn < MaxId
    /\ drawn' = drawn + 1
    /\ AppendTorn(drawn + 1, Intended(r))
    /\ UNCHANGED entries

UpdateStateTorn(i) ==
    /\ entries' = [entries EXCEPT ![i] = Removed(i)]
    /\ AppendTorn(i, Removed(i))
    /\ UNCHANGED drawn

RemoveEntryTorn(i) ==
    /\ entries' = Without(i)
    /\ RewriteTorn(Without(i))
    /\ UNCHANGED drawn

\* load()
LoadJournal ==
    /\ entries' = OnDisk
    /\ UNCHANGED <<stored, tail, drawn>>

JournalInit ==
    /\ entries = Empty /\ stored = Empty
    /\ tail = NoTail /\ drawn = 0
=============================================================================
