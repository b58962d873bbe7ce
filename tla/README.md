# simple-vpn in TLA+

simple-vpn is a small daemon that joins two to a handful of machines into a
WireGuard overlay: one node is the *anchor*, the others are *members*. The
anchor's user makes an invite, a member's user imports it and sends back a reply,
the anchor imports the reply and the two are peers. A browser page talks to the
daemon over a local HTTP API.

This directory holds TLA+ modules of the parts of the program that keep state,
configurations with which TLC checks small instances of them, and theorems that
TLAPS proves for every instance. All of it is about `src/src/*.ts` (called by file
name below); every definition that models code is listed with its lines in
`PROJECT.json` under `map`.

Contents: [the system](#the-system) - [modules](#modules-and-the-code) -
[runs](#runs) - [bounds](#bounds) - [fairness](#fairness) - [proofs](#proofs) -
[where code and promise part](#where-code-and-promise-part) -
[not modelled](#not-modelled) - [plan](#plan)

## The system

One Node process, one event loop. Handlers interleave only where they `await`;
but the process can be killed anywhere, every write can fail, and the kernel's
device, the router and the files outlive it.

| Component | State | Operations | Talks to | What is hard | Correct means |
|---|---|---|---|---|---|
| Invite store (`invite-lifecycle.ts`, `atomic-io.ts`) | records, quarantine; `invite-state.json` | create, bindDigest, consumeByDigest, revoke, expireDue, prune, storeIdempotency | driven by `services.ts` | each method changes memory first and persists last: a throw or a crash leaves the two apart; an invite takes two persists; windows and limits are counted from records that come and go | an IP has one holder; an invite admits once, in time, not after a revocation; limits and quarantine hold of what was handed out |
| Services, daemon (`services.ts`, `index.ts`, `lock.ts`, `keys.ts`, `config*.ts`, `wgmanager.ts`) | config, keys, `wg`; lock file, key files, `config.json`, device | bootstrap, signals, patchSettings, createInvite, importInvite, importReply, ensureKeys, ensureInterface | all others; the kernel | two processes and one directory; two key files written one after the other; memory changed before a save is validated; what the last process left | one process at work; one identity; a loadable config; a role that stays; peers are consumed invites |
| Resource journal (`journal.ts`) | map; file of JSON lines | append, updateState, removeEntry, load | used by mapper, guard, sweep | torn lines, a file rewritten in place | the file says what the program believes |
| Port mapper (`port-mapper.ts`) | currentMapping, renewTimer | mapPort, unmapPort, renewal | journal, router | awaits between journal and router; requests lost or done without an answer; timers that are overwritten, and renewals that meet a call | every mapping of ours is in the journal |
| Recovery sweep (`recovery.ts`) | none | runRecoverySweep | journal, router | crashes while it sweeps, other programs on the same port | after it nothing of ours is left but what could not be removed |
| Listener manager (`listener.ts`) | status | enable, disable | port mapper, verifier | rebuilds `status` from `status` after each of three awaits | what is advertised was verified and is mapped |
| Reconciler (`reconciler.ts`) | applying, currentGeneration, appliedRosterVersion; state file | reconcile, load | WireGuard manager | a polled flag as lock, set and rollback that both throw, drift | one at a time; object, version and device agree; waiting callers return |
| HTTP API (`api-server.ts`, `session.ts`) | sessions, idempotency store, one key field, stream count | requests, streams | services | requests overlap at `readBody()`; clocks at boundaries; two close events | a key runs its request once; limits hold; slots are not lost |
| Endpoint reconciler, peer store (`endpoint-reconciler.ts`, `peerstore.ts`) | candidates, index, backoff, failures | tick, updateCandidatesFromRoster | device, prober, roster | ticks that overlap, lists replaced under a waiting tick | a reachable peer is found again; an outage is one |
| Roster compiler (`roster.ts`) | none | compileRoster | reconciler | each node compiles for itself, with its own listener setting | both ends of a tunnel have each other, and each node reaches each other |
| Control channel (`control.ts`) | nonces, rates; requests under way | send, handle, export, import | members and anchor, over any network | repeats, delays, clocks that differ, two units of time, the order of the checks | a request is handled once; nobody uses up another's quota; answers belong to their request |
| Game guard (`gameguard.ts`) | status; rules in the firewall | apply, remove | journal, firewall; `services.ts` | a row of commands that throw or do their work and time out; rules of earlier calls and processes stay | shown as applied means shut; the overlay is never cut off; the journal names the rules |

Some classes are complete and tested but nothing in `src/src` constructs them yet:
the reconciler, the endpoint reconciler with the peer store, the control channel,
the roster compiler, the recovery sweep; and nothing calls `prune()` and
`storeIdempotency()` of the invite store. They are modelled as their tests and
their comments use them. Where it matters, `InviteLifecycle` tells the two apart:
`DaemonSpec` has only what the daemon calls, `Spec` the whole class.

## Modules and the code

| Module | Stands for | How |
|---|---|---|
| `InviteLifecycle` | `invite-lifecycle.ts` as `services.ts` drives it | `mem` is the object, `disk` the file. One action per method, each with its leading `expireDue()`; in each the last persist works or throws. `binding` is the place between the two persists of one createInvite. The variables `minted` to `released` are history: what users were told. |
| `InviteLedger` | the class comment of `invite-lifecycle.ts` | the abstract specification: pending, then closed, then forgotten; an IP has one holder. No clock, memory, file or failure. `InviteLifecycle` implements it (`ImplementsLedger`), with the status read from the *file*. |
| `InviteLifecycleProofs` | - | proofs, see below |
| `Daemon` | `index.ts`, `lock.ts`, `keys.ts`, `config-store.ts`, the shared part of `services.ts`, kernel mode of `wgmanager.ts` | several processes over one directory. A request goes through the places `keys`, `identity`, `act`: the points where it can be cut off between two effects that last. |
| `DaemonProofs` | - | proofs, see below |
| `Journal` | `journal.ts` | `entries` is the map; of the file only the last complete line per id (`stored`) and what follows the last newline (`tail`). Methods in a whole and in a torn form. |
| `PortMapper` | `port-mapper.ts`, the router external | extends `Journal`. Steps only: what lies between two awaits is one. `live` is the router's table; a request that throws may have been carried out. A renewal fires and is answered whatever calls await (`renewing` counts those under way, `loose` the timers whose handle is lost); `raced` notes the ports for which one met an unmapPort(). |
| `Recovery` | `recovery.ts` with the two above | composes: crash, restart, sweep, mapper. Up to `MaxCuts` writes are cut short; `cuts` counts them, so that properties which need whole writes can say so. |
| `RecoveryProofs` | - | proofs, see below |
| `GameGuard` | `gameguard.ts`, `setGuard()` of `services.ts`, firewalls external | extends `Journal`. One action per command or journal write; `rules` is the list in the firewall in its order, `Passes` what nftables or Windows make of it. The process may die between any two. |
| `GameGuardProofs` | - | proofs, see below |
| `Listener` | `listener.ts` with the mapper | composes: enable and disable across their awaits, the address as it likes, a verifier that says anything or throws. What follows the last answer of unmapPort() is in the same turn of the event loop and so the same step (`Unmapped`). `SerialSpec` is a user who waits for answers, `Spec` one who does not. |
| `ListenerProofs` | - | proofs, see below |
| `Roster` | `compileRoster()` of `roster.ts`, WireGuard's routing external | operators only: what a node makes of a roster (`Compiled`), and whether packets get from each node to each other (`Connects`). |
| `Reconciler` | `reconciler.ts`, the device external | extends `Roster`; what it is to set are compiled rosters (`Desired`). Per caller a place, `applying` as in the code; setConfig may throw after doing any part. `Spelling` is how the device shows keys. |
| `ReconcilerProofs` | - | proofs about `Roster`, `Reconciler` and `Endpoints`, see below |
| `ApiServer` | `api-server.ts`, `session.ts` | a request waits for its body, then for its service; `keyField` is the one field of the server that all requests share. `recent`, `until` and `overlap` are history. |
| `ApiServerProofs` | - | proofs, see below |
| `Endpoints` | `endpoint-reconciler.ts`, `peerstore.ts` | one peer; times are ages, capped where the code no longer tells them apart; ticks may overlap. An endpoint that makes `applyEndpoint()` throw ends the process, as nobody handles the rejected tick of `run()`, and another one starts. `Sorted` lists the candidates that remain in the order of the code (`Before`); `Backoff` is the recursion of the code as a function of the failures in a row. Its names differ from those of `Reconciler` (`PeerSpec`, `PeerInit`, ...), as one module proves about both reconcilers. |
| `Control` | `control.ts`, the network external | a request stands for its nonce; any request that was sent may arrive at any time, whole or damaged, and any answer at any member. A request may also end with an answer without a signature, which send() returns unchecked; one whose send() throws has no answer. `now` has seconds, which requests carry, and fractions, at which nonces expire. |
| `ControlProofs` | - | proofs, see below |

`MC*` modules hold the constants and symmetries for TLC. The places `at`, `pc`,
`ask`, `job` in the modules are awaits (or, in `Daemon`, synchronous effects between
which a process can die); everything between two of them is one action.

What the models abstract: ids, keys, names and addresses are values that are
compared for equality only (except host numbers, of which the lowest free one is
taken, and journal ids, which are sorted by age); a bearer digest is a flag
(`bound`); signatures are assumed to work; logging and wording are left out. One input is
assumed: a reply that is imported was made from an invite that a user was given, and has its
digest (`offered` and `bound` in `ConsumeByDigest`); the code looks for any digest, and
`validateReplyPayload()` of `invite.ts` wants one that is not empty.

## Runs

`tlc -config <run>.cfg <module>`, the module as in `PROJECT.json`.

Runs that must pass:

| Run | Question | Properties |
|---|---|---|
| `invite_store` | Does the store keep its promises when any persist can throw and the process can die anywhere, prune and storeIdempotency included? | `TypeOK`, `LiveIPsDistinct`, `SharedOnlyAfterRetention`, `AdmittedOnceInTime`, `RevokedNotAdmitted`, `Limits`, `ToldIsDurable`, `QuarantineKept`, and the refinement `ImplementsLedger` |
| `daemon` | What do processes over one directory leave to each other? | `OneDaemon`, `FileIsGood`, `OneIdentity`, `PeersAreConsumed`, `RoleIsFinal` |
| `recovery_crash` | Does the journal name every mapping that a crash may leave, with renewals in the middle of calls, and does the sweep take it away? With writes that are cut short, does anything removed come back? | `JournalNamesMappings`, `FileIsMap`, `SweepLeavesNone` (whole writes), `NoResurrection` (cut ones too) |
| `guard` | The firewall rules on three platforms, when commands and writes throw, the subnet changes and processes die | `AppliedIsRestricted`, `OverlayPasses`, `RulesAreJournaled` |
| `listener_calls` | Enable and disable one after the other, renewals at any time, with routers that fail and verifiers that refuse or throw | `AdvertisedAtRest`, `DisabledIsUnmapped`, `MappingsAreJournaled` |
| `reconciler_calls` | Concurrent callers, compiled rosters, drift, failing rollbacks, restarts | `TypeOK`, `OneAtATime`, `SettledAgrees`, `AppliedFits`, liveness `CallsReturn` |
| `api_server` | Overlapping requests, retries, expiring sessions, streams | `KeyedOnce`, `RateWindow`, `SlotsAreUsed` |
| `endpoints` | Ticks that overlap, lists that change, endpoints that come and go or end the process | `ActiveIsProved`, `OutageIsMeant`, `PreviousIsKept`, liveness `Reconnects` |
| `control` | Requests and answers that are repeated, damaged, late, mixed up or unsigned; clocks that differ; restarts that lose the nonces | `HandledOnce`, `ReplayWasRun`, `QuotaIsOwn`, `AnswerIsFresh` |

Every module with state defines `TypeOK`. Two runs list it; it is proved, by itself or
as part of the inductive invariant, of every module; in `Endpoints` it is called
`PeerTypeOK`, and of `Listener` it holds for calls one after the other (`SerialSpec`).

Runs that must find a violation, each quoted with its promise in `PROJECT.json`
under `findings`: `invite_readerror` (`MembersHaveDistinctIPs`),
`listener_overlap` (`VerifiedBeforeAdvertised`), `api_keyfield`
(`KeyIsOwn`); see [below](#where-code-and-promise-part).

Every property of a passing run has a mutant in `PROJECT.json`: a plausible bug in
one mapped definition, written next to it in the module, under which TLC finds
the property violated.

Deadlock is not checked where the program really may stop (the clock of the model
at its bound with nothing left to do: `invite_*`, `api_*` and `control`).

## Bounds

The safety properties of all passing runs are also proved, for all values of the constants
(see [proofs](#proofs)); the bounds below are those of the small instances.

- `invite_store`: three invites over three hosts (`LastHost = 4`), two per hour and
  two pending, so that both limits bind before the hosts run out; times are scaled
  to 1 (hour) and 2 (lifetime, quarantine, retention) within 3, so that every
  boundary is passed once: an invite of time 1 expires, a host released at 1 is
  free again, and a member of 1 is forgotten at 3. The order of the code's values is
  the assumption `RetentionIsLongest`. `invite_readerror` has two hosts and a longer
  time, which is enough for its violation.
- `daemon`: two processes (each may be started again and again), two names, two
  members, three generated pairs: enough for one good pair, one torn one and one
  that is discarded.
- `recovery_crash`: two ports, one call, three ids, two cut writes: an entry that is
  retired, one that is left, one that is new, and a second tear on top of the first.
  Renewals are not bounded: there are as many as timers, which mapPort() sets.
- `guard`: two subnets (interchangeable, hence the symmetry), the two protocols of
  the code and four ids: two whole calls of apply(), or three when some are cut
  short. The rules are bounded by the ids.
- `control`: one member, two requests, skew, window and limit of one, a clock of
  three seconds and two parts of each, a sender's clock that is right or ahead by
  the whole skew: a request may arrive at, before and after each boundary, and the
  nonce that is kept twice the skew expires within the time. `QuotaIsOwn` speaks of
  what a member itself signed, so that others would add only more of the same.
- `listener_*`: two ports, two addresses, one call at a time or two; three ids, with
  which a listener is enabled three times, or two.
- `reconciler_calls`: an anchor, this node and a second member; three rosters, of
  which the third gives this node what the first does but for the anchor's
  endpoint, and the second has a member that listens; two callers, three calls: one that sets a
  generation to go back to, one that fails, one that waits.
- `api_*`: one session, two requests at a time, one or two keys, two streams for
  one slot, clocks of two units in a time of four.
- `endpoints`: two endpoints in two lists (a roster without an end, a DNS list with
  a TTL), two ticks, one replaced list; stale after two units, backoff one to two,
  two failures to unreachable.

Counters that grow without end in the program (`MaxTime`, `MaxGen`, `MaxId`,
`MaxCalls`, `MaxUpdates`, `MaxWait`) are bounded in the guards of the actions that
advance them and are constants marked "bound of the model".

## Fairness

Only two specifications state fairness.

- `Reconciler!FairSpec`: weak fairness of each caller's next step. getStatus() and
  setConfig() run commands with a timeout, so they answer or throw; a sleeping
  caller polls every 10 ms and the event loop gets to it. Calls are bounded, so
  weak fairness of a waiting caller suffices in the model; with calls without end
  a caller could be overtaken for ever, as the code has no queue.
- `Endpoints!PeerSpec`: weak fairness of the timer (`setInterval` starts ticks again and
  again), of the answers a tick waits for (apply and probe have timeouts) and of
  time. Whether an endpoint answers has no fairness; `Reconnects` assumes instead
  that from some time on one endpoint on the list answers, none on it throws and
  ticks no longer overlap.

Nothing else is fair: users, routers, crashes and sweeps may stop at any time. In
particular `Stopped` of `Daemon` is not, because `apiServer.stop()` waits for
connections without a limit.

## Proofs

`tlapm` on the eight `*Proofs` modules proves, for all values of the constants that
meet the named assumptions (a property named in a row is one that a run checks on a
small instance):

| Theorem | |
|---|---|
| `InviteLifecycleProofs!TypeCorrect` | `Spec => []TypeOK` |
| `InvariantCorrect` | `Spec => []IInv` |
| `LiveIPsDistinctCorrect` | no two live invites with one IP, in memory or file |
| `AdmissionCorrect` | an invite admits at most once, and in time |
| `RevocationCorrect` | and not after a confirmed revocation |
| `SharingCorrect` | an IP is shared across the retention window only |
| `LimitsCorrect` | the limits per hour and of pending invites |
| `DurabilityCorrect` | what was told is on file |
| `QuarantineCorrect` | a released IP rests for the quarantine |
| `DaemonCollisionFree` | as the daemon is wired (`DaemonSpec`), members never share an IP |
| `LedgerImplemented` | `Spec => ImplementsLedger`: the store, with memory, file, crashes and failing writes, implements `InviteLedger` |
| `DaemonProofs!InvariantCorrect` | `Spec => []IInv` |
| `OneDaemonCorrect`, `FileCorrect`, `IdentityCorrect`, `PeersCorrect`, `RoleCorrect` | the properties of run `daemon` |
| `ReconcilerProofs!RosterConnects` | nodes that compile one consistent roster reach each other |
| `InvariantCorrect`, `TypeCorrect` | `Spec => []IInv`, `Spec => []TypeOK` |
| `OneAtATimeCorrect`, `SettledAgreesCorrect`, `AppliedFitsCorrect` | the safety properties of run `reconciler_calls` |
| `SortedIsCorrect` | what `sortCandidates()` returns for any list: candidates that have not expired, by rank, each host once, none lost |
| `PeerInvariantCorrect`, `PeerTypeCorrect` | `PeerSpec => []PeerInv`, `PeerSpec => []PeerTypeOK` |
| `ActiveIsProvedCorrect`, `OutageIsMeantCorrect`, `PreviousIsKeptCorrect` | the safety properties of run `endpoints`; `PreviousIsKept` is an action property |
| `RecoveryProofs!InvariantCorrect`, `TypeCorrect` | `Spec => []IInv`, `Spec => []TypeOK` |
| `NamesCorrect`, `FileCorrect` | with whole writes the file names every mapping and is what the map is: `JournalNamesMappings`, `FileIsMap` |
| `ResurrectionCorrect` | what was removed is never read again, cut writes included: `NoResurrection` |
| `SweepCorrect` | what a sweep leaves behind: `SweepLeavesNone`, an action property |
| `ListenerProofs!InvariantCorrect`, `TypeCorrect` | `SerialSpec => []IInv`, `SerialSpec => []TypeOK` |
| `AdvertisedCorrect`, `DisabledCorrect`, `JournaledCorrect` | the properties of run `listener_calls`, of `SerialSpec` |
| `GameGuardProofs!InvariantCorrect` | `Spec => []IInv` |
| `AppliedCorrect`, `OverlayCorrect`, `JournaledCorrect` | the properties of run `guard` |
| `ControlProofs!InvariantCorrect` | `Spec => []IInv` |
| `HandledOnceCorrect`, `ReplayCorrect`, `QuotaCorrect`, `FreshCorrect` | the properties of run `control` |
| `ApiServerProofs!InvariantCorrect`, `TypeCorrect` | `Spec => []IInv`, `Spec => []TypeOK` |
| `SlotsCorrect`, `RateCorrect`, `KeyedCorrect` | the properties of run `api_server`; `KeyedOnce` is an action property |

**The invite store.** `LiveIPsDistinct` alone is not inductive: a restart replaces
memory by the file, so what holds of one must hold of the other; and most
properties speak of the outside world, which neither of them is. `IInv` therefore
says of memory *and* file (`Sound`): (1) `Coherent`: distinct live IPs, the two
limits, and sane times; (2) `Remembers`: each record still says what the world was
told of it (offered, admitted, revoked), or it is gone and the retention window is
over; (3) `KeepsQuarantine`: a host that was released is either quarantined for
long enough or, when the release did not reach the file, still held there by an
invite that was handed out. (3) is why a lost release is harmless: after a restart
the host is not free but occupied, and is released anew. `History` relates the
histories with each other, with `binding`, and with one fact across memory and
file: an offered invite that is pending in memory is pending on file, so no
consumption is confirmed that the file has already closed. The proof shows that
each snapshot operation (expire, create, bind, consume, revoke, prune) keeps the
three parts, once for any snapshot, and then uses each lemma for memory and, when
the write succeeds, for the file. Assumptions: finitely many invites, natural
numbers, a positive lifetime, and that retention is at least quarantine and hour.

**The daemon.** `OneDaemon` is inductive by itself and carries the rest: a step of
one process finds all others off (`StepIsAlone`), so a fact about every process
need be shown for one only. Added to the properties are `Pending` (what the next
step of a request relies on: the half-written pair is the last one generated, the
keys are there, a node being made a member may be one) and `Paired` (the second key
file never belongs to another pair than the first). Assumptions: `MaxGen` is a
natural number, and no process has the name of nobody.

**Rosters and the reconciler.** `RosterConnects` goes by cases. Where one of two nodes
listens, each of the two compiles a tunnel to the other (`TunnelIsMutual`), only the
other can have its IP as route (`RouteToIP`, as IPs are distinct), and the one that
listens can be dialled. Where neither does, both are members, have no tunnel with
each other, and so send and accept by way of the anchor (`ViaAnchor`). No order, size
or placement of the roster enters. `SettledAgrees` is not inductive, as it says nothing
while a call is at work: `ResultHolds` extends it to the moment in which a rollback
begins, and `CallsAreSane` says that there is then something to go back to. With
`OneAtATime` no second caller comes between. `AppliedFits` is `RosterConnects` for the
device of this node and what the others compile. Assumptions: the subnet is no node's
/32, and the rosters compile, as `compileRoster()` throws otherwise.

**The endpoints of a peer.** Two facts about data come first, both without an induction
over lists. `Sorted` is the list of the candidates that remain (`Remaining`) in the
order `Before`. That such a list exists is a matter of counting: the turn of a candidate
is the number of those before it, no two have the same turn, so every turn up to their
number is somebody's (`OrderExists`); and it leaves nobody out (`OrderIsComplete`). That
no host is lost is the least rank, and then the least index, among its candidates.
`Backoff` is recursive, so that there is such a function has to be shown (`ChainExists`,
`ChainIsUnique`, by a least counterexample).
Then the invariant. `ActiveIsProved` says nothing while a tick is at work, and needs to:
`OldWhileBusy` says that the handshake was too old when the one tick began and is still,
by the tick's own age, so neither another tick nor its own failure makes the peer active
before a probe succeeds; `FreshIsProved` extends the property from active peers to those
with a fresh handshake, as a later tick reads the state off its age; `JobsAim` is why the
device has an endpoint when a probe answers. `OutageIsMeant` is inductive with the types
alone, overlapping ticks included: each record of a failure moves count and backoff
together, and computes the state from the handshake known by then. `PreviousIsKept` is
`SortedIsCorrect` for the new list followed by the old one. Assumptions: times and limits
are positive, the lists are candidate lists, no host has the name of none, and the backoff
has reached its maximum when the failures reach theirs (in the code 10 s doubled 10 times
is far beyond 60 s), as the model counts failures up to there only.

**The ledger.** Each step of the store must map to a step of `InviteLedger` or to none,
where the ledger's status is read from the *file*. Two facts are missing in `IInv`
(`FileIsBehind`): the file is never ahead of memory, so that what a later write brings
to it lies onward on the ledger's machine; and while an invite is between createInvite()
and bindDigest() it is pending and file and memory are the same. The second makes the
ledger's `Offer` possible: the IP was free in memory when it was chosen, and what the
ledger asks is that nobody holds it in the file. All other steps are `Advance`: `Moves`
shows of each handler what it does to the invites that were handed out, and
`AdvanceFollows` is one argument for all of them.

**The journal, the mapper and the sweep.** Two layers. `Core` holds whatever is cut
short: entries and lines have their shape, ids are drawn in order, an id that was
removed is in the map, the file and the torn tail no more (this is `NoResurrection`:
ids are never drawn twice), one call has the mapper to itself, and a sweep is alone.
`WholeOK` holds as long as `cuts = 0`: the file is the map (`FileIsWhole`); every port
the router has, may be getting (a call that adds, a renewal) or may keep (`current`,
but for a call that deletes) has its entry (`NamesAll`), which is why mapPort() journals
first and unmapPort() last. Renewals need an exception: one that is on its way when
unmapPort() begins, or is sent while unmapPort() awaits, may add the port after its
entry is gone. Such a port is in `raced`, and stays there until mapPort() journals it
again; the last part of `NamesAll` says that while a call deletes *every* renewal under
way is of such a port, so an entry that goes is missed by nothing else. Further, a
deleting call's list names the ports of its entries (`ListIsRight`); and what a sweep has
yet to take away is still on its list (`SweepIsDue`). A crash keeps all of it, as only the
file and the router survive and `NamesAll` speaks of nothing else for them. Assumptions:
`MaxId` and `MaxCuts` are natural, and no port is `NoPort`.

**The listener.** For calls one after the other. `PlaceOK` ties the place of a call in
listener.ts to the place of its request in the mapper below and to what the status
says meanwhile; `RestOK` is what is left when the last call was answered. The two hand
over to each other: a call that ends leaves the endpoint that the verifier saw last, or
none, or the state "verifying" if the verifier threw, which the next call replaces before
it awaits anything. Renewals come and go in the middle of all of this and touch neither
place nor status; for the router the mapper's part is `NamesAll` again, with `raced`. With
calls that overlap none of the three properties holds of `Spec`, which TLC shows with the
constants of `listener_overlap`, so `SerialSpec` is what the theorems are about.

**The game guard.** `ApplyIsSane` says what apply() has done so far at each of its
places: before the rules both entries are journaled, before rule n all earlier ones are
in force, before it verifies all are; so `applied` implies that both drops are there
(`AppliedDrops`), and they stay, since only the end of remove() takes rules away, and
that resets the status. `OverlayPasses` needs the order
of the list: on Linux each drop has an accept of its protocol before it
(`DropsAreBehind`), the first rule that matches decides, and its existence is the
well-foundedness of the numbers. Assumptions: the protocols and platforms of the code,
and that no subnet is one of the marks for "outside", "any" and "none".

**The control channel.** The heart is `NonceOutlives`: for a sender whose clock is ahead
by less than the skew, the nonce of a request that was handled expires only after the
request is out of time, so either the nonce is there or the time check refuses.
`SentBeforeNow` and `SentInOrder` keep requests that are not yet sent out of the
anchor's memory. `QuotaIsOwn` counts calls as a set (`Calls`), since a sum over requests
would need an induction. Answers carry the content of some time since their request
(`AnswersAreFresh`); a request that ends with an unsigned answer changes nothing else
(`EndsIs`).

**The HTTP server.** `OneByOne` describes the server as long as no request came while
another was under way: the key field is the reader's own, what runs uses its own key,
and the store keeps an answer at least as long as `until` promises. `SlotsAreUsed` is a
matter of counting a set that gains or loses one element. For `RateWindow`, `Rates` says
that of the requests younger than a window those since the start of the current count
are no more than the count, and those before are at most the limit; when the count
starts again the latter have become too old. Assumptions: limits and times are positive,
and there are finitely many streams.

**Only model-checked**: the liveness properties `CallsReturn` and `Reconnects`, as the
prover does not reason about fairness.

## Where code and promise part

With a run (details and quotes in `findings`):

1. `services.ts:197` keeps a new invite store although its `load()` threw; the next
   request works on an empty store and its persist replaces the file. Two members
   then share an overlay IP (`invite_readerror`).
2. `listener.ts:102`: two enable() calls share `status`. One awaits the verifier while
   the other maps its port and writes its endpoint there; the verdict on the first
   makes the endpoint of the second active and advertised, which nobody has verified
   (`listener_overlap`).
3. `api-server.ts:322`: the idempotency key of a request is taken from a field of
   the server that the next request overwrites (`api_keyfield`).

Without a run of their own; the models contain them, and the properties are stated
so that they hold next to them:

- `prune()` forgets a consumed invite after 30 days though its member still has the
  IP (`SharedOnlyAfterRetention` says how far it goes). The daemon does not call it.
- `listener.ts:102`: enabling again moves a status that is still "verified" and
  "advertised" to a new endpoint before the verifier has looked at it;
  `AdvertisedAtRest` holds because a call that ends puts it right.
- `gameguard.ts`: rules are only ever added, so each apply(true) repeats them. After a
  change of the subnet the new accepting rules stand behind the old blocking ones,
  and the overlay is cut off although the state is "applied" (`OverlayPasses` is
  about one subnet). On Windows the blocking rule wins over the accepting one at
  once, and the next apply(true) takes our own rules for those of others and says
  "conflict" (so `OverlayPasses` is about Linux). On macOS an empty set is loaded.
  apply(false) leaves the rules in force. remove() drops the entries before the
  rules, and nothing in the daemon calls it.
- `control.ts:20`: the request of a sender whose clock is ahead by the whole skew is
  still in time after its nonce has expired, for less than a second, and is then
  handled again (`HandledOnce` says whose requests are safe). A restart without
  export() and import() forgets all nonces. Errors are not
  signed, and `control.ts:250` returns any answer without the fields `sig` and `nonce`
  unchecked, so `AnswerIsFresh` is about answers whose signature was checked.
- `roster.ts:237`: whether a tunnel is wanted depends on the node's own setting, which
  the roster may not yet have; then one end has a tunnel that the other lacks. A
  listener without an endpoint makes one that nobody can dial. (`Consistent` in
  `AppliedFits` excludes both.) `disabled` members are compiled like others, the
  keepalive is set toward nodes that do not listen instead of by them, and nothing
  refuses an older `rosterVersion`.
- `port-mapper.ts:153`: the renewal timer waits for no call. Where a renewal meets an
  unmapPort(), the port can be mapped again after its entry was removed, and neither
  the listener nor a sweep knows of it until the lease ends (`raced`).
- `listener.ts:100`: a verifier that throws makes enable() reject; the state stays
  "verifying", the mapping stays, and after an earlier success the new endpoint is
  shown as verified and advertised until the next call (`AdvertisedAtRest` excepts
  that state).
- A disable(), or an enable() whose mapPort() fails, that is answered while another
  enable() awaits the verifier: the verdict then makes a listener active and
  advertised that has no endpoint, after the disable() no mapping either.
- With overlapping calls a mapping can lose its journal entry: an unmapPort() that
  starts while an add is pending lists the entry and drops it before the router adds the port.
- `journal.ts:117`: after a torn line the next append continues that line, and
  `load()` skips both, although append() has returned.
- `port-mapper.ts:152`: "renewal failed, will retry on next cycle", but the timer is
  a single `setTimeout`.
- `reconciler.ts:66` compares keys only, so a changed endpoint is "unchanged";
  `reconciler.ts:122` compares keys in two spellings, so with the real manager an
  unchanged roster is set again on each call.
- `api-server.ts:308` gives a stream's slot back twice; a retry that arrives while the
  first attempt runs calls the service again.
- `endpoint-reconciler.ts`: overlapping ticks that fail together skip a candidate; an
  `applyEndpoint()` that throws rejects a tick that nobody handles, which ends the
  process. `peerstore.ts:138`: a second
  update drops the fallbacks of the first.
- `keys.ts:54`: cut short between the two files, keys are never generated, since the
  exclusive open of the first fails from then on. `services.ts:112`: after a
  setConfig() that threw, the interface counts as running and is not configured
  again. After a restart the device has no peers. A member whose invite was
  consumed while the interface was down is never added.

## Not modelled

Encoding and checking of invites (`invite.ts`), validation, signing and encoding of
rosters, canonical JSON, cryptography, the
WireGuard wire formats and userspace mode (`wg-uapi.ts`), operating-system commands
(`osnet.ts`, `platform.ts`, `preflight.ts`), diagnostics, the service manager, the
logger, setup scripts and the web page: they keep no state that another component
relies on, or are pure input and output. `PROJECT.json` lists each with its reason.
Checks that only refuse a request (address, Host, CSRF, fields) change no state and
are left out of `ApiServer` and `Daemon`. In `Control` the encryption of the overlay
is not used; a signature cannot be forged, and a damaged copy fails it.

## Plan

Order: the component whose errors cannot be repaired first (an IP or an admission
that was handed out), then what a crash leaves behind, then concurrency within the
process, then what is not wired up yet.

1. *done* `InviteLedger`, `InviteLifecycle`, proofs; `invite_store`, `invite_readerror`.
2. *done* `Journal`, `PortMapper`, `Recovery`, `Listener`.
3. *done* `Reconciler`, `ApiServer`, `Endpoints`.
4. *done* `Daemon` and its proofs.
5. *done* `GameGuard`, over `Journal`.
6. *done* `Roster` under `Reconciler`; `Control`.
7. Userspace mode of the WireGuard manager: starting takes an await there, so
   requests really overlap in `services.ts`.
8. *done* `ReconcilerProofs`: `Roster` and `Reconciler`.
9. *done* `RecoveryProofs`, `ListenerProofs`, `GameGuardProofs`, `ControlProofs`,
   `ApiServerProofs`; the refinement of `InviteLedger`.
10. *done* `Endpoints` without a fold and with a recursive backoff; its proofs in
   `ReconcilerProofs`.
