------------------------------- MODULE Daemon -------------------------------
(***************************************************************************)
(* The daemon (src/src/index.ts, the shared part of src/src/services.ts):  *)
(* processes that start, serve requests, are told to stop or die, and what *)
(* they leave to each other: the lock file, the two key files, the         *)
(* configuration and the kernel's WireGuard device.                        *)
(*                                                                         *)
(* A request that needs keys or the device goes through several steps; in  *)
(* kernel mode they block the event loop, so a process serves one request  *)
(* at a time, but it may die between any two of them.  Of the invite store *)
(* only the replies that it consumed are kept (see InviteLifecycle).       *)
(***************************************************************************)
EXTENDS Integers, FiniteSets

CONSTANTS
    Proc,       \* processes that are started with one configuration directory
    Name,       \* values of a setting that validateConfig() accepts
    Member,     \* members whose reply may be imported
    MaxGen      \* bound of the model: key pairs generated

ASSUME MaxGenIsNat == MaxGen \in Nat

VARIABLES
    lock,       \* the process whose pid is in the lock file, or NoOne
    file,       \* config.json, or NoConfig
    keyFile,    \* wg.key and identity.key: the pair they belong to, None or Torn
    gen,        \* pairs generated so far
    device,     \* the kernel's device, or NoDevice
    consumed,   \* members whose invite is consumed in invite-state.json
    at, goal,   \* per process: where it is, and the request that it serves
    stopping,   \* per process: SIGINT or SIGTERM has come
    mem, keys,  \* per process: this.config and this.keys
    wg,         \* per process: this.wg says isRunning()
    shown       \* history: the pair that invites or replies were signed with

files == <<lock, file, keyFile, gen, device, consumed>>
vars == <<files, at, goal, stopping, mem, keys, wg, shown>>

NoOne == "nobody"
ASSUME NoOneIsNoProc == NoOne \notin Proc
None == 0
Torn == -1
Bad == "bad"
NoConfig == [role |-> "none", name |-> Bad]
DefaultConfig == [role |-> "null", name |-> "null"]
Config == [role : {"null", "anchor", "member"}, name : Name \cup {Bad, "null"}]
Anchor == "anchor"
NoDevice == [key |-> Torn, peers |-> {}]
Bare == [key |-> None, peers |-> {}]
Configured(k, peers) == [key |-> k, peers |-> peers]

Alive(p) == at[p] # "off"
Ready(p) == at[p] = "ready"
Valid(c) == c.name # Bad

Init ==
    /\ lock = NoOne /\ file = NoConfig
    /\ keyFile = [wg |-> None, identity |-> None] /\ gen = 0
    /\ device = NoDevice /\ consumed = {}
    /\ at = [p \in Proc |-> "off"] /\ goal = [p \in Proc |-> "none"]
    /\ stopping = [p \in Proc |-> FALSE]
    /\ mem = [p \in Proc |-> DefaultConfig] /\ keys = [p \in Proc |-> None]
    /\ wg = [p \in Proc |-> FALSE]
    /\ shown = None

Goes(p, place) == at' = [at EXCEPT ![p] = place]
\* The request is answered, with a result or with an error.
Answers(p) == Goes(p, "ready") /\ goal' = [goal EXCEPT ![p] = "none"]

-----------------------------------------------------------------------------
(* bootstrap() and main() *)

\* SingleInstanceLock.acquire(); a process that is refused exits.
Acquire(p) ==
    /\ at[p] = "off" /\ lock = NoOne
    /\ lock' = p
    /\ Goes(p, "starting")
    /\ UNCHANGED <<file, keyFile, gen, device, consumed, goal, stopping, mem, keys, wg, shown>>

\* loadOrCreateConfig(), VpnServices, ApiServer.start().
Start(p) ==
    LET c == IF file = NoConfig THEN DefaultConfig ELSE file
    IN  /\ at[p] = "starting" /\ Valid(c)
        /\ file' = c
        /\ mem' = [mem EXCEPT ![p] = c]
        /\ Goes(p, "ready")
        /\ UNCHANGED <<lock, keyFile, gen, device, consumed, goal, stopping, keys, wg, shown>>

Gone(p) ==
    /\ Goes(p, "off")
    /\ goal' = [goal EXCEPT ![p] = "none"] /\ stopping' = [stopping EXCEPT ![p] = FALSE]
    /\ mem' = [mem EXCEPT ![p] = DefaultConfig] /\ keys' = [keys EXCEPT ![p] = None]
    /\ wg' = [wg EXCEPT ![p] = FALSE]

\* It dies, or exits because starting it failed: the lock file and the device
\* stay.
Dies(p) ==
    /\ Alive(p)
    /\ Gone(p)
    /\ UNCHANGED <<files, shown>>

\* Mutant: the lock is released when the signal comes.
SignalReleases(p) ==
    /\ at[p] \notin {"off", "starting"}
    /\ stopping' = [stopping EXCEPT ![p] = TRUE]
    /\ lock' = NoOne
    /\ UNCHANGED <<file, keyFile, gen, device, consumed, at, goal, mem, keys, wg, shown>>

Signal(p) ==
    /\ at[p] \notin {"off", "starting"}
    /\ stopping' = [stopping EXCEPT ![p] = TRUE]
    /\ UNCHANGED <<files, at, goal, mem, keys, wg, shown>>

\* Connections end one day: stopInterface() (best effort), release(), exit.
Stopped(p) ==
    /\ Ready(p) /\ stopping[p]
    /\ device' \in {device} \cup (IF wg[p] THEN {NoDevice} ELSE {})
    /\ lock' = NoOne
    /\ Gone(p)
    /\ UNCHANGED <<file, keyFile, gen, consumed, shown>>

\* The user removes the lock file of a process that is no more.
UserUnlocks ==
    /\ lock # NoOne /\ ~Alive(lock)
    /\ lock' = NoOne
    /\ UNCHANGED <<file, keyFile, gen, device, consumed, at, goal, stopping, mem, keys, wg,
                   shown>>

-----------------------------------------------------------------------------
(* Requests up to their first step that may be cut off *)

\* patchSettings() up to saveConfig(): memory first.
Patched(c, n) == [role |-> IF c.role = "null" THEN "anchor" ELSE c.role, name |-> n]

\* Mutant: the file is written before it is validated.
PatchRejectedSaves(p, n) ==
    LET c == Patched(mem[p], n)
    IN  /\ Ready(p)
        /\ mem' = [mem EXCEPT ![p] = c]
        /\ file' \in {file, c}
        /\ UNCHANGED <<lock, keyFile, gen, device, consumed, at, goal, stopping, keys, wg, shown>>

\* saveConfig() throws: the settings are not valid, or the file is not written.
PatchRejected(p, n) ==
    /\ Ready(p)
    /\ mem' = [mem EXCEPT ![p] = Patched(@, n)]
    /\ UNCHANGED <<files, at, goal, stopping, keys, wg, shown>>

\* Saved; an anchor goes on to ensureInterface(), which returns at once when
\* this.wg is running.
PatchSaved(p, n) ==
    LET c == Patched(mem[p], n)
    IN  /\ Ready(p) /\ Valid(c)
        /\ mem' = [mem EXCEPT ![p] = c] /\ file' = c
        /\ IF c.role = "anchor" /\ ~wg[p]
           THEN Goes(p, "keys") /\ goal' = [goal EXCEPT ![p] = "interface"]
           ELSE UNCHANGED <<at, goal>>
        /\ UNCHANGED <<lock, keyFile, gen, device, consumed, stopping, keys, wg, shown>>

CreateInvite(p) ==
    /\ Ready(p) /\ mem[p].role = "anchor"
    /\ Goes(p, "keys") /\ goal' = [goal EXCEPT ![p] = "invite"]
    /\ UNCHANGED <<files, stopping, mem, keys, wg, shown>>

\* Mutant: any node imports.
MayImportAlways(c) == c.role \in {"null", "anchor", "member"}

MayImport(c) == c.role \in {"null", "member"}
ImportInvite(p) ==
    /\ Ready(p) /\ MayImport(mem[p])
    /\ Goes(p, "keys") /\ goal' = [goal EXCEPT ![p] = "member"]
    /\ UNCHANGED <<files, stopping, mem, keys, wg, shown>>

\* Mutant: the peer is added whether or not the invite could be consumed.
ImportReplyUnsaved(p, m) ==
    /\ Ready(p) /\ mem[p].role = "anchor" /\ m \notin consumed
    /\ consumed' \in {consumed, consumed \cup {m}}
    /\ device' \in {device} \cup
          (IF wg[p] /\ device # NoDevice THEN {[device EXCEPT !.peers = @ \cup {m}]} ELSE {})
    /\ UNCHANGED <<lock, file, keyFile, gen, at, goal, stopping, mem, keys, wg, shown>>

\* consumeByDigest(), then addMemberPeer(), which does nothing without a running
\* interface and may throw with one.
ImportReply(p, m) ==
    /\ Ready(p) /\ mem[p].role = "anchor" /\ m \notin consumed
    /\ consumed' = consumed \cup {m}
    /\ device' \in {device} \cup
          (IF wg[p] /\ device # NoDevice THEN {[device EXCEPT !.peers = @ \cup {m}]} ELSE {})
    /\ UNCHANGED <<lock, file, keyFile, gen, at, goal, stopping, mem, keys, wg, shown>>

-----------------------------------------------------------------------------
(* ensureKeys() *)

KeysExist == keyFile.wg # None /\ keyFile.identity # None

KeysHeld(p) ==
    /\ at[p] = "keys" /\ keys[p] # None
    /\ Goes(p, "act")
    /\ UNCHANGED <<files, goal, stopping, mem, keys, wg, shown>>

\* loadKeys(): it throws if a file has not the length of a key.
LoadKeys(p) ==
    /\ at[p] = "keys" /\ keys[p] = None /\ KeysExist
    /\ IF Torn \in {keyFile.wg, keyFile.identity}
       THEN Answers(p) /\ UNCHANGED keys
       ELSE keys' = [keys EXCEPT ![p] = keyFile.wg] /\ Goes(p, "act") /\ UNCHANGED goal
    /\ UNCHANGED <<files, stopping, mem, wg, shown>>

\* Mutant: a new process always generates keys.
GenerateWgAlways(p) ==
    /\ at[p] = "keys" /\ keys[p] = None /\ gen < MaxGen
    /\ gen' = gen + 1
    /\ keyFile' = [wg |-> gen + 1, identity |-> None]
    /\ Goes(p, "identity") /\ UNCHANGED goal
    /\ UNCHANGED <<lock, file, device, consumed, stopping, mem, keys, wg, shown>>

\* generateAndStoreKeys(): each file is opened with 'wx', so one that exists
\* makes it throw; a write that fails leaves the file empty.
GenerateWg(p) ==
    /\ at[p] = "keys" /\ keys[p] = None /\ ~KeysExist /\ gen < MaxGen
    /\ gen' = gen + 1
    /\ \/ /\ keyFile.wg # None
          /\ Answers(p) /\ UNCHANGED keyFile
       \/ /\ keyFile.wg = None
          /\ keyFile' = [keyFile EXCEPT !.wg = gen + 1]
          /\ Goes(p, "identity") /\ UNCHANGED goal
       \/ /\ keyFile.wg = None
          /\ keyFile' = [keyFile EXCEPT !.wg = Torn]
          /\ Answers(p)
    /\ UNCHANGED <<lock, file, device, consumed, stopping, mem, keys, wg, shown>>

GenerateIdentity(p) ==
    /\ at[p] = "identity"
    /\ \/ /\ keyFile.identity # None
          /\ Answers(p) /\ UNCHANGED keyFile
       \/ /\ keyFile.identity = None
          /\ keyFile' = [keyFile EXCEPT !.identity = gen]
          /\ Goes(p, "keys") /\ UNCHANGED goal
       \/ /\ keyFile.identity = None
          /\ keyFile' = [keyFile EXCEPT !.identity = Torn]
          /\ Answers(p)
    /\ UNCHANGED <<lock, file, gen, device, consumed, stopping, mem, keys, wg, shown>>

-----------------------------------------------------------------------------
(* What the request wanted the keys for *)

\* The invite store throws: a limit, no free IP, or a write that failed.
InviteRefused(p) ==
    /\ at[p] = "act" /\ goal[p] = "invite"
    /\ Answers(p)
    /\ UNCHANGED <<files, stopping, mem, keys, wg, shown>>

SignInvite(p) ==
    /\ at[p] = "act" /\ goal[p] = "invite"
    /\ shown' = keys[p]
    /\ Answers(p)
    /\ UNCHANGED <<files, stopping, mem, keys, wg>>

\* this.wg.start() says nothing of a failure, or that the device was there;
\* setConfig() replaces key and peers, or throws; the rest may throw, too.
BringUp(p, peers) ==
    /\ device' \in {Configured(keys[p], peers), device, IF device = NoDevice THEN Bare ELSE device}
    /\ wg' = [wg EXCEPT ![p] = TRUE]

\* The rest of ensureInterface(): peers start from none.
EnsureInterface(p) ==
    /\ at[p] = "act" /\ goal[p] = "interface"
    /\ BringUp(p, {})
    /\ Answers(p)
    /\ UNCHANGED <<lock, file, keyFile, gen, consumed, stopping, mem, keys, shown>>

\* The signature of the imported invite is wrong.
SignatureInvalid(p) ==
    /\ at[p] = "act" /\ goal[p] = "member"
    /\ Answers(p)
    /\ UNCHANGED <<files, stopping, mem, keys, wg, shown>>

\* The rest of importInvite(): saveConfig() with the anchor's name, which may
\* not be a valid one, ensureMemberInterface(), the reply.
Joined(c, n) == [c EXCEPT !.role = "member", !.name = n]
JoinRejected(p, n) ==
    /\ at[p] = "act" /\ goal[p] = "member"
    /\ mem' = [mem EXCEPT ![p] = Joined(@, n)]
    /\ Answers(p)
    /\ UNCHANGED <<files, stopping, keys, wg, shown>>

Join(p, n) ==
    LET c == Joined(mem[p], n)
    IN  /\ at[p] = "act" /\ goal[p] = "member" /\ Valid(c)
        /\ mem' = [mem EXCEPT ![p] = c] /\ file' = c
        /\ BringUp(p, {Anchor})
        /\ shown' \in {shown, keys[p]}
        /\ Answers(p)
        /\ UNCHANGED <<lock, keyFile, gen, consumed, stopping, keys>>

\* A patch that does not give a name leaves it.
Settings == Name \cup {Bad}
Patches(p) == Settings \cup {mem[p].name}
Request(p) ==
    \/ \E n \in Patches(p) : PatchRejected(p, n) \/ PatchSaved(p, n)
    \/ CreateInvite(p) \/ ImportInvite(p) \/ \E m \in Member : ImportReply(p, m)
GoesOn(p) ==
    \/ KeysHeld(p) \/ LoadKeys(p) \/ GenerateWg(p) \/ GenerateIdentity(p)
    \/ InviteRefused(p) \/ SignInvite(p) \/ EnsureInterface(p) \/ SignatureInvalid(p)
    \/ \E n \in Settings : JoinRejected(p, n) \/ Join(p, n)

Next ==
    \/ \E p \in Proc :
          \/ Acquire(p) \/ Start(p) \/ Signal(p) \/ Stopped(p) \/ Dies(p)
          \/ Request(p) \/ GoesOn(p)
    \/ UserUnlocks

Spec == Init /\ [][Next]_vars

-----------------------------------------------------------------------------
(* Properties *)

\* The variables keep their types.
TypeOK ==
    /\ lock \in Proc \cup {NoOne}
    /\ file \in Config \cup {NoConfig}
    /\ keyFile \in [wg : {None, Torn} \cup 1 .. MaxGen, identity : {None, Torn} \cup 1 .. MaxGen]
    /\ gen \in 0 .. MaxGen
    /\ device \in [key : {None, Torn} \cup 1 .. MaxGen, peers : SUBSET (Member \cup {Anchor})]
    /\ consumed \subseteq Member
    /\ at \in [Proc -> {"off", "starting", "ready", "keys", "identity", "act"}]
    /\ goal \in [Proc -> {"none", "interface", "invite", "member"}]
    /\ \A p \in Proc : goal[p] # "none" <=> at[p] \in {"keys", "identity", "act"}
    /\ stopping \in [Proc -> BOOLEAN] /\ wg \in [Proc -> BOOLEAN]
    /\ mem \in [Proc -> Config] /\ keys \in [Proc -> 0 .. MaxGen]
    /\ shown \in 0 .. MaxGen

\* At most one process works on the files and the device, and it is the one
\* that the lock file names: stop.ts signals no other.
OneDaemon == \A p \in Proc : Alive(p) => lock = p

\* The configuration on file can always be loaded, whatever was rejected or
\* failed in memory, and a process that runs plays the role on file.
FileIsGood ==
    /\ file # NoConfig => Valid(file)
    /\ \A p \in Proc : at[p] \notin {"off", "starting"} /\ file.role # "null"
           => mem[p].role = file.role

\* A role that was saved is never changed, by no order of requests, failed
\* saves and restarts.
RoleIsFinal == [][file.role \in {"anchor", "member"} => file'.role = file.role]_vars

\* A node has one pair of keys: both files, the running process, the device
\* and what was ever signed agree, however often generating was cut short.
OneIdentity ==
    LET used == ({keys[p] : p \in Proc} \cup {device.key, shown}) \ {None, Torn}
    IN  \A k \in used : keyFile = [wg |-> k, identity |-> k]

\* Nobody becomes a peer but by an invite that is consumed on file, so no
\* crash makes a peer whose invite could be used again.
PeersAreConsumed == device.peers \subseteq consumed \cup {Anchor}
=============================================================================
