---------------------------- MODULE DaemonProofs ----------------------------
(* Theorems of Daemon for any processes, names, members and number of      *)
(* generated keys.                                                         *)
EXTENDS Daemon, TLAPS

\* What a request relies on at its next step: the pair that is half written is
\* the last one generated, the keys are held before they are used, and only a
\* node that may be a member is being made one.
Pending ==
    \A p \in Proc :
        /\ at[p] = "identity" => keyFile.wg = gen
        /\ at[p] = "act" => keys[p] # None
        /\ goal[p] = "member" => MayImport(mem[p])

\* The second key file is never of another pair than the first.
Paired == keyFile.identity \in {None, Torn, keyFile.wg}

IInv ==
    TypeOK /\ OneDaemon /\ FileIsGood /\ OneIdentity /\ PeersAreConsumed /\ Pending /\ Paired

\* The steps of one process.
Step(p) ==
    Acquire(p) \/ Start(p) \/ Signal(p) \/ Stopped(p) \/ Dies(p) \/ Request(p) \/ GoesOn(p)

-----------------------------------------------------------------------------
\* What a configuration may have for a name.
Names == Name \cup {Bad, "null"}

LEMMA NameFacts ==
    /\ Settings \subseteq Names
    /\ TypeOK => \A p \in Proc : Patches(p) \subseteq Names
  BY DEF Names, Settings, Patches, TypeOK, Config

LEMMA ConfigFacts ==
    /\ DefaultConfig \in Config /\ Valid(DefaultConfig) /\ DefaultConfig.role = "null"
    /\ NoConfig \notin Config /\ ~Valid(NoConfig)
    /\ \A c \in Config, n \in Names : Patched(c, n) \in Config /\ Joined(c, n) \in Config
    /\ \A c \in Config, n \in Names :
          /\ c.role # "null" => Patched(c, n).role = c.role
          /\ Patched(c, n).role # "null"
          /\ Joined(c, n).role = "member"
  BY DEF DefaultConfig, Config, Valid, Bad, NoConfig, Names, Patched, Joined

LEMMA InitIInv == Init => IInv
<1> SUFFICES ASSUME Init PROVE IInv
  OBVIOUS
<1>1. TypeOK
  BY MaxGenIsNat, ConfigFacts DEF Init, TypeOK, NoDevice, None, Torn
<1>2. OneDaemon
  BY DEF Init, OneDaemon, Alive
<1>3. FileIsGood
  BY DEF Init, FileIsGood
<1>4. OneIdentity
  BY DEF Init, OneIdentity, NoDevice, None, Torn
<1>5. PeersAreConsumed
  BY DEF Init, PeersAreConsumed, NoDevice
<1>6. Pending /\ Paired
  BY DEF Init, Pending, Paired, None
<1> QED
  BY <1>1, <1>2, <1>3, <1>4, <1>5, <1>6 DEF IInv

-----------------------------------------------------------------------------
LEMMA DeviceTyped ==
    ASSUME TypeOK, NEW p \in Proc, NEW peers \in SUBSET (Member \cup {Anchor}),
           BringUp(p, peers)
    PROVE  /\ device' \in [key : {None, Torn} \cup 1 .. MaxGen,
                           peers : SUBSET (Member \cup {Anchor})]
           /\ wg' \in [Proc -> BOOLEAN]
  BY MaxGenIsNat DEF TypeOK, BringUp, Configured, Bare, NoDevice, None, Torn

LEMMA TypeStep == ASSUME TypeOK, [Next]_vars PROVE TypeOK'
<1>1. CASE UNCHANGED vars
  BY <1>1 DEF TypeOK, vars, files
<1>2. CASE UserUnlocks
  BY <1>2 DEF TypeOK, UserUnlocks
<1>3. ASSUME NEW p \in Proc, Acquire(p) \/ Start(p) \/ Signal(p)
      PROVE TypeOK'
  <2>1. CASE Acquire(p)
    BY <2>1 DEF TypeOK, Acquire, Goes
  <2>2. CASE Start(p)
    <3>1. file' \in Config /\ mem' \in [Proc -> Config]
      BY <2>2, ConfigFacts DEF TypeOK, Start
    <3> QED
      BY <2>2, <3>1 DEF TypeOK, Start, Goes
  <2>3. CASE Signal(p)
    BY <2>3 DEF TypeOK, Signal, files
  <2> QED
    BY <1>3, <2>1, <2>2, <2>3
<1>4. ASSUME NEW p \in Proc, Stopped(p) \/ Dies(p)
      PROVE TypeOK'
  <2>1. Gone(p)
    BY <1>4 DEF Stopped, Dies
  <2>2. NoDevice \in [key : {None, Torn} \cup 1 .. MaxGen, peers : SUBSET (Member \cup {Anchor})]
    BY DEF NoDevice
  <2> QED
    BY <1>4, <2>1, <2>2, ConfigFacts, MaxGenIsNat
    DEF TypeOK, Stopped, Dies, Gone, Goes, Ready, Alive, files, None
<1>5. ASSUME NEW p \in Proc, Request(p)
      PROVE TypeOK'
  <2>1. ASSUME NEW n \in Patches(p), PatchRejected(p, n) \/ PatchSaved(p, n)
        PROVE TypeOK'
    <3> DEFINE c == Patched(mem[p], n)
    <3>1. c \in Config
      BY ConfigFacts, NameFacts DEF TypeOK
    <3>2. mem' = [mem EXCEPT ![p] = c] /\ Ready(p)
      BY <2>1 DEF PatchRejected, PatchSaved
    <3>3. /\ mem' \in [Proc -> Config] /\ file' \in Config \cup {NoConfig}
      BY <2>1, <3>1, <3>2 DEF TypeOK, PatchRejected, PatchSaved, files
    <3>4. CASE PatchRejected(p, n)
      BY <3>3, <3>4 DEF TypeOK, PatchRejected, files
    <3>5. CASE PatchSaved(p, n)
      BY <3>3, <3>2, <3>5 DEF TypeOK, PatchSaved, Goes, Ready
    <3> QED
      BY <2>1, <3>4, <3>5
  <2>2. CASE CreateInvite(p) \/ ImportInvite(p)
    BY <2>2 DEF TypeOK, CreateInvite, ImportInvite, Goes, Ready, files
  <2>3. ASSUME NEW m \in Member, ImportReply(p, m)
        PROVE TypeOK'
    BY <2>3 DEF TypeOK, ImportReply, Ready
  <2> QED
    BY <1>5, <2>1, <2>2, <2>3 DEF Request
<1>6. ASSUME NEW p \in Proc, GoesOn(p)
      PROVE TypeOK'
  <2>0. CASE KeysHeld(p)
    BY <2>0 DEF TypeOK, KeysHeld, Goes, files
  <2>1. CASE LoadKeys(p)
    <3>1. keys' \in [Proc -> 0 .. MaxGen]
      <4>1. Torn \notin {keyFile.wg, keyFile.identity} => keyFile.wg \in 0 .. MaxGen
        BY MaxGenIsNat DEF TypeOK, None, Torn
      <4> QED
        BY <2>1, <4>1 DEF TypeOK, LoadKeys
    <3> QED
      BY <2>1, <3>1 DEF TypeOK, LoadKeys, Goes, Answers, files
  <2>2. CASE GenerateWg(p)
    BY <2>2, MaxGenIsNat DEF TypeOK, GenerateWg, Goes, Answers, None, Torn
  <2>3. CASE GenerateIdentity(p)
    BY <2>3, MaxGenIsNat DEF TypeOK, GenerateIdentity, Goes, Answers, None, Torn
  <2>4. CASE SignInvite(p) \/ InviteRefused(p) \/ SignatureInvalid(p)
    BY <2>4 DEF TypeOK, SignInvite, InviteRefused, SignatureInvalid, Answers, Goes, files
  <2>5. CASE EnsureInterface(p)
    BY <2>5, DeviceTyped DEF TypeOK, EnsureInterface, Answers, Goes
  <2>6. ASSUME NEW n \in Settings, JoinRejected(p, n)
        PROVE TypeOK'
    BY <2>6, ConfigFacts, NameFacts DEF TypeOK, JoinRejected, Answers, Goes, files
  <2>7. ASSUME NEW n \in Settings, Join(p, n)
        PROVE TypeOK'
    <3>1. BringUp(p, {Anchor})
      BY <2>7 DEF Join
    <3> QED
      BY <2>7, <3>1, DeviceTyped, ConfigFacts, NameFacts DEF TypeOK, Join, Answers, Goes
  <2> QED
    BY <1>6, <2>0, <2>1, <2>2, <2>3, <2>4, <2>5, <2>6, <2>7 DEF GoesOn
<1> QED
  BY <1>1, <1>2, <1>3, <1>4, <1>5, <1>6 DEF Next

-----------------------------------------------------------------------------
\* The process that takes a step is the only one that lives.
LEMMA StepIsAlone ==
    ASSUME OneDaemon, NEW p \in Proc, Step(p)
    PROVE  \A q \in Proc : Alive(q) => q = p
<1>1. CASE Acquire(p)
  BY <1>1, NoOneIsNoProc DEF OneDaemon, Acquire
<1>2. CASE ~Acquire(p)
  <2>1. Alive(p)
    BY <1>2 DEF Step, Start, Signal, Stopped, Dies, Request, GoesOn, PatchRejected, PatchSaved,
       CreateInvite, ImportInvite, ImportReply, KeysHeld, LoadKeys, GenerateWg,
       GenerateIdentity, SignInvite, InviteRefused, SignatureInvalid, EnsureInterface,
       JoinRejected, Join, Alive, Ready
  <2> QED
    BY <2>1 DEF OneDaemon
<1> QED
  BY <1>1, <1>2

\* A step of a process touches nothing that belongs to another.
LEMMA StepIsLocal ==
    ASSUME TypeOK, NEW p \in Proc, Step(p), NEW q \in Proc, q # p
    PROVE  /\ at'[q] = at[q] /\ goal'[q] = goal[q] /\ mem'[q] = mem[q]
           /\ keys'[q] = keys[q] /\ wg'[q] = wg[q]
<1>1. CASE Acquire(p) \/ Start(p) \/ Signal(p) \/ Stopped(p) \/ Dies(p)
  BY <1>1 DEF TypeOK, Acquire, Start, Signal, Stopped, Dies, Gone, Goes
<1>2. CASE Request(p)
  BY <1>2 DEF TypeOK, Request, PatchRejected, PatchSaved, CreateInvite, ImportInvite,
     ImportReply, Goes
<1>3. CASE GoesOn(p)
  BY <1>3 DEF TypeOK, GoesOn, KeysHeld, LoadKeys, GenerateWg, GenerateIdentity, SignInvite,
     InviteRefused, SignatureInvalid, EnsureInterface, BringUp, JoinRejected, Join, Goes, Answers
<1> QED
  BY <1>1, <1>2, <1>3 DEF Step

LEMMA OneDaemonStep == ASSUME TypeOK, OneDaemon, [Next]_vars PROVE OneDaemon'
<1>1. CASE UNCHANGED vars
  BY <1>1 DEF OneDaemon, Alive, vars, files
<1>2. CASE UserUnlocks
  BY <1>2 DEF OneDaemon, Alive, UserUnlocks
<1>3. ASSUME NEW p \in Proc, Step(p)
      PROVE OneDaemon'
  <2>1. \A q \in Proc : q # p => at'[q] = "off"
    BY <1>3, StepIsAlone, StepIsLocal DEF Alive
  <2>2. at'[p] # "off" => lock' = p
    <3>1. CASE Acquire(p)
      BY <3>1 DEF Acquire
    <3>2. CASE Stopped(p) \/ Dies(p)
      BY <3>2 DEF TypeOK, Stopped, Dies, Gone, Goes
    <3>3. CASE Start(p) \/ Signal(p) \/ Request(p) \/ GoesOn(p)
      <4>1. lock' = lock /\ Alive(p)
        BY <3>3 DEF Start, Signal, Request, GoesOn, PatchRejected, PatchSaved, CreateInvite,
           ImportInvite, ImportReply, KeysHeld, LoadKeys, GenerateWg, GenerateIdentity,
           SignInvite, InviteRefused, SignatureInvalid, EnsureInterface, JoinRejected, Join,
           files, Alive, Ready
      <4> QED
        BY <4>1 DEF OneDaemon
    <3> QED
      BY <1>3, <3>1, <3>2, <3>3 DEF Step
  <2> QED
    BY <2>1, <2>2 DEF OneDaemon, Alive
<1> QED
  BY <1>1, <1>2, <1>3 DEF Next, Step
-----------------------------------------------------------------------------
\* What holds of the others is not disturbed, because there are none: a fact
\* about each process follows from the fact about the one that takes the step.
LEMMA OthersAreOff ==
    ASSUME TypeOK, OneDaemon, NEW p \in Proc, Step(p)
    PROVE  \A q \in Proc : q # p => at'[q] = "off" /\ goal'[q] = "none"
<1> SUFFICES ASSUME NEW q \in Proc, q # p
             PROVE  at'[q] = "off" /\ goal'[q] = "none"
  OBVIOUS
<1>1. at[q] = "off"
  BY StepIsAlone DEF Alive
<1>2. goal[q] = "none"
  BY <1>1 DEF TypeOK
<1> QED
  BY <1>1, <1>2, StepIsLocal

\* The part of FileIsGood and Pending that is about one process.
RoleAgrees(p) ==
    /\ at[p] \notin {"off", "starting"} /\ file.role # "null" => mem[p].role = file.role
    /\ goal[p] = "member" => MayImport(mem[p])

LEMMA FileStep ==
    ASSUME TypeOK, OneDaemon, FileIsGood, Pending, NEW p \in Proc, Step(p)
    PROVE  /\ file' # NoConfig => Valid(file')
           /\ RoleAgrees(p)'
           /\ file.role \in {"anchor", "member"} => file'.role = file.role
<1> DEFINE Goal == /\ file' # NoConfig => Valid(file')
                   /\ RoleAgrees(p)'
                   /\ file.role \in {"anchor", "member"} => file'.role = file.role
<1> USE DEF TypeOK, FileIsGood, RoleAgrees
<1>1. CASE Acquire(p) \/ Signal(p)
  BY <1>1 DEF Acquire, Signal, Goes, Pending, files
<1>2. CASE Start(p)
  <2>1. goal[p] = "none"
    BY <1>2 DEF Start
  <2>2. file' = mem'[p] /\ Valid(file') /\ goal'[p] = "none"
    BY <1>2, <2>1 DEF Start
  <2>3. file.role \in {"anchor", "member"} => file' = file
    BY <1>2 DEF Start, NoConfig
  <2> QED
    BY <2>2, <2>3
<1>3. CASE Stopped(p) \/ Dies(p)
  <2>1. at'[p] = "off" /\ goal'[p] = "none" /\ file' = file
    BY <1>3 DEF Stopped, Dies, Gone, Goes, files
  <2> QED
    BY <2>1
<1>4. ASSUME NEW n \in Patches(p), PatchRejected(p, n) \/ PatchSaved(p, n)
      PROVE Goal
  <2> DEFINE c == Patched(mem[p], n)
  <2>1. /\ c \in Config /\ c.role # "null"
        /\ mem[p].role # "null" => c.role = mem[p].role
        /\ mem[p].role \in {"null", "anchor", "member"}
    BY ConfigFacts, NameFacts DEF Config
  <2>2. Ready(p) /\ mem'[p] = c
    BY <1>4 DEF PatchRejected, PatchSaved
  <2>3. goal[p] = "none" /\ file # NoConfig
    BY <2>2, <2>1 DEF Ready, NoConfig
  <2>4. file.role # "null" => c.role = file.role
    BY <2>1, <2>2 DEF Ready
  <2>5. CASE PatchRejected(p, n)
    <3>1. file' = file /\ goal'[p] = "none"
      BY <2>5, <2>3 DEF PatchRejected, files
    <3> QED
      BY <3>1, <2>2, <2>4
  <2>6. CASE PatchSaved(p, n)
    <3>1. file' = c /\ Valid(c) /\ goal'[p] # "member"
      BY <2>6, <2>3 DEF PatchSaved
    <3> QED
      BY <3>1, <2>2, <2>4
  <2> QED
    BY <1>4, <2>5, <2>6
<1>5. CASE CreateInvite(p)
  <2>1. file' = file /\ mem' = mem /\ goal'[p] # "member" /\ Ready(p)
    BY <1>5 DEF CreateInvite, files
  <2> QED
    BY <2>1 DEF Ready
<1>6. CASE ImportInvite(p)
  <2>1. file' = file /\ mem' = mem /\ MayImport(mem[p]) /\ Ready(p)
    BY <1>6 DEF ImportInvite, files
  <2> QED
    BY <2>1 DEF Ready, MayImport
<1>7. ASSUME NEW m \in Member, ImportReply(p, m)
      PROVE Goal
  BY <1>7 DEF ImportReply, Pending
<1>8. CASE KeysHeld(p) \/ LoadKeys(p) \/ GenerateWg(p) \/ GenerateIdentity(p) \/ SignInvite(p)
           \/ InviteRefused(p) \/ SignatureInvalid(p) \/ EnsureInterface(p)
  <2>1. /\ file' = file /\ mem' = mem /\ at[p] \notin {"off", "starting"}
        /\ goal'[p] \in {goal[p], "none"}
    BY <1>8 DEF KeysHeld, LoadKeys, GenerateWg, GenerateIdentity, SignInvite, InviteRefused,
       SignatureInvalid, EnsureInterface, Answers, Goes, files
  <2>2. RoleAgrees(p)
    BY DEF Pending
  <2> QED
    BY <2>1, <2>2 DEF MayImport
<1>9. ASSUME NEW n \in Settings, JoinRejected(p, n) \/ Join(p, n)
      PROVE Goal
  <2> DEFINE c == Joined(mem[p], n)
  <2>1. c \in Config /\ c.role = "member" /\ c # NoConfig
    BY ConfigFacts, NameFacts
  <2>2. at[p] = "act" /\ goal[p] = "member" /\ mem'[p] = c /\ goal'[p] = "none"
    BY <1>9 DEF JoinRejected, Join, Answers
  <2>3. MayImport(mem[p])
    BY <2>2 DEF Pending
  <2>4. file.role # "null" => file.role = "member"
    <3>1. file.role # "null" => mem[p].role = file.role
      BY <2>2
    <3> QED
      BY <2>3, <3>1 DEF MayImport
  <2>5. file' = file \/ (file' = c /\ Valid(c))
    BY <1>9 DEF JoinRejected, Join, files
  <2> QED
    BY <2>1, <2>2, <2>4, <2>5
<1> QED
  BY <1>1, <1>2, <1>3, <1>4, <1>5, <1>6, <1>7, <1>8, <1>9 DEF Step, Request, GoesOn

-----------------------------------------------------------------------------
\* A key is in use when a process holds it, the device runs with it, or
\* something was signed with it.
Whole(k) == keyFile = [wg |-> k, identity |-> k]

LEMMA IdentityFacts ==
    OneIdentity <=>
        /\ \A q \in Proc : keys[q] \notin {None, Torn} => Whole(keys[q])
        /\ device.key \notin {None, Torn} => Whole(device.key)
        /\ shown \notin {None, Torn} => Whole(shown)
  BY DEF OneIdentity, Whole

\* The part of Pending and Paired that is about keys.
KeysPending(p) ==
    /\ at[p] = "identity" => keyFile.wg = gen
    /\ at[p] = "act" => keys[p] # None

\* A step that leaves the key files alone and uses no key but those in use.
LEMMA IdentityKept ==
    ASSUME TypeOK, OneIdentity, keyFile' = keyFile, NEW p \in Proc,
           \A q \in Proc : q # p => keys'[q] = keys[q],
           keys'[p] \notin {None, Torn} => Whole(keys'[p]),
           device'.key \in {None, Torn, device.key, keys[p]},
           shown' \in {shown, keys[p]}
    PROVE  OneIdentity'
<1>1. \A k : Whole(k)' <=> Whole(k)
  BY DEF Whole
<1>2. \A q \in Proc : keys'[q] \notin {None, Torn} => Whole(keys'[q])
  BY IdentityFacts
<1>3. device'.key \notin {None, Torn} => Whole(device'.key)
  BY IdentityFacts
<1>4. shown' \notin {None, Torn} => Whole(shown')
  BY IdentityFacts
<1> QED
  BY <1>1, <1>2, <1>3, <1>4 DEF OneIdentity, Whole, None, Torn
\* No key is in use while the files do not hold a pair.
LEMMA NothingUsed ==
    ASSUME TypeOK, OneIdentity, keyFile.wg = None \/ keyFile.identity = None
    PROVE  /\ \A q \in Proc : keys[q] = None
           /\ device.key \in {None, Torn} /\ shown = None
<1>1. \A k : Whole(k) => keyFile.wg = k /\ keyFile.identity = k
  BY DEF Whole
<1> QED
  BY <1>1, IdentityFacts, MaxGenIsNat DEF TypeOK, None, Torn

LEMMA KeyStep ==
    ASSUME TypeOK, OneDaemon, OneIdentity, Paired, Pending, NEW p \in Proc, Step(p)
    PROVE  OneIdentity' /\ Paired' /\ KeysPending(p)'
<1> USE DEF TypeOK
<1> DEFINE Goal == OneIdentity' /\ Paired' /\ KeysPending(p)'
<1>0. \A q \in Proc : q # p => keys'[q] = keys[q]
  BY StepIsLocal
<1>1. CASE Acquire(p) \/ Start(p) \/ Signal(p) \/ Stopped(p) \/ Dies(p)
  <2>1. keyFile' = keyFile /\ gen' = gen /\ shown' = shown /\ device' \in {device, NoDevice}
    BY <1>1 DEF Acquire, Start, Signal, Stopped, Dies, files
  <2>2. keys'[p] \in {keys[p], None}
    BY <1>1 DEF Acquire, Start, Signal, Stopped, Dies, Gone
  <2>3. OneIdentity'
    BY <2>1, <2>2, <1>0, IdentityKept, IdentityFacts DEF NoDevice
  <2>4. (at'[p] = at[p] /\ keys' = keys) \/ at'[p] \in {"starting", "ready", "off"}
    BY <1>1 DEF Acquire, Start, Signal, Stopped, Dies, Gone, Goes
  <2> QED
    BY <2>1, <2>3, <2>4 DEF Paired, Pending, KeysPending
<1>2. CASE Request(p)
  <2>1. keyFile' = keyFile /\ shown' = shown /\ keys' = keys /\ device'.key = device.key
    BY <1>2 DEF Request, PatchRejected, PatchSaved, CreateInvite, ImportInvite, ImportReply, files
  <2>2. at'[p] \in {"ready", "keys"}
    BY <1>2 DEF Request, PatchRejected, PatchSaved, CreateInvite, ImportInvite, ImportReply,
       Ready, Goes
  <2>3. OneIdentity'
    BY <2>1, IdentityKept, IdentityFacts
  <2> QED
    BY <2>1, <2>2, <2>3 DEF Paired, KeysPending
<1>3. CASE KeysHeld(p)
  <2>1. /\ keyFile' = keyFile /\ shown' = shown /\ keys' = keys /\ device' = device
        /\ at'[p] = "act" /\ keys[p] # None
    BY <1>3 DEF KeysHeld, Goes, files
  <2>2. OneIdentity'
    BY <2>1, IdentityKept, IdentityFacts
  <2> QED
    BY <2>1, <2>2 DEF Paired, KeysPending
<1>4. CASE LoadKeys(p)
  <2>1. keyFile' = keyFile /\ shown' = shown /\ device' = device
    BY <1>4 DEF LoadKeys, files
  <2>2. CASE Torn \in {keyFile.wg, keyFile.identity}
    <3>1. keys' = keys /\ at'[p] = "ready"
      BY <1>4, <2>2 DEF LoadKeys, Answers, Goes
    <3>2. OneIdentity'
      BY <2>1, <3>1, IdentityKept, IdentityFacts
    <3> QED
      BY <2>1, <3>1, <3>2 DEF Paired, KeysPending
  <2>3. CASE Torn \notin {keyFile.wg, keyFile.identity}
    <3>1. keys'[p] = keyFile.wg /\ at'[p] = "act" /\ keyFile.wg # None
      BY <1>4, <2>3 DEF LoadKeys, KeysExist, Goes
    <3>2. keyFile.identity = keyFile.wg
      BY <1>4, <2>3 DEF LoadKeys, KeysExist, Paired
    <3>3. Whole(keyFile.wg)
      BY <3>2 DEF Whole
    <3>4. OneIdentity'
      BY <1>0, <2>1, <3>1, <3>3, IdentityKept
    <3> QED
      BY <2>1, <3>1, <3>4 DEF Paired, KeysPending
  <2> QED
    BY <2>2, <2>3
<1>5. CASE GenerateWg(p)
  <2>1. shown' = shown /\ keys' = keys /\ device' = device /\ gen' = gen + 1
    BY <1>5 DEF GenerateWg
  <2>2. CASE keyFile.wg # None
    <3>1. keyFile' = keyFile /\ at'[p] = "ready"
      BY <1>5, <2>2 DEF GenerateWg, Answers, Goes
    <3>2. OneIdentity'
      BY <2>1, <3>1, IdentityKept, IdentityFacts
    <3> QED
      BY <3>1, <3>2 DEF Paired, KeysPending
  <2>3. CASE keyFile.wg = None
    <3>1. /\ \A q \in Proc : keys'[q] = None
          /\ device'.key \in {None, Torn} /\ shown' = None
      BY <2>1, <2>3, NothingUsed
    <3>2. OneIdentity'
      BY <3>1 DEF OneIdentity, None, Torn
    <3>3. keyFile'.identity \in {None, Torn}
      BY <1>5, <2>3 DEF GenerateWg, Paired
    <3>4. (keyFile'.wg = gen' /\ at'[p] = "identity") \/ at'[p] = "ready"
      BY <1>5, <2>1, <2>3 DEF GenerateWg, Answers, Goes
    <3> QED
      BY <3>2, <3>3, <3>4 DEF Paired, KeysPending, None, Torn
  <2> QED
    BY <2>2, <2>3
<1>6. CASE GenerateIdentity(p)
  <2>1. shown' = shown /\ keys' = keys /\ device' = device /\ at[p] = "identity"
    BY <1>6 DEF GenerateIdentity
  <2>2. at'[p] \in {"ready", "keys"}
    BY <1>6 DEF GenerateIdentity, Answers, Goes
  <2>3. CASE keyFile.identity # None
    <3>1. keyFile' = keyFile
      BY <1>6, <2>3 DEF GenerateIdentity
    <3>2. OneIdentity'
      BY <2>1, <3>1, IdentityKept, IdentityFacts
    <3> QED
      BY <2>2, <3>1, <3>2 DEF Paired, KeysPending
  <2>4. CASE keyFile.identity = None
    <3>1. /\ \A q \in Proc : keys'[q] = None
          /\ device'.key \in {None, Torn} /\ shown' = None
      BY <2>1, <2>4, NothingUsed
    <3>2. OneIdentity'
      BY <3>1 DEF OneIdentity, None, Torn
    <3>3. keyFile.wg = gen
      BY <2>1 DEF Pending
    <3>4. keyFile'.identity \in {Torn, keyFile'.wg}
      BY <1>6, <2>4, <3>3 DEF GenerateIdentity
    <3> QED
      BY <2>2, <3>2, <3>4 DEF Paired, KeysPending, None, Torn
  <2> QED
    BY <2>3, <2>4
<1>7. ASSUME \/ SignInvite(p) \/ InviteRefused(p) \/ SignatureInvalid(p) \/ EnsureInterface(p)
             \/ \E n \in Settings : JoinRejected(p, n) \/ Join(p, n)
      PROVE  Goal
  <2>1. keyFile' = keyFile /\ keys' = keys /\ shown' \in {shown, keys[p]} /\ at'[p] = "ready"
    BY <1>7 DEF SignInvite, InviteRefused, SignatureInvalid, EnsureInterface, JoinRejected,
       Join, Answers, Goes, files
  <2>2. device'.key \in {None, device.key, keys[p]}
    BY <1>7 DEF SignInvite, InviteRefused, SignatureInvalid, EnsureInterface, JoinRejected,
       Join, BringUp, Configured, Bare, files
  <2>3. OneIdentity'
    BY <2>1, <2>2, IdentityKept, IdentityFacts
  <2> QED
    BY <2>1, <2>3 DEF Paired, KeysPending
<1> QED
  BY <1>1, <1>2, <1>3, <1>4, <1>5, <1>6, <1>7 DEF Step, GoesOn

-----------------------------------------------------------------------------
LEMMA PeersStep ==
    ASSUME TypeOK, PeersAreConsumed, NEW p \in Proc, Step(p)
    PROVE  PeersAreConsumed'
<1> USE DEF PeersAreConsumed
<1>1. CASE Acquire(p) \/ Start(p) \/ Signal(p) \/ Stopped(p) \/ Dies(p)
  BY <1>1 DEF Acquire, Start, Signal, Stopped, Dies, NoDevice, files
<1>2. CASE Request(p)
  <2>1. ASSUME NEW m \in Member, ImportReply(p, m)
        PROVE PeersAreConsumed'
    <3>1. consumed' = consumed \cup {m}
      BY <2>1 DEF ImportReply
    <3>2. device'.peers \subseteq device.peers \cup {m}
      BY <2>1 DEF ImportReply, TypeOK
    <3> QED
      BY <3>1, <3>2
  <2>2. CASE ~\E m \in Member : ImportReply(p, m)
    BY <1>2, <2>2 DEF Request, PatchRejected, PatchSaved, CreateInvite, ImportInvite, files
  <2> QED
    BY <2>1, <2>2
<1>3. CASE GoesOn(p)
  <2>1. consumed' = consumed
    BY <1>3 DEF GoesOn, KeysHeld, LoadKeys, GenerateWg, GenerateIdentity, SignInvite,
       InviteRefused, SignatureInvalid, EnsureInterface, JoinRejected, Join, files
  <2>2. device'.peers \subseteq device.peers \cup {Anchor}
    BY <1>3 DEF GoesOn, KeysHeld, LoadKeys, GenerateWg, GenerateIdentity, SignInvite,
       InviteRefused, SignatureInvalid, EnsureInterface, BringUp, Configured, Bare, JoinRejected, Join, files
  <2> QED
    BY <2>1, <2>2
<1> QED
  BY <1>1, <1>2, <1>3 DEF Step

-----------------------------------------------------------------------------
LEMMA StepIInv == ASSUME IInv, [Next]_vars PROVE IInv'
<1>1. TypeOK' /\ OneDaemon'
  BY TypeStep, OneDaemonStep DEF IInv
<1>2. CASE UNCHANGED vars \/ UserUnlocks
  BY <1>1, <1>2 DEF IInv, UserUnlocks, vars, files, FileIsGood, OneIdentity, PeersAreConsumed,
     Pending, Paired, None, Torn
<1>3. ASSUME NEW p \in Proc, Step(p)
      PROVE IInv'
  <2>1. \A q \in Proc : q # p => at'[q] = "off" /\ goal'[q] = "none"
    BY <1>3, OthersAreOff DEF IInv
  <2>2. FileIsGood'
    BY <1>3, <2>1, FileStep DEF IInv, FileIsGood, RoleAgrees
  <2>3. Pending'
    BY <1>3, <2>1, FileStep, KeyStep DEF IInv, Pending, RoleAgrees, KeysPending
  <2>4. OneIdentity' /\ Paired' /\ PeersAreConsumed'
    BY <1>3, KeyStep, PeersStep DEF IInv
  <2> QED
    BY <1>1, <2>2, <2>3, <2>4 DEF IInv
<1> QED
  BY <1>2, <1>3 DEF Next, Step

\* The inductive invariant of the daemon's processes, files and device.
THEOREM InvariantCorrect == Spec => []IInv
  BY InitIInv, StepIInv, PTL DEF Spec

\* At most one process works on a configuration directory, the one whose pid is
\* in the lock file (lock.ts), whoever dies, is stopped or is refused.
THEOREM OneDaemonCorrect == Spec => []OneDaemon
<1>1. IInv => OneDaemon
  BY DEF IInv
<1> QED
  BY <1>1, InvariantCorrect, PTL

\* config.json can always be loaded, and the process that runs plays the role
\* in it, whatever saveConfig() rejected (services.ts, config-store.ts).
THEOREM FileCorrect == Spec => []FileIsGood
<1>1. IInv => FileIsGood
  BY DEF IInv
<1> QED
  BY <1>1, InvariantCorrect, PTL

\* Key files, process, device and signatures agree on one pair of keys
\* (ensureKeys() and keys.ts), however often generating was cut short.
THEOREM IdentityCorrect == Spec => []OneIdentity
<1>1. IInv => OneIdentity
  BY DEF IInv
<1> QED
  BY <1>1, InvariantCorrect, PTL

\* Only members whose invite is consumed on file are peers of the device
\* (importReply() in services.ts).
THEOREM PeersCorrect == Spec => []PeersAreConsumed
<1>1. IInv => PeersAreConsumed
  BY DEF IInv
<1> QED
  BY <1>1, InvariantCorrect, PTL

\* A role that was saved is never changed (patchSettings() and importInvite()).
THEOREM RoleCorrect == Spec => RoleIsFinal
<1>1. ASSUME IInv, [Next]_vars
      PROVE  [file.role \in {"anchor", "member"} => file'.role = file.role]_vars
  <2>1. CASE UNCHANGED vars \/ UserUnlocks
    BY <2>1 DEF vars, files, UserUnlocks
  <2>2. ASSUME NEW p \in Proc, Step(p)
        PROVE file.role \in {"anchor", "member"} => file'.role = file.role
    BY <1>1, <2>2, FileStep DEF IInv
  <2> QED
    BY <1>1, <2>1, <2>2 DEF Next, Step
<1> QED
  BY <1>1, InvariantCorrect, PTL DEF Spec, RoleIsFinal
=============================================================================
