-------------------------- MODULE ReconcilerProofs --------------------------
(***************************************************************************)
(* Proofs about the two reconcilers.                                       *)
(*                                                                         *)
(* Roster and Reconciler, for all rosters, keys and callers: first what a  *)
(* roster is compiled to and that the results of all nodes fit together;   *)
(* then the invariant of the reconciler, which carries this over to the    *)
(* device of a node that a roster was applied to.                          *)
(*                                                                         *)
(* Endpoints, for all hosts, lists, times and ticks that overlap: what the *)
(* sorted list of candidates and the backoff are, then the invariant of a  *)
(* peer and what follows from it.                                          *)
(***************************************************************************)
EXTENDS Reconciler, Endpoints, FiniteSetTheorems, WellFoundedInduction, TLAPS

-----------------------------------------------------------------------------
(* Rosters *)

LEMMA AtIsNode ==
    ASSUME NEW r \in Payload, NEW i \in Position(r)
    PROVE  /\ At(r, i) \in Node
           /\ At(r, i).key \in Key /\ At(r, i).ip \in IP
           /\ At(r, i).listener \in BOOLEAN
           /\ At(r, i).endpoint \in Endpoint \cup {NoEndpoint}
           /\ i = 0 => At(r, i).listener
<1>1. r.anchor \in Anchor /\ r.members \in Seq(Node)
  BY DEF Payload
<1>2. At(r, i) \in Node
  <2>1. CASE i = 0
    BY <1>1, <2>1 DEF At, Anchor
  <2>2. CASE i # 0
    <3>1. i \in 1 .. Len(r.members)
      BY <1>1, <2>2 DEF Position
    <3>2. r.members[i] \in Node
      BY <1>1, <3>1
    <3> QED
      BY <2>2, <3>2 DEF At
  <2> QED
    BY <2>1, <2>2
<1>3. i = 0 => At(r, i).listener
  BY <1>1 DEF At, Anchor
<1> QED
  BY <1>2, <1>3 DEF Node

LEMMA ZeroIsPosition ==
    ASSUME NEW r \in Payload
    PROVE  0 \in Position(r) /\ At(r, 0) = r.anchor
<1>1. Len(r.members) \in Nat
  BY DEF Payload
<1> QED
  BY <1>1 DEF Position, At

\* In a roster without duplicates a node is found where it is.
LEMMA PositionIsUnique ==
    ASSUME NEW r \in Payload, Distinct(r), NEW i \in Position(r)
    PROVE  PositionOf(r, At(r, i).key) = i
<1> DEFINE p == PositionOf(r, At(r, i).key)
<1>1. p \in Position(r) /\ At(r, p).key = At(r, i).key
  BY DEF PositionOf
<1> HIDE DEF p
<1>2. p = i
  BY <1>1 DEF Distinct
<1> QED
  BY <1>2 DEF p

LEMMA PeerConfigIsSetting ==
    ASSUME NEW r \in Payload, NEW i \in Position(r), NEW j \in Position(r)
    PROVE  PeerConfig(r, i, j) \in Setting
BY AtIsNode DEF PeerConfig, AllowedIPs, Setting

LEMMA SettingIsPeer ==
    ASSUME NEW s \in Setting
    PROVE  s # NoPeer
BY RoutesDiffer DEF Setting, NoPeer

\* What the node at i has for the node at j.
LEMMA CompiledAt ==
    ASSUME NEW r \in Payload, Distinct(r), NEW local,
           NEW i \in Position(r), NEW j \in Position(r)
    PROVE  Compiled(r, At(r, i).key, local)[At(r, j).key] =
               IF i # j /\ Tunnel(r, i, local, j) THEN PeerConfig(r, i, j) ELSE NoPeer
<1>1. /\ PositionOf(r, At(r, i).key) = i
      /\ PositionOf(r, At(r, j).key) = j
  BY PositionIsUnique
<1>2. Listed(r, At(r, j).key)
  BY DEF Listed
<1>3. At(r, j).key # At(r, i).key <=> i # j
  BY DEF Distinct
<1>4. At(r, j).key \in Key
  BY AtIsNode
<1> QED
  BY <1>1, <1>2, <1>3, <1>4 DEF Compiled

\* compileRoster() returns a configuration.
LEMMA CompiledIsConfig ==
    ASSUME NEW r \in Payload, Distinct(r), NEW local, NEW i \in Position(r)
    PROVE  Compiled(r, At(r, i).key, local) \in Configs
<1> DEFINE config == Compiled(r, At(r, i).key, local)
<1>1. config = [k \in Key |-> config[k]]
  BY DEF Compiled
<1>2. ASSUME NEW k \in Key
      PROVE  config[k] \in Setting \cup {NoPeer}
  <2>1. CASE Listed(r, k)
    <3>1. PICK j \in Position(r) : At(r, j).key = k
      BY <2>1 DEF Listed
    <3>2. config[k] = IF i # j /\ Tunnel(r, i, local, j) THEN PeerConfig(r, i, j) ELSE NoPeer
      BY <3>1, CompiledAt
    <3> QED
      BY <3>2, PeerConfigIsSetting
  <2>2. CASE ~ Listed(r, k)
    BY <2>2 DEF Compiled
  <2> QED
    BY <2>1, <2>2
<1> HIDE DEF config
<1>3. config \in [Key -> Setting \cup {NoPeer}]
  BY <1>1, <1>2
<1> QED
  BY <1>3 DEF Configs, config

\* The peers of the node at i.
LEMMA HasCompiled ==
    ASSUME NEW r \in Payload, Distinct(r), NEW local, NEW i \in Position(r),
           NEW k \in Has(Compiled(r, At(r, i).key, local))
    PROVE  \E j \in Position(r) :
               At(r, j).key = k /\ i # j /\ Tunnel(r, i, local, j)
<1>1. k \in Key /\ Compiled(r, At(r, i).key, local)[k] # NoPeer
  BY DEF Has
<1>2. Listed(r, k)
  BY <1>1 DEF Compiled
<1>3. PICK j \in Position(r) : At(r, j).key = k
  BY <1>2 DEF Listed
<1>4. i # j /\ Tunnel(r, i, local, j)
  BY <1>1, <1>3, CompiledAt
<1> QED
  BY <1>3, <1>4

LEMMA CompiledHas ==
    ASSUME NEW r \in Payload, Distinct(r), NEW local,
           NEW i \in Position(r), NEW j \in Position(r),
           i # j, Tunnel(r, i, local, j)
    PROVE  /\ At(r, j).key \in Has(Compiled(r, At(r, i).key, local))
           /\ Compiled(r, At(r, i).key, local)[At(r, j).key] = PeerConfig(r, i, j)
<1>1. Compiled(r, At(r, i).key, local)[At(r, j).key] = PeerConfig(r, i, j)
  BY CompiledAt
<1>2. PeerConfig(r, i, j) # NoPeer
  BY PeerConfigIsSetting, SettingIsPeer
<1>3. At(r, j).key \in Key
  BY AtIsNode
<1> QED
  BY <1>1, <1>2, <1>3 DEF Has

\* Of the peers of the node at i, only the one at j can have j's IP as its
\* route, and has it unless it is the anchor and i a member.
LEMMA RouteToIP ==
    ASSUME NEW r \in Payload, Distinct(r), NEW local,
           NEW i \in Position(r), NEW j \in Position(r),
           NEW k \in RoutedTo(Compiled(r, At(r, i).key, local), At(r, j).ip)
    PROVE  /\ k = At(r, j).key /\ i # j /\ Tunnel(r, i, local, j)
           /\ ~ (j = 0 /\ i # 0)
<1>1. /\ k \in Has(Compiled(r, At(r, i).key, local))
      /\ Compiled(r, At(r, i).key, local)[k].route = At(r, j).ip
  BY DEF RoutedTo
<1>2. PICK n \in Position(r) : At(r, n).key = k /\ i # n /\ Tunnel(r, i, local, n)
  BY <1>1, HasCompiled
<1>3. Compiled(r, At(r, i).key, local)[k] = PeerConfig(r, i, n)
  BY <1>2, CompiledAt
<1>4. AllowedIPs(r, i, n) = At(r, j).ip
  BY <1>1, <1>3 DEF PeerConfig
<1>5. At(r, j).ip # Subnet
  BY AtIsNode, RoutesDiffer
<1>6. ~ (n = 0 /\ i # 0) /\ At(r, n).ip = At(r, j).ip
  BY <1>4, <1>5 DEF AllowedIPs
<1>7. n = j
  BY <1>6 DEF Distinct
<1> QED
  BY <1>2, <1>6, <1>7

\* A node sends what is for a peer to this peer,
LEMMA ViaPeer ==
    ASSUME NEW r \in Payload, Distinct(r), NEW local,
           NEW i \in Position(r), NEW j \in Position(r),
           i # j, Tunnel(r, i, local, j)
    PROVE  Via(Compiled(r, At(r, i).key, local), At(r, j).ip, At(r, j).key)
<1> DEFINE config == Compiled(r, At(r, i).key, local)
<1>1. At(r, j).key \in Has(config) /\ config[At(r, j).key] = PeerConfig(r, i, j)
  BY CompiledHas
<1>2. CASE j = 0 /\ i # 0
  <2>1. RoutedTo(config, At(r, j).ip) = {}
    BY <1>2, RouteToIP
  <2>2. At(r, j).key \in RoutedTo(config, Subnet)
    BY <1>1, <1>2 DEF RoutedTo, PeerConfig, AllowedIPs
  <2> QED
    BY <2>1, <2>2 DEF Via
<1>3. CASE ~ (j = 0 /\ i # 0)
  <2>1. At(r, j).key \in RoutedTo(config, At(r, j).ip)
    BY <1>1, <1>3 DEF RoutedTo, PeerConfig, AllowedIPs
  <2> QED
    BY <2>1 DEF Via
<1> QED
  BY <1>2, <1>3

\* and a member what is for any other node to the anchor.
LEMMA ViaAnchor ==
    ASSUME NEW r \in Payload, Distinct(r), NEW local,
           NEW i \in Position(r) \ {0}, NEW j \in Position(r),
           i # j, ~ Tunnel(r, i, local, j)
    PROVE  Via(Compiled(r, At(r, i).key, local), At(r, j).ip, r.anchor.key)
<1> DEFINE config == Compiled(r, At(r, i).key, local)
<1>1. 0 \in Position(r) /\ At(r, 0) = r.anchor /\ At(r, 0).listener
  BY ZeroIsPosition, AtIsNode
<1>2. Tunnel(r, i, local, 0)
  BY <1>1 DEF Tunnel
<1>3. r.anchor.key \in Has(config) /\ config[r.anchor.key] = PeerConfig(r, i, 0)
  BY <1>1, <1>2, CompiledHas
<1>4. r.anchor.key \in RoutedTo(config, Subnet)
  BY <1>3 DEF RoutedTo, PeerConfig, AllowedIPs
<1>5. RoutedTo(config, At(r, j).ip) = {}
  BY RouteToIP
<1> QED
  BY <1>4, <1>5 DEF Via

\* The nodes of a roster, each with what it made of it; local[i] is what the
\* node at i was told about listening, which the roster says of it too.
Agreeing(r, local) ==
    \A i \in Position(r) :
        /\ At(r, i).listener <=> (local[i] \/ i = 0)
        /\ At(r, i).listener => At(r, i).endpoint # NoEndpoint
Compiling(r, local, net) ==
    \A i \in Position(r) :
        net[At(r, i).key] = Compiled(r, At(r, i).key, local[i])

\* Then a tunnel has both of its ends, and one of them can be dialled.
LEMMA TunnelIsMutual ==
    ASSUME NEW r \in Payload, NEW local, Agreeing(r, local),
           NEW i \in Position(r), NEW j \in Position(r)
    PROVE  Tunnel(r, i, local[i], j) <=> At(r, i).listener \/ At(r, j).listener
BY DEF Tunnel, Agreeing

LEMMA TunnelCarries ==
    ASSUME NEW r \in Payload, Distinct(r), NEW local, NEW net,
           Agreeing(r, local), Compiling(r, local, net),
           NEW i \in Position(r), NEW j \in Position(r), i # j,
           At(r, i).listener \/ At(r, j).listener
    PROVE  /\ Via(net[At(r, i).key], At(r, j).ip, At(r, j).key)
           /\ Via(net[At(r, j).key], At(r, i).ip, At(r, i).key)
           /\ \/ Dials(net[At(r, i).key], At(r, j).key)
              \/ Dials(net[At(r, j).key], At(r, i).key)
<1>1. Tunnel(r, i, local[i], j) /\ Tunnel(r, j, local[j], i)
  BY TunnelIsMutual
<1>2. /\ net[At(r, i).key] = Compiled(r, At(r, i).key, local[i])
      /\ net[At(r, j).key] = Compiled(r, At(r, j).key, local[j])
  BY DEF Compiling
<1>3. /\ Via(net[At(r, i).key], At(r, j).ip, At(r, j).key)
      /\ Via(net[At(r, j).key], At(r, i).ip, At(r, i).key)
  BY <1>1, <1>2, ViaPeer
<1>4. /\ net[At(r, i).key][At(r, j).key] = PeerConfig(r, i, j)
      /\ net[At(r, j).key][At(r, i).key] = PeerConfig(r, j, i)
  BY <1>1, <1>2, CompiledHas
<1>5. At(r, i).endpoint # NoEndpoint \/ At(r, j).endpoint # NoEndpoint
  BY DEF Agreeing
<1>6. \/ Dials(net[At(r, i).key], At(r, j).key)
      \/ Dials(net[At(r, j).key], At(r, i).key)
  BY <1>4, <1>5 DEF Dials, PeerConfig
<1> QED
  BY <1>3, <1>6

\* Any number of nodes that compile one roster, each for itself, reach each
\* other: compileRoster() needs no word between them.
THEOREM RosterConnects ==
    ASSUME NEW r \in Payload, Distinct(r), NEW local, NEW net,
           Agreeing(r, local), Compiling(r, local, net)
    PROVE  Connects(net, r)
<1> SUFFICES ASSUME NEW i \in Position(r), NEW j \in Position(r), i # j
             PROVE  \/ Hop(net, At(r, i).key, At(r, j).key, At(r, i).ip, At(r, j).ip)
                    \/ /\ Hop(net, At(r, i).key, r.anchor.key, At(r, i).ip, At(r, j).ip)
                       /\ Hop(net, r.anchor.key, At(r, j).key, At(r, i).ip, At(r, j).ip)
  BY DEF Connects
<1>1. 0 \in Position(r) /\ At(r, 0) = r.anchor /\ At(r, 0).listener
  BY ZeroIsPosition, AtIsNode
<1>2. CASE At(r, i).listener \/ At(r, j).listener
  BY <1>2, TunnelCarries DEF Hop
<1>3. CASE ~ At(r, i).listener /\ ~ At(r, j).listener
  <2>1. i # 0 /\ j # 0
    BY <1>1, <1>3
  <2>2. /\ ~ Tunnel(r, i, local[i], j) /\ ~ Tunnel(r, j, local[j], i)
        /\ net[At(r, i).key] = Compiled(r, At(r, i).key, local[i])
        /\ net[At(r, j).key] = Compiled(r, At(r, j).key, local[j])
    BY <1>3, TunnelIsMutual DEF Compiling
  <2>3. /\ Via(net[At(r, i).key], At(r, j).ip, r.anchor.key)
        /\ Via(net[At(r, j).key], At(r, i).ip, r.anchor.key)
    BY <2>1, <2>2, ViaAnchor
  <2>4. /\ Via(net[r.anchor.key], At(r, i).ip, At(r, i).key)
        /\ \/ Dials(net[At(r, i).key], r.anchor.key)
           \/ Dials(net[r.anchor.key], At(r, i).key)
    BY <1>1, <2>1, TunnelCarries
  <2>5. /\ Via(net[r.anchor.key], At(r, j).ip, At(r, j).key)
        /\ \/ Dials(net[At(r, j).key], r.anchor.key)
           \/ Dials(net[r.anchor.key], At(r, j).key)
    BY <1>1, <2>1, TunnelCarries
  <2> QED
    BY <2>3, <2>4, <2>5 DEF Hop
<1> QED
  BY <1>2, <1>3

-----------------------------------------------------------------------------
(* The reconciler *)

\* A roster as this node has it.
LEMMA DesiredIsConfig ==
    ASSUME NEW v \in Version
    PROVE  Desired[v] \in Configs /\ v # 0
<1>1. /\ v \in Nat \ {0} /\ Rosters[v] \in Payload
      /\ Distinct(Rosters[v]) /\ Listed(Rosters[v], Me)
  BY RostersCompile DEF Compiles
<1>2. PICK i \in Position(Rosters[v]) : At(Rosters[v], i).key = Me
  BY <1>1 DEF Listed
<1>3. Desired[v] = Compiled(Rosters[v], At(Rosters[v], i).key, Listens)
  BY <1>2 DEF Desired
<1> QED
  BY <1>1, <1>3, CompiledIsConfig

LEMMA PartlyIsConfig ==
    ASSUME NEW v \in Version, device \in Configs, NEW d \in Partly(v)
    PROVE  d \in Configs
BY DesiredIsConfig DEF Partly, Configs

-----------------------------------------------------------------------------
(* The invariant.  SettledAgrees speaks of the time between two calls; the *)
(* last call's result holds on until a rollback begins, for only then has   *)
(* the device been touched with this result still on record.               *)

\* A call has its roster, and one that rolls back has something to go back to,
\* which the device was once set to and the object reports.
CallsAreSane ==
    /\ \A c \in Caller : pc[c] # "idle" => want[c] \in Version
    /\ \A c \in Caller : pc[c] = "rollback" => gen # 0
    /\ gen # 0 => version = gen /\ gen \in wasSet

ResultHolds ==
    (\A c \in Caller : pc[c] # "rollback") =>
        /\ settled.outcome = "applied" =>
              /\ device = Desired[settled.v]
              /\ gen = settled.v /\ version = settled.v /\ gen # 0
        /\ settled.outcome = "rolledback" =>
              /\ gen # 0 /\ device = Desired[gen]
              /\ version = gen /\ gen \in wasSet

IInv == TypeOK /\ OneAtATime /\ CallsAreSane /\ ResultHolds

LEMMA Initially == Init => IInv
<1> SUFFICES ASSUME Init PROVE IInv
  OBVIOUS
<1>1. TypeOK
  <2>1. device \in Configs
    BY DEF Init, Configs
  <2>2. calls \in 0 .. MaxCalls
    BY MaxCallsIsNat DEF Init
  <2>3. pc \in [Caller -> Place] /\ want \in [Caller -> Version \cup {0}]
    BY DEF Init, Place
  <2>4. settled \in [outcome : {"none", "applied", "rolledback"}, v : Version \cup {0}]
    BY DEF Init, NoCall
  <2> QED
    BY <2>1, <2>2, <2>3, <2>4 DEF Init, TypeOK
<1>2. OneAtATime
  BY DEF Init, OneAtATime, Working
<1>3. CallsAreSane /\ ResultHolds
  BY DEF Init, CallsAreSane, ResultHolds, NoCall
<1> QED
  BY <1>1, <1>2, <1>3 DEF IInv

\* What is set or left half set is a configuration; a call's roster is one.
LEMMA TypeStep == IInv /\ [Next]_vars => TypeOK'
<1> SUFFICES ASSUME IInv, [Next]_vars PROVE TypeOK'
  OBVIOUS
<1>0. TypeOK /\ CallsAreSane
  BY DEF IInv
<1>1. ASSUME NEW c \in Caller, NEW v \in Version, Call(c, v) PROVE TypeOK'
  BY <1>0, <1>1, MaxCallsIsNat DEF TypeOK, Call, Goes, Place
<1>2. ASSUME NEW c \in Caller, Enter(c) PROVE TypeOK'
  BY <1>0, <1>2 DEF TypeOK, Enter, Goes, Place
<1>3. ASSUME NEW c \in Caller, CompareLive(c) \/ CompareLast(c) PROVE TypeOK'
  <2>1. \/ applying' = FALSE /\ Goes(c, "idle")
        \/ applying' = applying /\ Goes(c, "setting")
    <3>1. ASSUME NEW current, Decide(c, current)
          PROVE  \/ applying' = FALSE /\ Goes(c, "idle")
                 \/ applying' = applying /\ Goes(c, "setting")
      BY <3>1 DEF Decide
    <3> QED
      BY <1>3, <3>1 DEF CompareLive, CompareLast
  <2>2. applying' \in BOOLEAN /\ pc' \in [Caller -> Place]
    BY <1>0, <2>1 DEF TypeOK, Goes, Place
  <2>3. UNCHANGED <<shownAs, device, gen, version, want, saved, wasSet, settled, calls>>
    BY <1>3 DEF CompareLive, CompareLast
  <2> QED
    BY <1>0, <2>2, <2>3 DEF TypeOK
<1>4. ASSUME NEW c \in Caller, SetApplied(c) PROVE TypeOK'
  <2>1. want[c] \in Version
    BY <1>0, <1>4 DEF SetApplied, CallsAreSane
  <2> QED
    BY <1>0, <1>4, <2>1, DesiredIsConfig DEF TypeOK, SetApplied, Settled, Goes, Place
<1>5. ASSUME NEW c \in Caller, SetThrows(c) PROVE TypeOK'
  <2>1. want[c] \in Version
    BY <1>0, <1>5 DEF SetThrows, CallsAreSane
  <2>2. device' \in Configs
    BY <1>0, <1>5, <2>1, PartlyIsConfig DEF TypeOK, SetThrows
  <2>3. /\ applying' \in BOOLEAN /\ pc' \in [Caller -> Place]
        /\ settled' \in [outcome : {"none", "applied", "rolledback"}, v : Version \cup {0}]
    <3>1. CASE gen = 0
      <4>1. applying' = FALSE /\ settled' = NoCall /\ Goes(c, "idle")
        BY <1>5, <3>1 DEF SetThrows
      <4> QED
        BY <1>0, <4>1 DEF TypeOK, NoCall, Goes, Place
    <3>2. CASE gen # 0
      <4>1. UNCHANGED <<applying, settled>> /\ Goes(c, "rollback")
        BY <1>5, <3>2 DEF SetThrows
      <4> QED
        BY <1>0, <4>1 DEF TypeOK, Goes, Place
    <3> QED
      BY <3>1, <3>2
  <2> QED
    BY <1>0, <1>5, <2>2, <2>3 DEF TypeOK, SetThrows
<1>6. ASSUME NEW c \in Caller, RollbackDone(c) PROVE TypeOK'
  <2>1. gen \in Version
    BY <1>0, <1>6 DEF TypeOK, RollbackDone, CallsAreSane
  <2> QED
    BY <1>0, <1>6, <2>1, DesiredIsConfig DEF TypeOK, RollbackDone, Settled, Goes, Place
<1>7. ASSUME NEW c \in Caller, RollbackThrows(c) PROVE TypeOK'
  <2>1. gen \in Version
    BY <1>0, <1>7 DEF TypeOK, RollbackThrows, CallsAreSane
  <2>2. device' \in Configs
    BY <1>0, <1>7, <2>1, PartlyIsConfig DEF TypeOK, RollbackThrows
  <2> QED
    BY <1>0, <1>7, <2>2 DEF TypeOK, RollbackThrows, NoCall, Goes, Place
<1>8. CASE Drift
  <2>1. device' \in Configs
    BY <1>0, <1>8, StrangeIsSetting DEF TypeOK, Drift, Configs
  <2> QED
    BY <1>0, <1>8, <2>1 DEF TypeOK, Drift, NoCall
<1>9. CASE Restart
  <2>1. BeingSet \subseteq Version
    BY <1>0 DEF TypeOK, CallsAreSane, BeingSet
  <2>2. device' \in Configs
    <3>1. CASE device' = device
      BY <1>0, <3>1 DEF TypeOK
    <3>2. CASE \E v \in BeingSet : device' \in Partly(v)
      BY <1>0, <2>1, <3>2, PartlyIsConfig DEF TypeOK
    <3> QED
      BY <1>9, <3>1, <3>2 DEF Restart
  <2> QED
    BY <1>0, <1>9, <2>2 DEF TypeOK, Restart, NoCall, Place
<1>10. CASE UNCHANGED vars
  BY <1>0, <1>10 DEF TypeOK, vars
<1> QED
  BY <1>1, <1>2, <1>3, <1>4, <1>5, <1>6, <1>7, <1>8, <1>9, <1>10
     DEF Next, Reconcile

\* The flag is taken where it is found free, and given back by its holder.
LEMMA OneStep == IInv /\ [Next]_vars => OneAtATime'
<1> SUFFICES ASSUME IInv, [Next]_vars PROVE OneAtATime'
  OBVIOUS
<1>0. /\ pc \in [Caller -> Place] /\ applying \in BOOLEAN
      /\ \A c, d \in Working : c = d
      /\ applying <=> Working # {}
  BY DEF IInv, TypeOK, OneAtATime
<1>1. ASSUME NEW c \in Caller, NEW place \in {"idle", "waiting"},
             pc[c] \in {"idle", "waiting"}, Goes(c, place), UNCHANGED applying
      PROVE  OneAtATime'
  <2>1. Working' = Working
    BY <1>0, <1>1 DEF Working, Goes
  <2> QED
    BY <1>0, <1>1, <2>1 DEF OneAtATime
<1>2. ASSUME NEW c \in Caller, Enter(c) PROVE OneAtATime'
  <2>1. Working' = {c}
    BY <1>0, <1>2 DEF Enter, Working, Goes
  <2> QED
    BY <1>2, <2>1 DEF Enter, OneAtATime
<1>3. ASSUME NEW c \in Working, Goes(c, "idle"), applying' = FALSE PROVE OneAtATime'
  <2>1. Working' = {}
    BY <1>0, <1>3 DEF Working, Goes
  <2> QED
    BY <1>3, <2>1 DEF OneAtATime
<1>4. ASSUME NEW c \in Working, NEW place \in {"setting", "rollback"},
             Goes(c, place), UNCHANGED applying
      PROVE  OneAtATime'
  <2>1. Working' = Working
    BY <1>0, <1>4 DEF Working, Goes
  <2> QED
    BY <1>0, <1>4, <2>1 DEF OneAtATime
<1>5. ASSUME NEW c \in Caller, NEW v \in Version, Call(c, v) PROVE OneAtATime'
  BY <1>1, <1>5 DEF Call
<1>6. ASSUME NEW c \in Caller, CompareLive(c) \/ CompareLast(c) PROVE OneAtATime'
  <2>1. c \in Working
    BY <1>6 DEF Working, CompareLive, CompareLast
  <2> QED
    BY <1>3, <1>4, <1>6, <2>1 DEF CompareLive, CompareLast, Decide
<1>7. ASSUME NEW c \in Caller,
             SetApplied(c) \/ SetThrows(c) \/ RollbackDone(c) \/ RollbackThrows(c)
      PROVE  OneAtATime'
  <2>1. c \in Working
    BY <1>7 DEF Working, SetApplied, SetThrows, RollbackDone, RollbackThrows
  <2> QED
    BY <1>3, <1>4, <1>7, <2>1 DEF SetApplied, SetThrows, RollbackDone, RollbackThrows
<1>8. CASE Restart
  <2>1. Working' = {}
    BY <1>8 DEF Restart, Working
  <2> QED
    BY <1>8, <2>1 DEF Restart, OneAtATime
<1>9. CASE Drift \/ UNCHANGED vars
  BY <1>0, <1>9 DEF Drift, vars, OneAtATime, Working
<1> QED
  BY <1>2, <1>5, <1>6, <1>7, <1>8, <1>9 DEF Next, Reconcile

\* A call keeps its roster and its way back, as no other call gets between.
LEMMA SaneStep == IInv /\ [Next]_vars => CallsAreSane'
<1> SUFFICES ASSUME IInv, [Next]_vars PROVE CallsAreSane'
  OBVIOUS
<1>0. /\ pc \in [Caller -> Place] /\ want \in [Caller -> Version \cup {0}]
      /\ \A c, d \in Working : c = d
      /\ CallsAreSane
  BY DEF IInv, TypeOK, OneAtATime
<1>1. ASSUME NEW c \in Caller, NEW v \in Version, Call(c, v) PROVE CallsAreSane'
  BY <1>0, <1>1 DEF CallsAreSane, Call, Goes
<1>2. ASSUME NEW c \in Caller, Enter(c) \/ CompareLive(c) \/ CompareLast(c)
      PROVE  CallsAreSane'
  BY <1>0, <1>2 DEF CallsAreSane, Enter, CompareLive, CompareLast, Decide, Goes
<1>3. ASSUME NEW c \in Caller, SetApplied(c) PROVE CallsAreSane'
  <2>1. \A d \in Caller : d # c => pc[d] # "rollback"
    BY <1>0, <1>3 DEF SetApplied, Working
  <2> QED
    BY <1>0, <1>3, <2>1 DEF CallsAreSane, SetApplied, Goes
<1>4. ASSUME NEW c \in Caller, SetThrows(c) PROVE CallsAreSane'
  BY <1>0, <1>4 DEF CallsAreSane, SetThrows, Goes
<1>5. ASSUME NEW c \in Caller, RollbackDone(c) \/ RollbackThrows(c) PROVE CallsAreSane'
  BY <1>0, <1>5 DEF CallsAreSane, RollbackDone, RollbackThrows, Goes
<1>6. CASE Drift \/ UNCHANGED vars
  BY <1>0, <1>6 DEF CallsAreSane, Drift, vars
<1>7. CASE Restart
  BY <1>0, <1>7 DEF CallsAreSane, Restart
<1> QED
  BY <1>1, <1>2, <1>3, <1>4, <1>5, <1>6, <1>7 DEF Next, Reconcile

\* Whoever changes the device gives the result anew, or takes it back.
LEMMA ResultStep == IInv /\ [Next]_vars => ResultHolds'
<1> SUFFICES ASSUME IInv, [Next]_vars PROVE ResultHolds'
  OBVIOUS
<1>0. /\ pc \in [Caller -> Place]
      /\ \A c, d \in Working : c = d
      /\ CallsAreSane /\ ResultHolds
  BY DEF IInv, TypeOK, OneAtATime
<1>1. ASSUME NEW c \in Caller, NEW v \in Version, Call(c, v) PROVE ResultHolds'
  BY <1>0, <1>1 DEF ResultHolds, Call, Goes
<1>2. ASSUME NEW c \in Caller, Enter(c) \/ CompareLive(c) \/ CompareLast(c)
      PROVE  ResultHolds'
  BY <1>0, <1>2 DEF ResultHolds, Enter, CompareLive, CompareLast, Decide, Goes
<1>3. ASSUME NEW c \in Caller, SetApplied(c) PROVE ResultHolds'
  <2>1. want[c] # 0
    BY <1>0, <1>3, DesiredIsConfig DEF SetApplied, CallsAreSane
  <2> QED
    BY <1>3, <2>1 DEF ResultHolds, SetApplied, Settled
<1>4. ASSUME NEW c \in Caller, SetThrows(c) PROVE ResultHolds'
  BY <1>0, <1>4 DEF ResultHolds, SetThrows, NoCall, Goes
<1>5. ASSUME NEW c \in Caller, RollbackDone(c) PROVE ResultHolds'
  BY <1>0, <1>5 DEF ResultHolds, CallsAreSane, RollbackDone, Settled
<1>6. ASSUME NEW c \in Caller, RollbackThrows(c) PROVE ResultHolds'
  BY <1>6 DEF ResultHolds, RollbackThrows, NoCall
<1>7. CASE Drift
  BY <1>7 DEF ResultHolds, Drift, NoCall
<1>8. CASE Restart
  BY <1>8 DEF ResultHolds, Restart, NoCall
<1>9. CASE UNCHANGED vars
  BY <1>0, <1>9 DEF ResultHolds, vars
<1> QED
  BY <1>1, <1>2, <1>3, <1>4, <1>5, <1>6, <1>7, <1>8, <1>9 DEF Next, Reconcile

LEMMA Inductive == IInv /\ [Next]_vars => IInv'
BY TypeStep, OneStep, SaneStep, ResultStep DEF IInv

\* The inductive invariant of reconcile(), for any callers, failures and drift.
THEOREM InvariantCorrect == Spec => []IInv
BY Initially, Inductive, PTL DEF Spec

\* reconcile() keeps the types of the object, the device and the callers.
THEOREM TypeCorrect == Spec => []TypeOK
<1>1. IInv => TypeOK
  BY DEF IInv
<1> QED
  BY <1>1, InvariantCorrect, PTL

\* Any number of callers of reconcile() work on the device one at a time.
THEOREM OneAtATimeCorrect == Spec => []OneAtATime
<1>1. IInv => OneAtATime
  BY DEF IInv
<1> QED
  BY <1>1, InvariantCorrect, PTL

\* The invariant says so where nobody is in reconcile().
LEMMA InvariantSettles == IInv => SettledAgrees
<1> SUFFICES ASSUME IInv, ~ applying PROVE SettledAgrees
  BY DEF SettledAgrees
<1>1. \A c \in Caller : pc[c] # "rollback"
  BY DEF IInv, OneAtATime, Working
<1> QED
  BY <1>1 DEF IInv, ResultHolds, SettledAgrees

\* Between calls the device, the generation and the version agree.
THEOREM SettledAgreesCorrect == Spec => []SettledAgrees
BY InvariantSettles, InvariantCorrect, PTL

\* What was applied is a compiled roster, and RosterConnects is about those.
LEMMA InvariantFits == IInv => AppliedFits
<1> SUFFICES ASSUME IInv, ~ applying, settled.outcome = "applied",
                    Consistent(Rosters[settled.v])
             PROVE  Connects(Network(Rosters[settled.v]), Rosters[settled.v])
  BY DEF AppliedFits
<1> DEFINE r == Rosters[settled.v]
           me == PositionOf(r, Me)
           local == [i \in Position(r) |-> IF i = me THEN Listens ELSE At(r, i).listener]
           net == Network(r)
<1>1. device = Desired[settled.v] /\ settled.v \in Version
  <2>1. \A c \in Caller : pc[c] # "rollback"
    BY DEF IInv, OneAtATime, Working
  <2> QED
    BY <2>1 DEF IInv, TypeOK, ResultHolds
<1>2. r \in Payload /\ Distinct(r) /\ Listed(r, Me)
  BY <1>1, RostersCompile DEF Compiles
<1> HIDE DEF r
<1>3. me \in Position(r) /\ At(r, me).key = Me
  BY <1>2 DEF Listed, PositionOf
<1> HIDE DEF me
<1>4. Agreeing(r, local)
  <2>1. /\ At(r, me).listener <=> (Listens \/ me = 0)
        /\ \A i \in Position(r) : At(r, i).listener => At(r, i).endpoint # NoEndpoint
    BY DEF Consistent, r, me
  <2>2. At(r, 0).listener
    BY <1>2, ZeroIsPosition, AtIsNode
  <2> QED
    BY <2>1, <2>2 DEF Agreeing
<1>5. Compiling(r, local, net)
  <2> SUFFICES ASSUME NEW i \in Position(r)
               PROVE  net[At(r, i).key] = Compiled(r, At(r, i).key, local[i])
    BY DEF Compiling
  <2>1. net[At(r, i).key] =
            IF At(r, i).key = Me THEN device
            ELSE Compiled(r, At(r, i).key, At(r, PositionOf(r, At(r, i).key)).listener)
    BY DEF Network
  <2>2. CASE i = me
    <3>1. device = Compiled(r, Me, Listens)
      BY <1>1 DEF Desired, r
    <3> QED
      BY <1>3, <2>1, <2>2, <3>1
  <2>3. CASE i # me
    <3>1. At(r, i).key # Me
      BY <1>2, <1>3, <2>3 DEF Distinct
    <3>2. PositionOf(r, At(r, i).key) = i
      BY <1>2, PositionIsUnique
    <3> QED
      BY <2>1, <2>3, <3>1, <3>2
  <2> QED
    BY <2>2, <2>3
<1> HIDE DEF local, net
<1>6. Connects(net, r)
  BY <1>2, <1>4, <1>5, RosterConnects
<1> QED
  BY <1>6 DEF net, r

\* A node that a roster was applied to fits in with all others.
THEOREM AppliedFitsCorrect == Spec => []AppliedFits
BY InvariantFits, InvariantCorrect, PTL

-----------------------------------------------------------------------------
(* Endpoints: the list of candidates *)

\* A nonempty set of naturals has a least element.
LEMMA LeastExists ==
    ASSUME NEW S, S \subseteq Nat, S # {}
    PROVE  \E n \in S : \A m \in S : n <= m
<1>1. PICK n \in S : \A m \in S : ~ (<<m, n>> \in OpToRel(<, Nat))
  BY NatLessThanWellFounded, WFMin
<1>2. ASSUME NEW m \in S PROVE n <= m
  <2>1. <<m, n>> \in OpToRel(<, Nat) <=> m < n
    BY DEF OpToRel
  <2>2. n \in Nat /\ m \in Nat
    OBVIOUS
  <2>3. ~ (m < n)
    BY <1>1, <2>1
  <2> QED
    BY <2>2, <2>3
<1> QED
  BY <1>2

LEMMA RankIsNat ==
    ASSUME NEW c PROVE Rank(c) \in 1 .. 3
  BY DEF Rank

\* Before is a strict total order on the places of a list.
LEMMA BeforeIsOrder ==
    ASSUME NEW cs, NEW i \in Nat, NEW j \in Nat
    PROVE  /\ ~ Before(cs, i, i)
           /\ Before(cs, i, j) => ~ Before(cs, j, i)
           /\ i # j => Before(cs, i, j) \/ Before(cs, j, i)
<1>1. Rank(cs[i]) \in Nat /\ Rank(cs[j]) \in Nat
  BY RankIsNat
<1> QED
  BY <1>1 DEF Before

LEMMA BeforeIsTransitive ==
    ASSUME NEW cs, NEW i \in Nat, NEW j \in Nat, NEW k \in Nat,
           Before(cs, i, j), Before(cs, j, k)
    PROVE  Before(cs, i, k)
<1>1. Rank(cs[i]) \in Nat /\ Rank(cs[j]) \in Nat /\ Rank(cs[k]) \in Nat
  BY RankIsNat
<1> QED
  BY <1>1 DEF Before

LEMMA UpToIsFinite ==
    ASSUME NEW n \in Nat
    PROVE  IsFiniteSet(1 .. n) /\ Cardinality(1 .. n) = n
<1>1. 1 \in Int /\ n \in Int
  OBVIOUS
<1>2. IsFiniteSet(1 .. n) /\ Cardinality(1 .. n) = IF 1 > n THEN 0 ELSE n - 1 + 1
  BY <1>1, FS_Interval, Zenon
<1> QED
  BY <1>2

LEMMA RemainingIsFinite ==
    ASSUME NEW cs \in Seq(Candidate)
    PROVE  /\ Remaining(cs) \subseteq DOMAIN cs /\ DOMAIN cs \subseteq Nat
           /\ IsFiniteSet(Remaining(cs))
           /\ Cardinality(Remaining(cs)) \in Nat
<1>1. DOMAIN cs = 1 .. Len(cs) /\ Len(cs) \in Nat
  OBVIOUS
<1>2. IsFiniteSet(1 .. Len(cs))
  BY <1>1, FS_Interval
<1>3. Remaining(cs) \subseteq DOMAIN cs
  BY DEF Remaining
<1>4. Remaining(cs) \in SUBSET (1 .. Len(cs))
  BY <1>1, <1>3
<1>5. IsFiniteSet(Remaining(cs))
  BY <1>2, <1>4, FS_Subset
<1> QED
  BY <1>1, <1>3, <1>5, FS_CardinalityType

\* How many of K come before i, and i.
Turn(cs, K, i) == Cardinality({j \in K : Before(cs, j, i)}) + 1

LEMMA TurnIsPlace ==
    ASSUME NEW cs, NEW K, K \subseteq Nat, IsFiniteSet(K), NEW i \in K
    PROVE  Turn(cs, K, i) \in 1 .. Cardinality(K)
<1> DEFINE L == {j \in K : Before(cs, j, i)}
<1>1. L \in SUBSET (K \ {i})
  BY BeforeIsOrder
<1>2. IsFiniteSet(K \ {i}) /\ Cardinality(K \ {i}) = Cardinality(K) - 1
  BY FS_RemoveElement
<1>3. Cardinality(K) \in Nat
  BY FS_CardinalityType
<1> HIDE DEF L
<1>4. IsFiniteSet(L) /\ Cardinality(L) <= Cardinality(K \ {i})
  BY <1>1, <1>2, FS_Subset
<1>5. Cardinality(L) \in Nat
  BY <1>4, FS_CardinalityType
<1>6. Turn(cs, K, i) = Cardinality(L) + 1
  BY DEF Turn, L
<1> QED
  BY <1>2, <1>3, <1>4, <1>5, <1>6

LEMMA TurnIsMonotone ==
    ASSUME NEW cs, NEW K, K \subseteq Nat, IsFiniteSet(K), NEW i \in K, NEW j \in K,
           Before(cs, i, j)
    PROVE  Turn(cs, K, i) < Turn(cs, K, j)
<1> DEFINE L == {k \in K : Before(cs, k, i)}
           M == {k \in K : Before(cs, k, j)}
<1>1. L \cup {i} \in SUBSET M /\ i \notin L
  BY BeforeIsOrder, BeforeIsTransitive
<1>2. L \in SUBSET K /\ M \in SUBSET K
  OBVIOUS
<1>3. Turn(cs, K, i) = Cardinality(L) + 1 /\ Turn(cs, K, j) = Cardinality(M) + 1
  BY DEF Turn
<1> HIDE DEF L, M
<1>4. IsFiniteSet(L) /\ IsFiniteSet(M)
  BY <1>2, FS_Subset
<1>5. Cardinality(L) \in Nat /\ Cardinality(M) \in Nat
  BY <1>4, FS_CardinalityType
<1>6. Cardinality(L \cup {i}) = Cardinality(L) + 1
  <2>1. Cardinality(L \cup {i}) = IF i \in L THEN Cardinality(L) ELSE Cardinality(L) + 1
    BY <1>4, FS_AddElement
  <2> QED
    BY <1>1, <2>1
<1>7. Cardinality(L \cup {i}) <= Cardinality(M)
  BY <1>1, <1>4, FS_Subset
<1> QED
  BY <1>3, <1>5, <1>6, <1>7

\* The candidates that remain can be listed in order: each has its turn, no two
\* have the same one, so every turn is somebody's.
LEMMA OrderExists ==
    ASSUME NEW cs \in Seq(Candidate)
    PROVE  \E f \in [1 .. Cardinality(Remaining(cs)) -> Remaining(cs)] : InOrder(cs, f)
<1> DEFINE K == Remaining(cs)
           N == 1 .. Cardinality(K)
           place == [i \in K |-> Turn(cs, K, i)]
           f == [n \in N |-> CHOOSE i \in K : place[i] = n]
<1>1. K \subseteq Nat /\ IsFiniteSet(K) /\ Cardinality(K) \in Nat
  BY RemainingIsFinite
<1> HIDE DEF K
<1>2. IsFiniteSet(N) /\ Cardinality(N) = Cardinality(K)
  BY <1>1, UpToIsFinite
<1>3. place \in [K -> N]
  BY <1>1, TurnIsPlace
<1>4. ASSUME NEW i \in K, NEW j \in K, Before(cs, i, j) PROVE place[i] < place[j]
  BY <1>1, <1>4, TurnIsMonotone
<1>5. \A i \in K : place[i] \in Nat
  BY <1>3, <1>1
<1> HIDE DEF place, N
<1>6. \A i, j \in K : place[i] = place[j] => i = j
  BY <1>1, <1>4, <1>5, BeforeIsOrder
<1>7. place \in Injection(K, N)
  BY <1>3, <1>6 DEF Injection, IsInjective
<1>8. place \in Surjection(K, N)
  BY <1>2, <1>7, FS_Injection
<1>9. \A n \in N : \E i \in K : place[i] = n
  BY <1>8 DEF Surjection
<1>10. \A n \in N : f[n] \in K /\ place[f[n]] = n
  BY <1>9
<1>11. f \in [N -> K] /\ DOMAIN f = N
  BY <1>10
<1> HIDE DEF f
<1>12. \A n \in N : n \in Nat
  BY <1>1 DEF N
<1>13. InOrder(cs, f)
  <2> SUFFICES ASSUME NEW m \in N, NEW n \in N, m < n PROVE Before(cs, f[m], f[n])
    BY <1>11 DEF InOrder
  <2>1. f[m] \in K /\ f[n] \in K /\ place[f[m]] < place[f[n]]
    BY <1>10
  <2>2. f[m] # f[n] /\ ~ Before(cs, f[n], f[m])
    BY <1>4, <1>5, <2>1
  <2> QED
    BY <1>1, <2>1, <2>2, BeforeIsOrder
<1> QED
  BY <1>11, <1>13 DEF K, N

LEMMA OrderIsOrder ==
    ASSUME NEW cs \in Seq(Candidate)
    PROVE  /\ Order(cs) \in [1 .. Cardinality(Remaining(cs)) -> Remaining(cs)]
           /\ InOrder(cs, Order(cs))
  BY OrderExists DEF Order

\* The list in order leaves nobody out.
LEMMA OrderIsComplete ==
    ASSUME NEW cs \in Seq(Candidate), NEW i \in Remaining(cs)
    PROVE  \E n \in DOMAIN Order(cs) : Order(cs)[n] = i
<1> DEFINE K == Remaining(cs)
           N == 1 .. Cardinality(K)
           f == Order(cs)
<1>1. K \subseteq Nat /\ IsFiniteSet(K) /\ Cardinality(K) \in Nat
  BY RemainingIsFinite
<1>2. f \in [N -> K] /\ InOrder(cs, f)
  BY OrderIsOrder
<1>3. i \in K
  OBVIOUS
<1> HIDE DEF f, K
<1>4. IsFiniteSet(N) /\ Cardinality(N) = Cardinality(K)
  BY <1>1, UpToIsFinite
<1>5. \A m, n \in N : f[m] = f[n] => m = n
  <2> SUFFICES ASSUME NEW m \in N, NEW n \in N, f[m] = f[n], m # n PROVE FALSE
    OBVIOUS
  <2>1. m < n \/ n < m
    BY <1>1
  <2>2. Before(cs, f[m], f[m])
    BY <1>2, <2>1 DEF InOrder
  <2>3. f[m] \in Nat
    BY <1>1, <1>2
  <2> QED
    BY <2>2, <2>3, BeforeIsOrder
<1> HIDE DEF N
<1>6. f \in Injection(N, K)
  BY <1>2, <1>5 DEF Injection, IsInjective
<1>7. f \in Surjection(N, K)
  BY <1>1, <1>4, <1>6, FS_Injection
<1>8. \E n \in N : f[n] = i
  BY <1>3, <1>7 DEF Surjection
<1> QED
  BY <1>2, <1>8 DEF f

\* sortCandidates(): what it returns are candidates of the list that have not
\* expired, by rank and each host once; and no host is lost, nor is a better
\* ranked candidate of it given up for a worse one.
THEOREM SortedIsCorrect ==
    ASSUME NEW cs \in Seq(Candidate)
    PROVE  /\ Sorted(cs) \in Seq(Candidate)
           /\ \A n \in DOMAIN Sorted(cs) :
                 /\ Unexpired(Sorted(cs)[n])
                 /\ \E i \in DOMAIN cs : Sorted(cs)[n] = cs[i]
           /\ \A m, n \in DOMAIN Sorted(cs) :
                 m < n => /\ Rank(Sorted(cs)[m]) <= Rank(Sorted(cs)[n])
                          /\ Sorted(cs)[m].host # Sorted(cs)[n].host
           /\ \A i \in DOMAIN cs :
                 Unexpired(cs[i]) =>
                     \E n \in DOMAIN Sorted(cs) :
                         /\ Sorted(cs)[n].host = cs[i].host
                         /\ Rank(Sorted(cs)[n]) <= Rank(cs[i])
<1> DEFINE K == Remaining(cs)
           N == 1 .. Cardinality(K)
           f == Order(cs)
<1>1. K \subseteq DOMAIN cs /\ DOMAIN cs \subseteq Nat /\ Cardinality(K) \in Nat
  BY RemainingIsFinite
<1>2. f \in [N -> K] /\ InOrder(cs, f)
  BY OrderIsOrder
<1>3. \A i \in K : \E n \in DOMAIN f : f[n] = i
  BY OrderIsComplete
<1>4. Sorted(cs) = [n \in DOMAIN f |-> cs[f[n]]]
  BY DEF Sorted
<1>5. ASSUME NEW i \in K
      PROVE  /\ Unexpired(cs[i]) /\ cs[i] \in Candidate
             /\ \A j \in DOMAIN cs \ {i} :
                   Unexpired(cs[j]) /\ cs[j].host = cs[i].host => Before(cs, i, j)
  BY <1>1 DEF Remaining
<1> HIDE DEF f, K
<1>6. DOMAIN f = N
  BY <1>2
<1>7. Sorted(cs) \in Seq(Candidate)
  <2>1. Sorted(cs) \in [N -> Candidate]
    BY <1>2, <1>4, <1>5
  <2> QED
    BY <1>1, <2>1
<1>8. DOMAIN Sorted(cs) = N /\ \A n \in N : Sorted(cs)[n] = cs[f[n]]
  BY <1>4, <1>6
<1>9. \A n \in N : f[n] \in K /\ f[n] \in DOMAIN cs /\ f[n] \in Nat
  BY <1>1, <1>2
<1> HIDE DEF N
<1>10. ASSUME NEW m \in N, NEW n \in N, m < n
       PROVE  Rank(cs[f[m]]) <= Rank(cs[f[n]]) /\ cs[f[m]].host # cs[f[n]].host
  <2>1. Before(cs, f[m], f[n])
    BY <1>2, <1>6, <1>10 DEF InOrder
  <2>2. Rank(cs[f[m]]) \in Nat /\ Rank(cs[f[n]]) \in Nat
    BY RankIsNat
  <2>3. Rank(cs[f[m]]) <= Rank(cs[f[n]])
    BY <2>1, <2>2 DEF Before
  <2>4. f[m] # f[n] /\ ~ Before(cs, f[n], f[m])
    BY <1>9, <2>1, BeforeIsOrder
  <2>5. f[m] \in DOMAIN cs \ {f[n]} /\ Unexpired(cs[f[m]])
    BY <1>5, <1>9, <2>4
  <2>6. cs[f[m]].host # cs[f[n]].host
    BY <1>5, <1>9, <2>4, <2>5
  <2> QED
    BY <2>3, <2>6
<1>11. ASSUME NEW i \in DOMAIN cs, Unexpired(cs[i])
       PROVE  \E k \in K : cs[k].host = cs[i].host /\ Rank(cs[k]) <= Rank(cs[i])
  <2> DEFINE Same == {j \in DOMAIN cs : Unexpired(cs[j]) /\ cs[j].host = cs[i].host}
             R == {Rank(cs[j]) : j \in Same}
  <2>1. R \subseteq Nat /\ R # {}
    BY <1>11, RankIsNat
  <2>2. PICK r \in R : \A q \in R : r <= q
    BY <2>1, LeastExists
  <2> DEFINE Best == {j \in Same : Rank(cs[j]) = r}
  <2>3. Best \subseteq Nat /\ Best # {}
    BY <1>1
  <2>4. PICK k \in Best : \A j \in Best : k <= j
    BY <2>3, LeastExists
  <2>5. \A j \in Same \ {k} : Before(cs, k, j)
    <3> SUFFICES ASSUME NEW j \in Same, j # k PROVE Before(cs, k, j)
      OBVIOUS
    <3>1. Rank(cs[k]) = r /\ r \in Nat /\ Rank(cs[j]) \in Nat /\ r <= Rank(cs[j])
      BY <2>1, <2>2
    <3>2. CASE Rank(cs[j]) = r
      <4>1. j \in Best /\ j \in Nat /\ k \in Nat
        BY <2>3, <3>2
      <4>2. k < j
        BY <2>4, <4>1
      <4> QED
        BY <3>1, <3>2, <4>2 DEF Before
    <3>3. CASE Rank(cs[j]) # r
      BY <3>1, <3>3 DEF Before
    <3> QED
      BY <3>2, <3>3
  <2>6. k \in K
    BY <2>5 DEF K, Remaining
  <2>7. Rank(cs[k]) <= Rank(cs[i])
    BY <1>11, <2>2
  <2> QED
    BY <2>6, <2>7
<1>12. ASSUME NEW i \in DOMAIN cs, Unexpired(cs[i])
       PROVE  \E n \in N : cs[f[n]].host = cs[i].host /\ Rank(cs[f[n]]) <= Rank(cs[i])
  BY <1>3, <1>6, <1>11, <1>12
<1>13. \A n \in DOMAIN Sorted(cs) :
          /\ Unexpired(Sorted(cs)[n])
          /\ \E i \in DOMAIN cs : Sorted(cs)[n] = cs[i]
  BY <1>5, <1>8, <1>9
<1>14. \A m, n \in DOMAIN Sorted(cs) :
          m < n => /\ Rank(Sorted(cs)[m]) <= Rank(Sorted(cs)[n])
                   /\ Sorted(cs)[m].host # Sorted(cs)[n].host
  BY <1>8, <1>10
<1>15. \A i \in DOMAIN cs :
          Unexpired(cs[i]) =>
              \E n \in DOMAIN Sorted(cs) :
                  /\ Sorted(cs)[n].host = cs[i].host
                  /\ Rank(Sorted(cs)[n]) <= Rank(cs[i])
  <2> SUFFICES ASSUME NEW i \in DOMAIN cs, Unexpired(cs[i])
               PROVE  \E n \in DOMAIN Sorted(cs) :
                          /\ Sorted(cs)[n].host = cs[i].host
                          /\ Rank(Sorted(cs)[n]) <= Rank(cs[i])
    OBVIOUS
  <2>1. PICK n \in N : cs[f[n]].host = cs[i].host /\ Rank(cs[f[n]]) <= Rank(cs[i])
    BY <1>12
  <2>2. n \in DOMAIN Sorted(cs) /\ Sorted(cs)[n] = cs[f[n]]
    BY <1>8
  <2> QED
    BY <2>1, <2>2
<1> QED
  BY <1>7, <1>13, <1>14, <1>15, Zenon

-----------------------------------------------------------------------------
(* The backoff *)

Chain(f, N) ==
    /\ f \in [0 .. N -> Nat]
    /\ f[0] = InitialBackoff
    /\ \A n \in 1 .. N : f[n] = Min2(f[n - 1] * 2, MaxBackoff)

\* The backoff is defined by recursion.  Chains of backoffs exist for every number
\* of failures, and agree, so together they are the function that Backoff chooses.
LEMMA ChainExists ==
    ASSUME NEW N \in Nat
    PROVE  \E f : Chain(f, N)
<1> DEFINE Bad == {n \in Nat : ~ \E f : Chain(f, n)}
<1>1. CASE Bad = {}
  BY <1>1
<1>2. CASE Bad # {}
  <2>1. PICK n \in Bad : \A m \in Bad : n <= m
    BY <1>2, LeastExists
  <2>2. CASE n = 0
    <3> DEFINE f == [k \in 0 .. n |-> InitialBackoff]
    <3>1. Chain(f, n)
      BY <2>2, TimesArePositive DEF Chain
    <3> QED
      BY <3>1
  <2>3. CASE n # 0
    <3>1. n - 1 \in Nat /\ n - 1 \notin Bad
      BY <2>1, <2>3
    <3>2. PICK g : Chain(g, n - 1)
      BY <3>1
    <3> DEFINE f == [k \in 0 .. n |-> IF k = n THEN Min2(g[n - 1] * 2, MaxBackoff) ELSE g[k]]
    <3>3. g \in [0 .. n - 1 -> Nat]
      BY <3>2 DEF Chain
    <3>4. Min2(g[n - 1] * 2, MaxBackoff) \in Nat
      BY <3>1, <3>3, TimesArePositive DEF Min2
    <3>5. f \in [0 .. n -> Nat]
      BY <3>1, <3>3, <3>4
    <3>6. f[0] = InitialBackoff
      BY <2>3, <3>1, <3>2 DEF Chain
    <3>7. ASSUME NEW k \in 1 .. n PROVE f[k] = Min2(f[k - 1] * 2, MaxBackoff)
      <4>1. k - 1 \in 0 .. n /\ k - 1 # n /\ f[k - 1] = g[k - 1]
        BY <3>1
      <4>2. CASE k = n
        BY <4>1, <4>2
      <4>3. CASE k # n
        <5>1. k \in 1 .. n - 1 /\ f[k] = g[k]
          BY <3>1, <4>3
        <5> QED
          BY <3>2, <4>1, <5>1 DEF Chain
      <4> QED
        BY <4>2, <4>3
    <3>8. Chain(f, n)
      BY <3>5, <3>6, <3>7 DEF Chain
    <3> QED
      BY <3>8
  <2> QED
    BY <2>2, <2>3
<1> QED
  BY <1>1, <1>2

LEMMA ChainIsUnique ==
    ASSUME NEW N \in Nat, NEW M \in Nat, NEW f, NEW g, Chain(f, N), Chain(g, M),
           NEW k \in Nat, k <= N, k <= M
    PROVE  f[k] = g[k]
<1> DEFINE Bad == {n \in Nat : n <= N /\ n <= M /\ f[n] # g[n]}
<1>1. CASE Bad = {}
  BY <1>1
<1>2. CASE Bad # {}
  <2>1. PICK n \in Bad : \A m \in Bad : n <= m
    BY <1>2, LeastExists
  <2>2. n # 0
    BY DEF Chain
  <2>3. n - 1 \in Nat /\ n - 1 \notin Bad
    BY <2>1, <2>2
  <2>4. f[n - 1] = g[n - 1]
    BY <2>3
  <2>5. n \in 1 .. N /\ n \in 1 .. M
    BY <2>2
  <2> QED
    BY <2>4, <2>5 DEF Chain
<1> QED
  BY <1>1, <1>2

LEMMA BackoffIsChain ==
    /\ Backoff \in [Nat -> Nat]
    /\ Backoff[0] = InitialBackoff
    /\ \A n \in Nat : Backoff[n + 1] = Min2(Backoff[n] * 2, MaxBackoff)
<1> DEFINE f(n) == CHOOSE g : Chain(g, n)
           F == [n \in Nat |-> f(n)[n]]
           Def(h) == [n \in Nat |-> IF n = 0 THEN InitialBackoff
                                    ELSE Min2(h[n - 1] * 2, MaxBackoff)]
<1>1. \A n \in Nat : Chain(f(n), n)
  BY ChainExists
<1> HIDE DEF f
<1>2. F = Def(F)
  <2>1. ASSUME NEW n \in Nat
        PROVE  F[n] = IF n = 0 THEN InitialBackoff ELSE Min2(F[n - 1] * 2, MaxBackoff)
    <3>1. CASE n = 0
      BY <1>1, <3>1 DEF Chain
    <3>2. CASE n # 0
      <4>1. n - 1 \in Nat /\ n - 1 <= n /\ n \in 1 .. n
        BY <3>2
      <4>2. f(n)[n] = Min2(f(n)[n - 1] * 2, MaxBackoff)
        BY <1>1, <4>1 DEF Chain
      <4>3. f(n)[n - 1] = f(n - 1)[n - 1]
        <5>1. Chain(f(n), n) /\ Chain(f(n - 1), n - 1) /\ n - 1 <= n - 1
          BY <1>1, <4>1
        <5> QED
          BY <4>1, <5>1, ChainIsUnique
      <4> QED
        BY <3>2, <4>1, <4>2, <4>3
    <3> QED
      BY <3>1, <3>2
  <2> QED
    BY <2>1
<1>3. Backoff = CHOOSE h : h = Def(h)
  BY DEF Backoff
<1>4. Backoff = Def(Backoff)
  BY <1>2, <1>3
<1>5. Backoff[0] = InitialBackoff
  BY <1>4
<1>6. \A n \in Nat : Backoff[n + 1] = Min2(Backoff[n] * 2, MaxBackoff)
  <2> SUFFICES ASSUME NEW n \in Nat
               PROVE  Backoff[n + 1] = Min2(Backoff[n] * 2, MaxBackoff)
    OBVIOUS
  <2>1. n + 1 \in Nat /\ n + 1 # 0 /\ (n + 1) - 1 = n
    OBVIOUS
  <2>2. Def(Backoff)[n + 1] = Min2(Backoff[n] * 2, MaxBackoff)
    BY <2>1
  <2> QED
    BY <1>4, <2>2
<1>7. Backoff \in [Nat -> Nat]
  <2>1. ASSUME NEW n \in Nat PROVE Backoff[n] \in Nat
    <3> DEFINE Bad == {m \in Nat : Backoff[m] \notin Nat}
    <3>1. CASE Bad = {}
      BY <3>1
    <3>2. CASE Bad # {}
      <4>1. PICK m \in Bad : \A k \in Bad : m <= k
        BY <3>2, LeastExists
      <4>2. m # 0
        BY <1>5, TimesArePositive
      <4>3. PICK k \in Nat : m = k + 1
        <5>1. m - 1 \in Nat /\ m = (m - 1) + 1
          BY <4>2
        <5> QED
          BY <5>1
      <4>4. k \notin Bad /\ Backoff[k] \in Nat
        BY <4>1, <4>3
      <4>5. Backoff[m] \in Nat
        BY <1>6, <4>3, <4>4, TimesArePositive DEF Min2
      <4> QED
        BY <4>5
    <3> QED
      BY <3>1, <3>2
  <2>2. Backoff = [n \in Nat |-> Backoff[n]]
    BY <1>4
  <2> QED
    BY <2>1, <2>2
<1> QED
  BY <1>5, <1>6, <1>7

-----------------------------------------------------------------------------
(* The inductive invariant *)

JobPlace == {"idle", "refetching", "applying", "probing"}
Job == [at : JobPlace, age : 0 .. MaxWait, host : Host \cup {NoHost}]

\* PeerTypeOK, by what the steps change together.
ListOK ==
    /\ candidates \in Seq(Candidate)
    /\ \A i, j \in DOMAIN candidates : candidates[i].host = candidates[j].host => i = j
    /\ idx \in Nat /\ (idx < Len(candidates) \/ idx = 0)
RecordOK ==
    /\ state \in {"active", "stale", "unreachable"}
    /\ hsAge \in 0 .. HsOld /\ attAge \in 0 .. AttOld
    /\ failures \in 0 .. MaxFailures /\ backoff \in InitialBackoff .. MaxBackoff
    /\ proved \in Host \cup {NoHost}
JobOK == job \in [Tick -> Job]
AroundOK ==
    /\ notified \in BOOLEAN /\ late \in BOOLEAN
    /\ dialled \in Host \cup {NoHost}
    /\ world \in [Host -> {"ok", "dead", "throws"}]
    /\ updates \in 0 .. MaxUpdates

\* A tick past its first await has a host to dial, past the second the device
\* has one.
JobsAim ==
    \A t \in Tick :
        /\ job[t].at \in {"applying", "probing"} => job[t].host \in Host
        /\ job[t].at = "probing" => dialled \in Host

\* As long as ticks have not overlapped, the handshake was too old when the one
\* that is under way began, and it still is.
OldWhileBusy ==
    ~late => /\ \A t, u \in Busy : t = u
             /\ \A t \in Busy : state # "active" /\ hsAge >= StaleAfter + job[t].age

\* Then a fresh handshake, too, is one with the endpoint that the device has.
FreshIsProved ==
    ~late /\ (state = "active" \/ hsAge < StaleAfter) =>
        dialled = proved /\ dialled # NoHost

PeerInv ==
    /\ ListOK /\ RecordOK /\ JobOK /\ AroundOK
    /\ JobsAim /\ OldWhileBusy /\ FreshIsProved /\ OutageIsMeant

\* What the bounds of the ages are.
LEMMA AgesAreNat ==
    /\ HsOld \in Nat /\ AttOld \in Nat /\ HsOld >= StaleAfter /\ HsOld >= MaxWait
    /\ AttOld >= MaxWait /\ StaleAfter \in Nat \ {0} /\ MaxWait \in Nat
  BY TimesArePositive DEF HsOld, AttOld

LEMMA PeerInitially == PeerInit => PeerInv
<1> SUFFICES ASSUME PeerInit PROVE PeerInv
  OBVIOUS
<1> USE DEF PeerInit
<1>1. ListOK
  <2>1. PICK list \in Lists : candidates = Sorted(list)
    OBVIOUS
  <2>2. list \in Seq(Candidate)
    BY ListsAreCandidates
  <2>3. candidates \in Seq(Candidate)
    BY <2>1, <2>2, SortedIsCorrect
  <2>4. \A i, j \in DOMAIN candidates : i < j => candidates[i].host # candidates[j].host
    BY <2>1, <2>2, SortedIsCorrect
  <2>5. \A i, j \in DOMAIN candidates : candidates[i].host = candidates[j].host => i = j
    BY <2>3, <2>4
  <2> QED
    BY <2>3, <2>5 DEF ListOK
<1>2. RecordOK
  BY TimesArePositive, AgesAreNat DEF RecordOK
<1>3. JobOK
  BY TimesArePositive DEF JobOK, Job, JobPlace, NoTick
<1>4. AroundOK
  <2>1. world \in [Host -> {"ok", "dead"}]
    OBVIOUS
  <2>2. world \in [Host -> {"ok", "dead", "throws"}]
    BY <2>1
  <2>3. 0 \in 0 .. MaxUpdates
    BY TimesArePositive
  <2> QED
    BY <2>2, <2>3 DEF AroundOK
<1>5. JobsAim /\ OldWhileBusy
  BY DEF JobsAim, OldWhileBusy, NoTick, Busy
<1>6. FreshIsProved
  BY AgesAreNat DEF FreshIsProved
<1>7. OutageIsMeant
  BY BackoffIsChain DEF OutageIsMeant
<1> QED
  BY <1>1, <1>2, <1>3, <1>4, <1>5, <1>6, <1>7 DEF PeerInv

-----------------------------------------------------------------------------
(* Parts of steps *)

LEMMA WaitsJob ==
    ASSUME JobOK, NEW t \in Tick, NEW at \in JobPlace, NEW age \in 0 .. MaxWait,
           NEW host \in Host \cup {NoHost}, Waits(t, at, age, host)
    PROVE  /\ JobOK'
           /\ job'[t] = [at |-> at, age |-> age, host |-> host]
           /\ \A u \in Tick \ {t} : job'[u] = job[u]
<1>1. [at |-> at, age |-> age, host |-> host] \in Job
  BY DEF Job
<1> QED
  BY <1>1 DEF Waits, JobOK

LEMMA EndsJob ==
    ASSUME JobOK, NEW t \in Tick, Ends(t)
    PROVE  /\ JobOK'
           /\ job'[t] = NoTick
           /\ \A u \in Tick \ {t} : job'[u] = job[u]
<1>1. NoTick \in Job
  BY TimesArePositive DEF NoTick, Job, JobPlace
<1> QED
  BY <1>1 DEF Ends, JobOK

LEMMA JobFields ==
    ASSUME JobOK, NEW t \in Tick
    PROVE  /\ job[t].at \in JobPlace /\ job[t].age \in 0 .. MaxWait /\ job[t].age \in Nat
           /\ job[t].host \in Host \cup {NoHost}
<1>1. job[t] \in Job
  BY DEF JobOK
<1> QED
  BY <1>1, TimesArePositive DEF Job

\* computePeerState() says "active" only of a fresh handshake and "unreachable"
\* only after all failures and without one.
LEMMA StateAtIsState ==
    ASSUME NEW hs \in 0 .. HsOld, NEW fails \in 0 .. MaxFailures, NEW age \in 0 .. MaxWait
    PROVE  /\ StateAt(hs, fails, age) \in {"active", "stale", "unreachable"}
           /\ StateAt(hs, fails, age) = "unreachable" =>
                fails = MaxFailures /\ hs >= StaleAfter
           /\ StateAt(hs, fails, age) = "active" => hs < StaleAfter + age
           /\ hs >= StaleAfter + age => StateAt(hs, fails, age) # "active"
           /\ age = 0 /\ hs < StaleAfter => StateAt(hs, fails, age) = "active"
<1>1. hs \in Nat /\ fails \in Nat /\ age \in Nat /\ hs <= HsOld /\ fails <= MaxFailures
      /\ age <= MaxWait /\ MaxFailures \in Nat
  BY TimesArePositive, AgesAreNat
<1>2. HsOld = StaleAfter + MaxWait /\ StaleAfter \in Nat /\ MaxWait \in Nat
  BY TimesArePositive DEF HsOld
<1> QED
  BY <1>1, <1>2 DEF StateAt

LEMMA SuccessRecord ==
    ASSUME RecordOK, AroundOK, NEW age \in 0 .. MaxWait, RecordSuccess(age)
    PROVE  RecordOK'
  BY TimesArePositive, AgesAreNat DEF RecordOK, AroundOK, RecordSuccess

LEMMA SuccessOutage ==
    ASSUME NEW age, RecordSuccess(age)
    PROVE  OutageIsMeant'
  BY BackoffIsChain DEF OutageIsMeant, RecordSuccess

LEMMA FailureRecord ==
    ASSUME RecordOK, NEW age \in 0 .. MaxWait, RecordFailure(age)
    PROVE  RecordOK'
<1>1. failures' \in 0 .. MaxFailures
  BY TimesArePositive DEF RecordOK, RecordFailure, Min2
<1>2. backoff' \in InitialBackoff .. MaxBackoff
  <2>1. backoff \in Nat /\ InitialBackoff \in Nat /\ MaxBackoff \in Nat
        /\ InitialBackoff <= backoff /\ InitialBackoff <= MaxBackoff
    BY TimesArePositive DEF RecordOK
  <2>2. backoff' = Min2(backoff * 2, MaxBackoff)
    BY DEF RecordFailure
  <2> QED
    BY <2>1, <2>2 DEF Min2
<1>3. hsAge' = hsAge /\ proved' = proved /\ attAge' = age
  BY DEF RecordFailure
<1>4. state' \in {"active", "stale", "unreachable"}
  BY <1>1, StateAtIsState DEF RecordOK, RecordFailure
<1>5. age \in 0 .. AttOld
  BY AgesAreNat
<1> QED
  BY <1>1, <1>2, <1>3, <1>4, <1>5 DEF RecordOK

\* A failure, however late it is recorded, doubles the backoff it counts in.
LEMMA FailureOutage ==
    ASSUME RecordOK, OutageIsMeant, NEW age \in 0 .. MaxWait, RecordFailure(age)
    PROVE  OutageIsMeant'
<1>1. RecordOK'
  BY FailureRecord
<1>2. failures \in Nat /\ MaxFailures \in Nat /\ failures <= MaxFailures
  BY TimesArePositive DEF RecordOK
<1>3. failures' = Min2(failures + 1, MaxFailures) /\ backoff' = Min2(Backoff[failures] * 2, MaxBackoff)
  BY DEF RecordFailure, OutageIsMeant
<1>4. backoff' = Backoff[failures']
  <2>1. CASE failures < MaxFailures
    <3>1. failures' = failures + 1
      BY <1>2, <1>3, <2>1 DEF Min2
    <3> QED
      BY <1>2, <1>3, <3>1, BackoffIsChain
  <2>2. CASE failures = MaxFailures
    <3>1. failures' = MaxFailures
      BY <1>2, <1>3, <2>2 DEF Min2
    <3>2. backoff' = MaxBackoff
      BY <1>3, <2>2, BackoffReachesMax, TimesArePositive DEF Min2
    <3> QED
      BY <3>1, <3>2, BackoffReachesMax
  <2> QED
    BY <1>2, <2>1, <2>2
<1>5. state' = "unreachable" => failures' = MaxFailures /\ hsAge' >= StaleAfter
  <2>1. hsAge \in 0 .. HsOld /\ hsAge' = hsAge /\ failures' \in 0 .. MaxFailures
    BY <1>1 DEF RecordOK, RecordFailure
  <2>2. state' = StateAt(hsAge, failures', age)
    BY DEF RecordFailure
  <2> QED
    BY <2>1, <2>2, StateAtIsState
<1> QED
  BY <1>4, <1>5 DEF OutageIsMeant

LEMMA RefetchesJob ==
    ASSUME JobOK, NEW t \in Tick, TickRefetches(t)
    PROVE  /\ JobOK'
           /\ job'[t].at = "refetching" /\ job'[t].age = 0
           /\ \A u \in Tick \ {t} : job'[u] = job[u]
<1>1. "refetching" \in JobPlace /\ 0 \in 0 .. MaxWait /\ NoHost \in Host \cup {NoHost}
  BY TimesArePositive DEF JobPlace
<1>2. Waits(t, "refetching", 0, NoHost)
  BY DEF TickRefetches
<1>3. /\ JobOK'
      /\ job'[t] = [at |-> "refetching", age |-> 0, host |-> NoHost]
      /\ \A u \in Tick \ {t} : job'[u] = job[u]
  BY <1>1, <1>2, WaitsJob
<1> QED
  BY <1>3

LEMMA AppliedJob ==
    ASSUME JobOK, NEW t \in Tick, Applied(t)
    PROVE  /\ JobOK'
           /\ job'[t].at = "probing" /\ job'[t].age = job[t].age
           /\ job'[t].host = job[t].host
           /\ \A u \in Tick \ {t} : job'[u] = job[u]
<1>1. "probing" \in JobPlace
  BY DEF JobPlace
<1>2. Waits(t, "probing", job[t].age, job[t].host)
  BY DEF Applied
<1>3. /\ JobOK'
      /\ job'[t] = [at |-> "probing", age |-> job[t].age, host |-> job[t].host]
      /\ \A u \in Tick \ {t} : job'[u] = job[u]
  BY <1>1, <1>2, JobFields, WaitsJob
<1> QED
  BY <1>3

\* Proceed() as its three outcomes: give up, fail for want of a candidate, dial.
LEMMA ProceedRecord ==
    ASSUME PeerInv, NEW t \in Tick, NEW age \in 0 .. MaxWait,
           NEW st \in {"active", "stale", "unreachable"}, Proceed(t, st, age)
    PROVE  RecordOK'
<1>1. CASE RecordFailure(age)
  BY <1>1, FailureRecord DEF PeerInv
<1>2. CASE state' = st /\ UNCHANGED <<hsAge, attAge, failures, backoff, proved>>
  BY <1>2 DEF PeerInv, RecordOK
<1> QED
  BY <1>1, <1>2 DEF Proceed

LEMMA ProceedOutage ==
    ASSUME PeerInv, NEW t \in Tick, NEW age \in 0 .. MaxWait, NEW st, Proceed(t, st, age),
           st = "unreachable" => failures = MaxFailures /\ hsAge >= StaleAfter
    PROVE  OutageIsMeant'
<1>1. CASE RecordFailure(age)
  BY <1>1, FailureOutage DEF PeerInv
<1>2. CASE state' = st /\ UNCHANGED <<hsAge, attAge, failures, backoff, proved>>
  BY <1>2 DEF PeerInv, OutageIsMeant
<1> QED
  BY <1>1, <1>2 DEF Proceed

LEMMA CandidateHasHost ==
    ASSUME ListOK, candidates # <<>>
    PROVE  CurrentCandidate.host \in Host
<1>1. Len(candidates) \in Nat \ {0} /\ idx \in Nat /\ candidates \in Seq(Candidate)
  BY DEF ListOK
<1> DEFINE n == Len(candidates)
           i == idx % n
<1>2. i \in 0 .. n - 1
  BY <1>1
<1> HIDE DEF i
<1>3. i + 1 \in 1 .. n
  BY <1>1, <1>2
<1>4. candidates[i + 1] \in Candidate
  BY <1>1, <1>3
<1> QED
  BY <1>4 DEF CurrentCandidate, Candidate, i

\* It ends the tick, or sends it on to dial a listed host.
LEMMA ProceedJob ==
    ASSUME PeerInv, NEW t \in Tick, NEW age \in 0 .. MaxWait, NEW st, Proceed(t, st, age)
    PROVE  /\ JobOK'
           /\ \/ job'[t] = NoTick
              \/ /\ job'[t].at = "applying" /\ job'[t].host \in Host /\ job'[t].age = age
                 /\ st # "active" /\ state' = st /\ UNCHANGED hsAge
           /\ \A u \in Tick \ {t} : job'[u] = job[u]
<1>1. CASE Ends(t)
  BY <1>1, EndsJob DEF PeerInv
<1>2. CASE /\ ShouldRetry(st, age) /\ candidates # <<>>
           /\ state' = st
           /\ Waits(t, "applying", age, CurrentCandidate.host)
           /\ UNCHANGED <<hsAge, attAge, failures, backoff, proved>>
  <2>1. CurrentCandidate.host \in Host /\ "applying" \in JobPlace
    BY <1>2, CandidateHasHost DEF PeerInv, JobPlace
  <2>2. /\ JobOK'
        /\ job'[t] = [at |-> "applying", age |-> age, host |-> CurrentCandidate.host]
        /\ \A u \in Tick \ {t} : job'[u] = job[u]
    BY <1>2, <2>1, WaitsJob DEF PeerInv
  <2> QED
    BY <1>2, <2>1, <2>2 DEF ShouldRetry
<1> QED
  BY <1>1, <1>2 DEF Proceed

-----------------------------------------------------------------------------
(* The steps keep the types *)

LEMMA UpdatedList ==
    ASSUME NEW cs \in Seq(Candidate)
    PROVE  /\ Sorted(cs) \in Seq(Candidate)
           /\ \A i, j \in DOMAIN Sorted(cs) : Sorted(cs)[i].host = Sorted(cs)[j].host => i = j
<1>1. Sorted(cs) \in Seq(Candidate)
  BY SortedIsCorrect
<1>2. \A i, j \in DOMAIN Sorted(cs) : i < j => Sorted(cs)[i].host # Sorted(cs)[j].host
  BY SortedIsCorrect
<1>3. \A i, j \in DOMAIN Sorted(cs) : i \in Nat /\ j \in Nat
  BY <1>1
<1> QED
  BY <1>1, <1>2, <1>3

LEMMA FallbackIsCandidate ==
    ASSUME NEW c \in Candidate
    PROVE  /\ AsFallback(c, FallbackWindow) \in Candidate
           /\ AsFallback(c, FallbackWindow).host = c.host
           /\ c.source = "roster" => Unexpired(AsFallback(c, FallbackWindow))
<1>1. FallbackWindow \in Nat \ {0} /\ 0 \in 0 .. FallbackWindow
      /\ FallbackWindow \in 0 .. FallbackWindow
  BY TimesArePositive
<1> QED
  BY <1>1 DEF AsFallback, Candidate, Unexpired

LEMMA KeptIsList ==
    ASSUME NEW cs \in Seq(Candidate)
    PROVE  /\ Kept(cs) \in Seq(Candidate) /\ Len(Kept(cs)) = Len(cs)
           /\ DOMAIN cs = 1 .. Len(cs)
           /\ \A i \in DOMAIN cs : Kept(cs)[i] = AsFallback(cs[i], FallbackWindow)
<1>1. \A i \in DOMAIN cs : cs[i] \in Candidate
  OBVIOUS
<1>2. Kept(cs) \in [1 .. Len(cs) -> Candidate]
  BY <1>1, FallbackIsCandidate DEF Kept
<1> QED
  BY <1>2 DEF Kept

LEMMA AgedCandidate ==
    ASSUME NEW c \in Candidate
    PROVE  LET a == [c EXCEPT !.left = IF @ \in {Forever, 0} THEN @ ELSE @ - 1]
           IN  a \in Candidate /\ a.host = c.host
<1>1. c.left \in {Forever} \cup 0 .. FallbackWindow /\ FallbackWindow \in Nat
  BY TimesArePositive DEF Candidate
<1> DEFINE b == IF c.left \in {Forever, 0} THEN c.left ELSE c.left - 1
<1>2. b \in {Forever} \cup 0 .. FallbackWindow
  BY <1>1 DEF Forever
<1> HIDE DEF b
<1>3. [c EXCEPT !.left = b] \in Candidate /\ [c EXCEPT !.left = b].host = c.host
  BY <1>2 DEF Candidate
<1> QED
  BY <1>3 DEF b

\* An endpoint that throws ends the process, and the next one starts as any
\* other; what it finds is the device and the hosts.
LEMMA ThrowsKeeps ==
    ASSUME PeerInv, NEW t \in Tick, ApplyThrows(t)
    PROVE  PeerInv'
<1> USE DEF ApplyThrows
<1>1. ListOK'
  <2>1. PICK list \in Lists : candidates' = Sorted(list)
    OBVIOUS
  <2>2. list \in Seq(Candidate)
    BY ListsAreCandidates
  <2> QED
    BY <2>1, <2>2, UpdatedList DEF ListOK
<1>2. RecordOK'
  BY TimesArePositive, AgesAreNat DEF RecordOK, PeerInv
<1>3. JobOK'
  BY TimesArePositive DEF JobOK, Job, JobPlace, NoTick
<1>4. AroundOK'
  BY DEF AroundOK, PeerInv
<1>5. JobsAim' /\ OldWhileBusy'
  BY DEF JobsAim, OldWhileBusy, NoTick, Busy
<1>6. FreshIsProved'
  BY AgesAreNat DEF FreshIsProved
<1>7. OutageIsMeant'
  BY BackoffIsChain DEF OutageIsMeant
<1> QED
  BY <1>1, <1>2, <1>3, <1>4, <1>5, <1>6, <1>7 DEF PeerInv

LEMMA ListStep == PeerInv /\ [PeerNext]_endpointVars => ListOK'
<1> SUFFICES ASSUME PeerInv, [PeerNext]_endpointVars PROVE ListOK'
  OBVIOUS
<1>0. ListOK
  BY DEF PeerInv
<1>1. CASE UNCHANGED <<candidates, idx>>
  BY <1>0, <1>1 DEF ListOK
<1>2. ASSUME NEW t \in Tick, ProbeFails(t) PROVE ListOK'
  <2>1. candidates' = candidates /\ AdvanceCandidate
    BY <1>2 DEF ProbeFails
  <2>2. CASE candidates = <<>>
    BY <1>0, <2>1, <2>2 DEF AdvanceCandidate, ListOK
  <2>3. CASE candidates # <<>>
    <3>1. Len(candidates) \in Nat \ {0} /\ idx \in Nat
      BY <1>0, <2>3 DEF ListOK
    <3>2. idx' = (idx + 1) % Len(candidates)
      BY <2>1, <2>3 DEF AdvanceCandidate
    <3>3. idx' \in 0 .. Len(candidates) - 1
      BY <3>1, <3>2
    <3> QED
      BY <1>0, <2>1, <3>1, <3>3 DEF ListOK
  <2> QED
    BY <2>2, <2>3
<1>3. ASSUME NEW list \in Lists, UpdateCandidates(list) PROVE ListOK'
  <2>1. list \o Kept(candidates) \in Seq(Candidate)
    BY <1>0, ListsAreCandidates, KeptIsList DEF ListOK
  <2>2. candidates' = Sorted(list \o Kept(candidates)) /\ idx' = 0
    BY <1>3 DEF UpdateCandidates
  <2> QED
    BY <2>1, <2>2, UpdatedList DEF ListOK
<1>4. CASE TimePasses
  <2>1. /\ candidates' = [i \in DOMAIN candidates |->
                [candidates[i] EXCEPT !.left = IF @ \in {Forever, 0} THEN @ ELSE @ - 1]]
        /\ idx' = idx
    BY <1>4 DEF TimePasses
  <2>2. candidates \in Seq(Candidate) /\ \A i \in DOMAIN candidates : candidates[i] \in Candidate
    BY <1>0 DEF ListOK
  <2>3. \A i \in DOMAIN candidates : candidates'[i] \in Candidate
                                      /\ candidates'[i].host = candidates[i].host
    BY <2>1, <2>2, AgedCandidate
  <2>4. DOMAIN candidates = 1 .. Len(candidates) /\ Len(candidates) \in Nat
    BY <2>2
  <2>5. candidates' \in Seq(Candidate) /\ Len(candidates') = Len(candidates)
    BY <2>1, <2>3, <2>4
  <2> QED
    BY <1>0, <2>1, <2>3, <2>5 DEF ListOK
<1>5. ASSUME NEW t \in Tick, Starts(t) PROVE UNCHANGED <<candidates, idx>>
  BY <1>5 DEF Starts, TickActive, TickRefetches, TickProceeds
<1>6. ASSUME NEW t \in Tick, Refetched(t) \/ Applied(t) \/ ProbeOk(t)
      PROVE  UNCHANGED <<candidates, idx>>
  BY <1>6 DEF Refetched, Applied, ProbeOk, peerVars
<1>7. CASE WorldChanges
  BY <1>1, <1>7 DEF WorldChanges, peerVars
<1>8. CASE UNCHANGED endpointVars
  BY <1>1, <1>8 DEF endpointVars, peerVars
<1>9. ASSUME NEW t \in Tick, ApplyThrows(t) PROVE ListOK'
  BY <1>9, ThrowsKeeps DEF PeerInv
<1> QED
  BY <1>1, <1>2, <1>3, <1>4, <1>5, <1>6, <1>7, <1>8, <1>9 DEF PeerNext, GoesOn

LEMMA RecordStep == PeerInv /\ [PeerNext]_endpointVars => RecordOK'
<1> SUFFICES ASSUME PeerInv, [PeerNext]_endpointVars PROVE RecordOK'
  OBVIOUS
<1>0. RecordOK /\ JobOK /\ AroundOK
  BY DEF PeerInv
<1>a. 0 \in 0 .. MaxWait /\ hsAge \in 0 .. HsOld /\ failures \in 0 .. MaxFailures
  BY <1>0, TimesArePositive DEF RecordOK
<1>b. StateAt(hsAge, failures, 0) \in {"active", "stale", "unreachable"}
  BY <1>a, StateAtIsState
<1>1. CASE UNCHANGED <<state, hsAge, attAge, failures, backoff, proved>>
  BY <1>0, <1>1 DEF RecordOK
<1>2. ASSUME NEW t \in Tick, TickActive(t) \/ TickRefetches(t) PROVE RecordOK'
  BY <1>0, <1>2 DEF TickActive, TickRefetches, RecordOK
<1>3. ASSUME NEW t \in Tick, TickProceeds(t) PROVE RecordOK'
  BY <1>3, <1>a, <1>b, ProceedRecord DEF TickProceeds
<1>4. ASSUME NEW t \in Tick, Refetched(t) PROVE RecordOK'
  <2>1. state \in {"active", "stale", "unreachable"}
    BY <1>0 DEF RecordOK
  <2> QED
    BY <1>0, <1>4, <2>1, JobFields, ProceedRecord DEF Refetched
<1>5. ASSUME NEW t \in Tick, Applied(t) PROVE RecordOK'
  BY <1>1, <1>5 DEF Applied, peerVars
<1>6. ASSUME NEW t \in Tick, ProbeOk(t) PROVE RecordOK'
  BY <1>0, <1>6, JobFields, SuccessRecord DEF ProbeOk
<1>7. ASSUME NEW t \in Tick, ProbeFails(t) PROVE RecordOK'
  BY <1>0, <1>7, JobFields, FailureRecord DEF ProbeFails
<1>8. ASSUME NEW list \in Lists, UpdateCandidates(list) PROVE RecordOK'
  BY <1>1, <1>8 DEF UpdateCandidates
<1>9. CASE WorldChanges
  BY <1>1, <1>9 DEF WorldChanges, peerVars
<1>10. CASE TimePasses
  <2>1. hsAge' = Min2(hsAge + 1, HsOld) /\ attAge' = Min2(attAge + 1, AttOld)
        /\ UNCHANGED <<state, failures, backoff, proved>>
    BY <1>10 DEF TimePasses, Older
  <2>2. hsAge' \in 0 .. HsOld /\ attAge' \in 0 .. AttOld
    BY <1>0, <2>1, AgesAreNat DEF RecordOK, Min2
  <2> QED
    BY <1>0, <2>1, <2>2 DEF RecordOK
<1>11. CASE UNCHANGED endpointVars
  BY <1>1, <1>11 DEF endpointVars, peerVars
<1>12. ASSUME NEW t \in Tick, ApplyThrows(t) PROVE RecordOK'
  BY <1>12, ThrowsKeeps DEF PeerInv
<1> QED
  BY <1>2, <1>3, <1>4, <1>5, <1>6, <1>7, <1>8, <1>9, <1>10, <1>11, <1>12
     DEF PeerNext, Starts, GoesOn

LEMMA AroundStep == PeerInv /\ [PeerNext]_endpointVars => AroundOK'
<1> SUFFICES ASSUME PeerInv, [PeerNext]_endpointVars PROVE AroundOK'
  OBVIOUS
<1>0. AroundOK /\ JobOK /\ JobsAim
  BY DEF PeerInv
<1>1. CASE UNCHANGED <<notified, late, dialled, world, updates>>
  BY <1>0, <1>1 DEF AroundOK
<1>2. ASSUME NEW t \in Tick, Starts(t) PROVE AroundOK'
  BY <1>0, <1>2 DEF Starts, TickActive, TickRefetches, TickProceeds, AroundOK
<1>3. ASSUME NEW t \in Tick, Applied(t) PROVE AroundOK'
  BY <1>0, <1>3 DEF Applied, JobsAim, AroundOK
<1>4. ASSUME NEW t \in Tick, Refetched(t) \/ ProbeOk(t) \/ ProbeFails(t) PROVE AroundOK'
  BY <1>1, <1>4 DEF Refetched, ProbeOk, ProbeFails
<1>5. ASSUME NEW list \in Lists, UpdateCandidates(list) PROVE AroundOK'
  BY <1>0, <1>5, TimesArePositive DEF UpdateCandidates, AroundOK
<1>6. CASE WorldChanges
  BY <1>0, <1>6 DEF WorldChanges, AroundOK
<1>7. CASE TimePasses
  BY <1>1, <1>7 DEF TimePasses
<1>8. CASE UNCHANGED endpointVars
  BY <1>1, <1>8 DEF endpointVars
<1>9. ASSUME NEW t \in Tick, ApplyThrows(t) PROVE AroundOK'
  BY <1>9, ThrowsKeeps DEF PeerInv
<1> QED
  BY <1>2, <1>3, <1>4, <1>5, <1>6, <1>7, <1>8, <1>9 DEF PeerNext, GoesOn

LEMMA JobStep == PeerInv /\ [PeerNext]_endpointVars => JobOK'
<1> SUFFICES ASSUME PeerInv, [PeerNext]_endpointVars PROVE JobOK'
  OBVIOUS
<1>0. JobOK /\ JobsAim
  BY DEF PeerInv
<1>a. 0 \in 0 .. MaxWait
  BY TimesArePositive
<1>1. CASE job' = job
  BY <1>0, <1>1 DEF JobOK
<1>2. ASSUME NEW t \in Tick, TickActive(t) PROVE JobOK'
  BY <1>1, <1>2 DEF TickActive
<1>3. ASSUME NEW t \in Tick, TickRefetches(t) PROVE JobOK'
  BY <1>0, <1>3, RefetchesJob
<1>4. ASSUME NEW t \in Tick, TickProceeds(t) PROVE JobOK'
  BY <1>4, <1>a, ProceedJob DEF TickProceeds
<1>5. ASSUME NEW t \in Tick, Refetched(t) PROVE JobOK'
  BY <1>0, <1>5, JobFields, ProceedJob DEF Refetched
<1>6. ASSUME NEW t \in Tick, Applied(t) PROVE JobOK'
  BY <1>0, <1>6, AppliedJob
<1>7. ASSUME NEW t \in Tick, ProbeOk(t) \/ ProbeFails(t) PROVE JobOK'
  BY <1>0, <1>7, EndsJob DEF ProbeOk, ProbeFails
<1>8. ASSUME NEW list \in Lists, UpdateCandidates(list) PROVE JobOK'
  BY <1>1, <1>8 DEF UpdateCandidates
<1>9. CASE WorldChanges
  BY <1>1, <1>9 DEF WorldChanges
<1>10. CASE TimePasses
  <2>1. /\ \A t \in Busy : job[t].age < MaxWait
        /\ job' = [t \in Tick |-> IF t \in Busy THEN [job[t] EXCEPT !.age = @ + 1] ELSE job[t]]
    BY <1>10 DEF TimePasses
  <2>2. ASSUME NEW t \in Tick PROVE job[t] \in Job
    BY <1>0 DEF JobOK
  <2>3. ASSUME NEW t \in Busy PROVE [job[t] EXCEPT !.age = @ + 1] \in Job
    <3>1. t \in Tick /\ job[t].age + 1 \in 0 .. MaxWait
      BY <1>0, <2>1, JobFields, TimesArePositive DEF Busy
    <3> QED
      BY <2>2, <3>1 DEF Job
  <2> QED
    BY <2>1, <2>2, <2>3 DEF JobOK
<1>11. CASE UNCHANGED endpointVars
  BY <1>1, <1>11 DEF endpointVars
<1>12. ASSUME NEW t \in Tick, ApplyThrows(t) PROVE JobOK'
  BY <1>12, ThrowsKeeps DEF PeerInv
<1> QED
  BY <1>2, <1>3, <1>4, <1>5, <1>6, <1>7, <1>8, <1>9, <1>10, <1>11, <1>12
     DEF PeerNext, Starts, GoesOn

-----------------------------------------------------------------------------
(* The steps keep the rest of the invariant *)

LEMMA TimePassesJob ==
    ASSUME JobOK, TimePasses, NEW t \in Tick
    PROVE  /\ job'[t].at = job[t].at /\ job'[t].host = job[t].host
           /\ t \in Busy => job'[t].age = job[t].age + 1 /\ job[t].age < MaxWait
<1>1. job[t] \in Job
  BY DEF JobOK
<1>2. job'[t] = IF t \in Busy THEN [job[t] EXCEPT !.age = @ + 1] ELSE job[t]
  BY DEF TimePasses
<1> QED
  BY <1>1, <1>2 DEF Job, TimePasses

LEMMA AimStep == PeerInv /\ [PeerNext]_endpointVars => JobsAim'
<1> SUFFICES ASSUME PeerInv, [PeerNext]_endpointVars PROVE JobsAim'
  OBVIOUS
<1>0. JobOK /\ JobsAim
  BY DEF PeerInv
<1>a. 0 \in 0 .. MaxWait
  BY TimesArePositive
<1>1. CASE job' = job /\ dialled' = dialled
  BY <1>0, <1>1 DEF JobsAim
<1>2. ASSUME NEW t \in Tick, dialled' = dialled,
             \A u \in Tick \ {t} : job'[u] = job[u],
             \/ job'[t].at \in {"idle", "refetching"}
             \/ job'[t].at = "applying" /\ job'[t].host \in Host
      PROVE  JobsAim'
  BY <1>0, <1>2 DEF JobsAim
<1>3. NoTick.at = "idle"
  BY DEF NoTick
<1>4. ASSUME NEW t \in Tick, TickActive(t) PROVE JobsAim'
  BY <1>1, <1>4 DEF TickActive
<1>5. ASSUME NEW t \in Tick, TickRefetches(t) PROVE JobsAim'
  <2>1. job'[t].at = "refetching" /\ \A u \in Tick \ {t} : job'[u] = job[u]
    BY <1>0, <1>5, RefetchesJob
  <2> QED
    BY <1>2, <1>5, <2>1 DEF TickRefetches
<1>6. ASSUME NEW t \in Tick, TickProceeds(t) PROVE JobsAim'
  <2>1. Proceed(t, StateAt(hsAge, failures, 0), 0) /\ dialled' = dialled
    BY <1>6 DEF TickProceeds
  <2> QED
    BY <1>2, <1>3, <1>a, <2>1, ProceedJob
<1>7. ASSUME NEW t \in Tick, Refetched(t) PROVE JobsAim'
  <2>1. Proceed(t, state, job[t].age) /\ dialled' = dialled /\ job[t].age \in 0 .. MaxWait
    BY <1>0, <1>7, JobFields DEF Refetched
  <2> QED
    BY <1>2, <1>3, <2>1, ProceedJob
<1>8. ASSUME NEW t \in Tick, Applied(t) PROVE JobsAim'
  <2>1. /\ job'[t].at = "probing" /\ job'[t].host = job[t].host
        /\ \A u \in Tick \ {t} : job'[u] = job[u]
    BY <1>0, <1>8, AppliedJob
  <2>2. dialled' \in Host /\ job[t].host \in Host
    BY <1>0, <1>8 DEF Applied, JobsAim
  <2> QED
    BY <1>0, <2>1, <2>2 DEF JobsAim
<1>9. ASSUME NEW t \in Tick, ProbeOk(t) \/ ProbeFails(t) PROVE JobsAim'
  <2>1. Ends(t) /\ dialled' = dialled
    BY <1>9 DEF ProbeOk, ProbeFails
  <2> QED
    BY <1>0, <1>2, <1>3, <2>1, EndsJob
<1>10. ASSUME NEW list \in Lists, UpdateCandidates(list) PROVE JobsAim'
  BY <1>1, <1>10 DEF UpdateCandidates
<1>11. CASE WorldChanges
  BY <1>1, <1>11 DEF WorldChanges
<1>12. CASE TimePasses
  <2>1. dialled' = dialled
    BY <1>12 DEF TimePasses
  <2> QED
    BY <1>0, <1>12, <2>1, TimePassesJob DEF JobsAim
<1>13. CASE UNCHANGED endpointVars
  BY <1>1, <1>13 DEF endpointVars
<1>14. ASSUME NEW t \in Tick, ApplyThrows(t) PROVE JobsAim'
  BY <1>14, ThrowsKeeps DEF PeerInv
<1> QED
  BY <1>4, <1>5, <1>6, <1>7, <1>8, <1>9, <1>10, <1>11, <1>12, <1>13, <1>14
     DEF PeerNext, Starts, GoesOn

LEMMA FailureState ==
    ASSUME RecordOK, NEW age \in 0 .. MaxWait, RecordFailure(age)
    PROVE  /\ UNCHANGED <<hsAge, proved>>
           /\ state' = "active" => hsAge < StaleAfter + age
<1>1. hsAge \in 0 .. HsOld /\ failures' \in 0 .. MaxFailures
  BY FailureRecord DEF RecordOK
<1>2. state' = StateAt(hsAge, failures', age) /\ UNCHANGED <<hsAge, proved>>
  BY DEF RecordFailure
<1> QED
  BY <1>1, <1>2, StateAtIsState

LEMMA ProceedState ==
    ASSUME RecordOK, NEW t \in Tick, NEW age \in 0 .. MaxWait, NEW st, Proceed(t, st, age)
    PROVE  /\ UNCHANGED <<hsAge, proved>>
           /\ state' = st \/ (state' = "active" => hsAge < StaleAfter + age)
<1>1. CASE RecordFailure(age)
  BY <1>1, FailureState
<1>2. CASE state' = st /\ UNCHANGED <<hsAge, attAge, failures, backoff, proved>>
  BY <1>2
<1> QED
  BY <1>1, <1>2 DEF Proceed

\* What a tick that starts knows of the peer.
LEMMA StartState ==
    ASSUME RecordOK
    PROVE  /\ StateAt(hsAge, failures, 0) = "active" <=> hsAge < StaleAfter
           /\ StateAt(hsAge, failures, 0) = "unreachable" => failures = MaxFailures
           /\ hsAge \in Nat
<1>1. hsAge \in 0 .. HsOld /\ failures \in 0 .. MaxFailures /\ 0 \in 0 .. MaxWait
  BY TimesArePositive DEF RecordOK
<1>2. hsAge \in Nat /\ StaleAfter \in Nat
  BY <1>1, AgesAreNat
<1>3. StateAt(hsAge, failures, 0) = "active" => hsAge < StaleAfter + 0
  BY <1>1, StateAtIsState
<1>4. hsAge < StaleAfter => StateAt(hsAge, failures, 0) = "active"
  BY <1>1, StateAtIsState
<1>5. StateAt(hsAge, failures, 0) = "unreachable" => failures = MaxFailures
  BY <1>1, StateAtIsState
<1> QED
  BY <1>2, <1>3, <1>4, <1>5

LEMMA BusyStep == PeerInv /\ [PeerNext]_endpointVars => OldWhileBusy'
<1> SUFFICES ASSUME PeerInv, [PeerNext]_endpointVars, ~ late'
             PROVE  /\ \A t, u \in Busy' : t = u
                    /\ \A t \in Busy' : state' # "active" /\ hsAge' >= StaleAfter + job'[t].age
  BY DEF OldWhileBusy
<1> DEFINE Goal == /\ \A t, u \in Busy' : t = u
                   /\ \A t \in Busy' : state' # "active" /\ hsAge' >= StaleAfter + job'[t].age
<1>0. RecordOK /\ JobOK /\ OldWhileBusy
  BY DEF PeerInv
<1>a. 0 \in 0 .. MaxWait /\ StaleAfter \in Nat /\ hsAge \in Nat
  BY <1>0, TimesArePositive, StartState
<1>b. NoTick.at = "idle"
  BY DEF NoTick
<1>1. CASE UNCHANGED <<job, state, hsAge>> /\ ~ late
  BY <1>0, <1>1 DEF OldWhileBusy, Busy
\* One tick may be under way, and t is the one that moves.
<1>2. ASSUME NEW t \in Tick, \A u \in Tick \ {t} : job[u].at = "idle" /\ job'[u] = job[u],
             \/ job'[t].at = "idle"
             \/ state' # "active" /\ hsAge' >= StaleAfter + job'[t].age
      PROVE  Goal
  <2>1. Busy' \subseteq {t} /\ (job'[t].at = "idle" => Busy' = {})
    BY <1>2 DEF Busy
  <2> QED
    BY <1>2, <2>1
<1>3. ASSUME NEW t \in Busy, ~ late
      PROVE  /\ \A u \in Tick \ {t} : job[u].at = "idle"
             /\ state # "active" /\ hsAge >= StaleAfter + job[t].age
             /\ job[t].age \in 0 .. MaxWait /\ t \in Tick
  BY <1>0, <1>3, JobFields DEF OldWhileBusy, Busy
<1>4. ASSUME NEW t \in Tick, TickActive(t) PROVE Goal
  <2>1. hsAge < StaleAfter /\ ~ late /\ job' = job
    BY <1>0, <1>4, StartState DEF TickActive
  <2>2. ASSUME NEW u \in Busy PROVE FALSE
    <3>1. hsAge >= StaleAfter + job[u].age /\ job[u].age \in Nat
      BY <1>3, <2>1, TimesArePositive
    <3> QED
      BY <1>a, <2>1, <3>1
  <2>3. Busy' = {}
    BY <2>1, <2>2 DEF Busy
  <2> QED
    BY <2>3
<1>5. ASSUME NEW t \in Tick, TickRefetches(t) PROVE Goal
  <2>1. Busy = {} /\ state' = "unreachable" /\ hsAge' = hsAge
        /\ StateAt(hsAge, failures, 0) = "unreachable"
    BY <1>5 DEF TickRefetches
  <2>2. job'[t].age = 0 /\ \A u \in Tick \ {t} : job'[u] = job[u]
    BY <1>0, <1>5, RefetchesJob
  <2>3. \A u \in Tick \ {t} : job[u].at = "idle"
    BY <2>1 DEF Busy
  <2>4. hsAge' >= StaleAfter + 0
    BY <1>0, <1>a, <2>1, StartState
  <2> QED
    BY <1>2, <2>1, <2>2, <2>3, <2>4
<1>6. ASSUME NEW t \in Tick, TickProceeds(t) PROVE Goal
  <2> DEFINE st == StateAt(hsAge, failures, 0)
  <2>1. Busy = {} /\ Proceed(t, st, 0) /\ st # "active"
    BY <1>6 DEF TickProceeds
  <2>2. hsAge >= StaleAfter + 0
    BY <1>0, <1>a, <2>1, StartState
  <2>3. \A u \in Tick \ {t} : job[u].at = "idle"
    BY <2>1 DEF Busy
  <2> HIDE DEF st
  <2>4. /\ \A u \in Tick \ {t} : job'[u] = job[u]
        /\ \/ job'[t].at = "idle"
           \/ job'[t].age = 0 /\ state' = st /\ hsAge' = hsAge
    BY <1>a, <1>b, <2>1, ProceedJob
  <2> QED
    BY <1>2, <2>1, <2>2, <2>3, <2>4
<1>7. ASSUME NEW t \in Tick, Refetched(t) PROVE Goal
  <2>1. ~ late /\ t \in Busy /\ Proceed(t, state, job[t].age)
    BY <1>7 DEF Refetched, Busy
  <2>2. /\ \A u \in Tick \ {t} : job'[u] = job[u]
        /\ \/ job'[t].at = "idle"
           \/ job'[t].age = job[t].age /\ state' = state /\ hsAge' = hsAge
    BY <1>3, <1>b, <2>1, ProceedJob
  <2> QED
    BY <1>2, <1>3, <2>1, <2>2
<1>8. ASSUME NEW t \in Tick, Applied(t) PROVE Goal
  <2>1. ~ late /\ t \in Busy /\ UNCHANGED <<state, hsAge>>
    BY <1>8 DEF Applied, Busy, peerVars
  <2>2. job'[t].age = job[t].age /\ \A u \in Tick \ {t} : job'[u] = job[u]
    BY <1>0, <1>8, AppliedJob
  <2> QED
    BY <1>2, <1>3, <2>1, <2>2
<1>9. ASSUME NEW t \in Tick, ProbeOk(t) \/ ProbeFails(t) PROVE Goal
  <2>1. ~ late /\ t \in Busy /\ Ends(t)
    BY <1>9 DEF ProbeOk, ProbeFails, Busy
  <2>2. job'[t].at = "idle" /\ \A u \in Tick \ {t} : job'[u] = job[u]
    BY <1>0, <1>b, <1>9, <2>1, EndsJob
  <2> QED
    BY <1>2, <1>3, <2>1, <2>2
<1>10. ASSUME NEW list \in Lists, UpdateCandidates(list) PROVE Goal
  BY <1>1, <1>10 DEF UpdateCandidates
<1>11. CASE WorldChanges
  BY <1>1, <1>11 DEF WorldChanges, peerVars
<1>12. CASE TimePasses
  <2>1. ~ late /\ state' = state /\ hsAge' = Min2(hsAge + 1, HsOld)
    BY <1>12 DEF TimePasses, Older
  <2>2. Busy' = Busy
    BY <1>0, <1>12, TimePassesJob DEF Busy
  <2>3. ASSUME NEW t \in Busy PROVE state' # "active" /\ hsAge' >= StaleAfter + job'[t].age
    <3>1. /\ state # "active" /\ hsAge >= StaleAfter + job[t].age
          /\ job[t].age \in Nat /\ t \in Tick
      BY <1>3, <2>1, TimesArePositive
    <3>2. job'[t].age = job[t].age + 1 /\ job[t].age < MaxWait
      BY <1>0, <1>12, <3>1, TimePassesJob
    <3>3. MaxWait \in Nat /\ HsOld = StaleAfter + MaxWait
      BY TimesArePositive DEF HsOld
    <3> QED
      BY <1>a, <2>1, <3>1, <3>2, <3>3 DEF Min2
  <2> QED
    BY <1>0, <2>1, <2>2, <2>3 DEF OldWhileBusy
<1>13. CASE UNCHANGED endpointVars
  BY <1>1, <1>13 DEF endpointVars, peerVars
<1>14. ASSUME NEW t \in Tick, ApplyThrows(t) PROVE Goal
  BY <1>14, ThrowsKeeps DEF PeerInv, OldWhileBusy
<1> QED
  BY <1>4, <1>5, <1>6, <1>7, <1>8, <1>9, <1>10, <1>11, <1>12, <1>13, <1>14
     DEF PeerNext, Starts, GoesOn

LEMMA FreshStep == PeerInv /\ [PeerNext]_endpointVars => FreshIsProved'
<1> SUFFICES ASSUME PeerInv, [PeerNext]_endpointVars, ~ late',
                    state' = "active" \/ hsAge' < StaleAfter
             PROVE  dialled' = proved' /\ dialled' # NoHost
  BY DEF FreshIsProved
<1> DEFINE Goal == dialled' = proved' /\ dialled' # NoHost
<1>0. RecordOK /\ JobOK /\ AroundOK /\ JobsAim /\ OldWhileBusy /\ FreshIsProved
  BY DEF PeerInv
<1>a. 0 \in 0 .. MaxWait /\ StaleAfter \in Nat /\ hsAge \in Nat
  BY <1>0, TimesArePositive, StartState
<1>1. CASE ~ late /\ UNCHANGED <<dialled, proved>> /\ (state = "active" \/ hsAge < StaleAfter)
  BY <1>0, <1>1 DEF FreshIsProved
<1>2. ASSUME NEW t \in Busy, ~ late
      PROVE  /\ state # "active" /\ hsAge >= StaleAfter + job[t].age
             /\ job[t].age \in 0 .. MaxWait /\ job[t].age \in Nat
  BY <1>0, <1>2, JobFields DEF OldWhileBusy, Busy
<1>3. ASSUME NEW t \in Tick, TickActive(t) PROVE Goal
  <2>1. hsAge < StaleAfter /\ ~ late /\ UNCHANGED <<dialled, proved>>
    BY <1>0, <1>3, StartState DEF TickActive
  <2> QED
    BY <1>1, <2>1
<1>4. ASSUME NEW t \in Tick, TickRefetches(t) PROVE Goal
  <2>1. ~ late /\ UNCHANGED <<dialled, proved, hsAge>> /\ state' = "unreachable"
    BY <1>0, <1>4 DEF TickRefetches, AroundOK
  <2> QED
    BY <1>1, <2>1
<1>5. ASSUME NEW t \in Tick, TickProceeds(t) PROVE Goal
  <2> DEFINE st == StateAt(hsAge, failures, 0)
  <2>1. ~ late /\ dialled' = dialled /\ Proceed(t, st, 0) /\ st # "active"
    BY <1>0, <1>5 DEF TickProceeds, AroundOK
  <2> HIDE DEF st
  <2>2. /\ UNCHANGED <<hsAge, proved>>
        /\ state' = st \/ (state' = "active" => hsAge < StaleAfter + 0)
    BY <1>0, <1>a, <2>1, ProceedState
  <2> QED
    BY <1>1, <1>a, <2>1, <2>2
<1>6. ASSUME NEW t \in Tick, Refetched(t) PROVE Goal
  <2>1. ~ late /\ dialled' = dialled /\ Proceed(t, state, job[t].age) /\ t \in Busy
    BY <1>6 DEF Refetched, Busy
  <2>2. /\ state # "active" /\ hsAge >= StaleAfter + job[t].age
        /\ job[t].age \in 0 .. MaxWait /\ job[t].age \in Nat
    BY <1>2, <2>1
  <2>3. /\ UNCHANGED <<hsAge, proved>>
        /\ state' = state \/ (state' = "active" => hsAge < StaleAfter + job[t].age)
    BY <1>0, <2>1, <2>2, ProceedState
  <2> QED
    BY <1>1, <1>a, <2>1, <2>2, <2>3
<1>7. ASSUME NEW t \in Tick, Applied(t) PROVE Goal
  <2>1. ~ late /\ t \in Busy /\ UNCHANGED <<state, hsAge>>
    BY <1>7 DEF Applied, Busy, peerVars
  <2>2. state # "active" /\ hsAge >= StaleAfter + job[t].age /\ job[t].age \in Nat
    BY <1>2, <2>1
  <2> QED
    BY <1>a, <2>1, <2>2
<1>8. ASSUME NEW t \in Tick, ProbeOk(t) PROVE Goal
  <2>1. dialled \in Host /\ dialled' = dialled /\ proved' = dialled
    BY <1>0, <1>8 DEF ProbeOk, RecordSuccess, JobsAim
  <2> QED
    BY <2>1, HostsAreNamed
<1>9. ASSUME NEW t \in Tick, ProbeFails(t) PROVE Goal
  <2>1. ~ late /\ dialled' = dialled /\ RecordFailure(job[t].age) /\ t \in Busy
    BY <1>9 DEF ProbeFails, Busy
  <2>2. /\ hsAge >= StaleAfter + job[t].age
        /\ job[t].age \in 0 .. MaxWait /\ job[t].age \in Nat
    BY <1>2, <2>1
  <2>3. /\ UNCHANGED <<hsAge, proved>>
        /\ state' = "active" => hsAge < StaleAfter + job[t].age
    BY <1>0, <2>1, <2>2, FailureState
  <2> QED
    BY <1>1, <1>a, <2>1, <2>2, <2>3
<1>10. ASSUME NEW list \in Lists, UpdateCandidates(list) PROVE Goal
  BY <1>1, <1>10 DEF UpdateCandidates
<1>11. CASE WorldChanges
  BY <1>1, <1>11 DEF WorldChanges, peerVars
<1>12. CASE TimePasses
  <2>1. ~ late /\ UNCHANGED <<state, dialled, proved>> /\ hsAge' = Min2(hsAge + 1, HsOld)
    BY <1>12 DEF TimePasses, Older
  <2>2. hsAge' < StaleAfter => hsAge < StaleAfter
    BY <1>a, <2>1, AgesAreNat DEF Min2
  <2> QED
    BY <1>1, <2>1, <2>2
<1>13. CASE UNCHANGED endpointVars
  BY <1>1, <1>13 DEF endpointVars, peerVars
<1>14. ASSUME NEW t \in Tick, ApplyThrows(t) PROVE Goal
  BY <1>14, ThrowsKeeps DEF PeerInv, FreshIsProved
<1> QED
  BY <1>3, <1>4, <1>5, <1>6, <1>7, <1>8, <1>9, <1>10, <1>11, <1>12, <1>13, <1>14
     DEF PeerNext, Starts, GoesOn

LEMMA OutageStep == PeerInv /\ [PeerNext]_endpointVars => OutageIsMeant'
<1> SUFFICES ASSUME PeerInv, [PeerNext]_endpointVars PROVE OutageIsMeant'
  OBVIOUS
<1>0. RecordOK /\ JobOK /\ AroundOK /\ OutageIsMeant
  BY DEF PeerInv
<1>a. 0 \in 0 .. MaxWait /\ StaleAfter \in Nat /\ hsAge \in Nat
  BY <1>0, TimesArePositive, StartState
<1>1. CASE UNCHANGED <<state, hsAge, failures, backoff>>
  BY <1>0, <1>1 DEF OutageIsMeant
<1>2. StateAt(hsAge, failures, 0) = "unreachable" =>
        failures = MaxFailures /\ hsAge >= StaleAfter
  BY <1>0, <1>a, StartState
<1>3. ASSUME NEW t \in Tick, TickActive(t) \/ TickRefetches(t) PROVE OutageIsMeant'
  BY <1>0, <1>2, <1>3 DEF TickActive, TickRefetches, OutageIsMeant
<1>4. ASSUME NEW t \in Tick, TickProceeds(t) PROVE OutageIsMeant'
  BY <1>2, <1>4, <1>a, ProceedOutage DEF TickProceeds
<1>5. ASSUME NEW t \in Tick, Refetched(t) PROVE OutageIsMeant'
  <2>1. state = "unreachable" => failures = MaxFailures /\ hsAge >= StaleAfter
    BY <1>0 DEF OutageIsMeant
  <2>2. job[t].age \in 0 .. MaxWait /\ Proceed(t, state, job[t].age)
    BY <1>0, <1>5, JobFields DEF Refetched
  <2> QED
    BY <2>1, <2>2, ProceedOutage
<1>6. ASSUME NEW t \in Tick, Applied(t) PROVE OutageIsMeant'
  BY <1>1, <1>6 DEF Applied, peerVars
<1>7. ASSUME NEW t \in Tick, ProbeOk(t) PROVE OutageIsMeant'
  BY <1>7, SuccessOutage DEF ProbeOk
<1>8. ASSUME NEW t \in Tick, ProbeFails(t) PROVE OutageIsMeant'
  BY <1>0, <1>8, JobFields, FailureOutage DEF ProbeFails
<1>9. ASSUME NEW list \in Lists, UpdateCandidates(list) PROVE OutageIsMeant'
  BY <1>1, <1>9 DEF UpdateCandidates
<1>10. CASE WorldChanges
  BY <1>1, <1>10 DEF WorldChanges, peerVars
<1>11. CASE TimePasses
  <2>1. hsAge' = Min2(hsAge + 1, HsOld) /\ UNCHANGED <<state, failures, backoff>>
    BY <1>11 DEF TimePasses, Older
  <2>2. hsAge >= StaleAfter => hsAge' >= StaleAfter
    BY <1>a, <2>1, AgesAreNat DEF Min2
  <2> QED
    BY <1>0, <2>1, <2>2 DEF OutageIsMeant
<1>12. CASE UNCHANGED endpointVars
  BY <1>1, <1>12 DEF endpointVars, peerVars
<1>13. ASSUME NEW t \in Tick, ApplyThrows(t) PROVE OutageIsMeant'
  BY <1>13, ThrowsKeeps DEF PeerInv
<1> QED
  BY <1>3, <1>4, <1>5, <1>6, <1>7, <1>8, <1>9, <1>10, <1>11, <1>12, <1>13
     DEF PeerNext, Starts, GoesOn

LEMMA PeerInductive == PeerInv /\ [PeerNext]_endpointVars => PeerInv'
  BY ListStep, RecordStep, AroundStep, JobStep, AimStep, BusyStep, FreshStep, OutageStep
     DEF PeerInv

-----------------------------------------------------------------------------
(* Theorems about the endpoints of a peer *)

\* The inductive invariant of tick() and what goes on around it, however many
\* ticks overlap.
THEOREM PeerInvariantCorrect == PeerSpec => []PeerInv
  BY PeerInitially, PeerInductive, PTL DEF PeerSpec

\* The peer entry keeps its types: above all the hosts on its list differ and the
\* index is one of the list.
THEOREM PeerTypeCorrect == PeerSpec => []PeerTypeOK
<1>1. PeerInv => PeerTypeOK
  BY DEF PeerInv, ListOK, RecordOK, JobOK, Job, JobPlace, AroundOK, PeerTypeOK
<1> QED
  BY <1>1, PeerInvariantCorrect, PTL

\* As long as ticks have not overlapped, the device of a peer that counts as
\* active has the endpoint that the last good probe was of.
THEOREM ActiveIsProvedCorrect == PeerSpec => []ActiveIsProved
<1>1. PeerInv => ActiveIsProved
  BY DEF PeerInv, FreshIsProved, ActiveIsProved
<1> QED
  BY <1>1, PeerInvariantCorrect, PTL

\* backoffMs and consecutiveFailures always fit each other, and a peer is
\* unreachable only after all failures and without a fresh handshake.
THEOREM OutageIsMeantCorrect == PeerSpec => []OutageIsMeant
<1>1. PeerInv => OutageIsMeant
  BY DEF PeerInv
<1> QED
  BY <1>1, PeerInvariantCorrect, PTL

\* Every endpoint that the old list had from the roster is on the new one: as a
\* fallback, or as a new candidate with the same host.
LEMMA UpdateKeeps ==
    ASSUME PeerInv, NEW list \in Lists, UpdateCandidates(list),
           NEW i \in DOMAIN candidates, candidates[i].source = "roster"
    PROVE  \E j \in DOMAIN candidates' :
               candidates'[j].host = candidates[i].host /\ Unexpired(candidates'[j])
<1> DEFINE kept == Kept(candidates)
           cs == list \o kept
           k == Len(list) + i
<1>1. candidates \in Seq(Candidate) /\ list \in Seq(Candidate)
  BY ListsAreCandidates DEF PeerInv, ListOK
<1>2. /\ kept \in Seq(Candidate) /\ Len(kept) = Len(candidates)
      /\ i \in 1 .. Len(candidates) /\ candidates[i] \in Candidate
      /\ kept[i] = AsFallback(candidates[i], FallbackWindow)
  BY <1>1, KeptIsList
<1>3. kept[i].host = candidates[i].host /\ Unexpired(kept[i])
  BY <1>2, FallbackIsCandidate
<1> HIDE DEF kept
<1>4. cs \in Seq(Candidate) /\ k \in DOMAIN cs /\ cs[k] = kept[i]
  BY <1>1, <1>2
<1>5. candidates' = Sorted(cs)
  BY DEF UpdateCandidates, kept
<1> HIDE DEF cs, k
<1>6. \A n \in DOMAIN Sorted(cs) : Unexpired(Sorted(cs)[n])
  BY <1>4, SortedIsCorrect
<1>7. PICK n \in DOMAIN Sorted(cs) : Sorted(cs)[n].host = cs[k].host
  BY <1>3, <1>4, SortedIsCorrect
<1> QED
  BY <1>3, <1>4, <1>5, <1>6, <1>7

\* updateCandidatesFromRoster() keeps every endpoint of the last roster on the
\* list, unexpired.
THEOREM PreviousIsKeptCorrect == PeerSpec => PreviousIsKept
<1> DEFINE Keeps ==
        updates' > updates =>
            \A i \in DOMAIN candidates :
                candidates[i].source = "roster" =>
                    \E j \in DOMAIN candidates' :
                        candidates'[j].host = candidates[i].host /\ Unexpired(candidates'[j])
<1>1. PeerInv /\ [PeerNext]_endpointVars => [Keeps]_endpointVars
  <2> SUFFICES ASSUME PeerInv, PeerNext PROVE Keeps
    OBVIOUS
  <2>1. updates \in Nat
    BY TimesArePositive DEF PeerInv, AroundOK
  <2>2. CASE updates' = updates
    BY <2>1, <2>2
  <2>3. ASSUME NEW list \in Lists, UpdateCandidates(list) PROVE Keeps
    BY <2>3, UpdateKeeps
  <2>4. ASSUME NEW t \in Tick, Starts(t) PROVE updates' = updates
    BY <2>4 DEF Starts, TickActive, TickRefetches, TickProceeds
  <2>5. ASSUME NEW t \in Tick, GoesOn(t) PROVE updates' = updates
    BY <2>5 DEF GoesOn, Refetched, Applied, ApplyThrows, ProbeOk, ProbeFails
  <2>6. CASE WorldChanges \/ TimePasses
    BY <2>2, <2>6 DEF WorldChanges, TimePasses
  <2> QED
    BY <2>2, <2>3, <2>4, <2>5, <2>6 DEF PeerNext
<1>2. PeerSpec => [][Keeps]_endpointVars
  BY <1>1, PeerInvariantCorrect, PTL DEF PeerSpec
<1> QED
  BY <1>2 DEF PreviousIsKept
=============================================================================
