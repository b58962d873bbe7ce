------------------------------- MODULE Roster -------------------------------
(***************************************************************************)
(* Rosters and what a node makes of them: compileRoster() of               *)
(* src/src/roster.ts.  A roster is the anchor and a list of members; each  *)
(* node compiles the same roster for itself, and a tunnel works only if    *)
(* both of its ends come to the same result.  Reconciler brings a device   *)
(* to it.                                                                  *)
(*                                                                         *)
(* The second part says what WireGuard does with it: a packet goes to the  *)
(* peer with the longest allowed IP that matches, and is taken only from   *)
(* the peer to which its source address would be routed.                   *)
(***************************************************************************)
EXTENDS Integers, Sequences

CONSTANTS
    Key,        \* public keys of nodes
    IP,         \* overlay IPs; as an allowed IP, the /32 of it
    Subnet,     \* the subnet of the overlay as an allowed IP
    Endpoint    \* endpoints of nodes

ASSUME RoutesDiffer == Subnet \notin IP /\ "none" \notin IP \cup {Subnet}

NoEndpoint == "unreachable"
NoPeer == [route |-> "none", endpoint |-> NoEndpoint, keepalive |-> FALSE]

\* PeerSpec and AnchorDescriptor; of the endpoints only the first is used.
Node == [key : Key, ip : IP, listener : BOOLEAN,
         endpoint : Endpoint \cup {NoEndpoint}]
Anchor == {n \in Node : n.listener}
Payload == [anchor : Anchor, members : Seq(Node)]

\* What a device has for a peer, apart from the key.
Setting == [route : IP \cup {Subnet}, endpoint : Endpoint \cup {NoEndpoint},
            keepalive : BOOLEAN]
Configs == [Key -> Setting \cup {NoPeer}]

\* The keys of a configuration.
Has(config) == {k \in Key : config[k] # NoPeer}

-----------------------------------------------------------------------------
(* compileRoster() *)

\* allNodes; the anchor comes first.
Position(r) == 0 .. Len(r.members)
At(r, i) == IF i = 0 THEN r.anchor ELSE r.members[i]

\* Otherwise it throws a CompileError.
Distinct(r) ==
    \A i, j \in Position(r) : i # j =>
        At(r, i).ip # At(r, j).ip /\ At(r, i).key # At(r, j).key
Listed(r, key) == \E i \in Position(r) : At(r, i).key = key
Compiles(r, key) == Distinct(r) /\ Listed(r, key)

PositionOf(r, key) == CHOOSE i \in Position(r) : At(r, i).key = key

\* Mutant: that the node itself listens does not count.
TunnelToListeners(r, self, local, i) == At(r, i).listener

\* `local' is the caller's own listener setting, not the one in the roster.
Tunnel(r, self, local, i) == At(r, i).listener \/ local \/ self = 0

\* For a member, the way to all that it has no tunnel with is the anchor.
AllowedIPs(r, self, i) == IF i = 0 /\ self # 0 THEN Subnet ELSE At(r, i).ip

PeerConfig(r, self, i) ==
    [route |-> AllowedIPs(r, self, i), endpoint |-> At(r, i).endpoint,
     keepalive |-> ~ At(r, i).listener]

\* The peers that the node `key' is to have.
Compiled(r, key, local) ==
    LET self == PositionOf(r, key)
        Wanted(i) == At(r, i).key # key /\ Tunnel(r, self, local, i)
    IN  [k \in Key |-> IF Listed(r, k) /\ Wanted(PositionOf(r, k))
                       THEN PeerConfig(r, self, PositionOf(r, k))
                       ELSE NoPeer]

-----------------------------------------------------------------------------
(* WireGuard *)

RoutedTo(config, route) == {k \in Has(config) : config[k].route = route}

\* k is the peer that packets to ip go to.
Via(config, ip, k) ==
    \/ k \in RoutedTo(config, ip)
    \/ RoutedTo(config, ip) = {} /\ k \in RoutedTo(config, Subnet)

\* One of the ends has to know where the other one is.
Dials(config, k) == config[k].endpoint # NoEndpoint

\* A packet from src to dst goes from the node a to the node b; `net' is the
\* configuration of each node.
Hop(net, a, b, src, dst) ==
    /\ Via(net[a], dst, b) /\ Via(net[b], src, a)
    /\ Dials(net[a], b) \/ Dials(net[b], a)

\* Each node reaches each other one, directly or by way of the anchor.
Connects(net, r) ==
    \A i, j \in Position(r) : i # j =>
        LET a == At(r, i)
            b == At(r, j)
            c == r.anchor
        IN  \/ Hop(net, a.key, b.key, a.ip, b.ip)
            \/ /\ Hop(net, a.key, c.key, a.ip, b.ip)
               /\ Hop(net, c.key, b.key, a.ip, b.ip)
=============================================================================
