---------------------------- MODULE MCReconciler ----------------------------
(***************************************************************************)
(* Reconciler for TLC: an anchor, this node and a second member, and three *)
(* rosters.  The second has a member more that listens; in the third it    *)
(* does not, so that what this node is to have differs from the first      *)
(* roster in the anchor's endpoint only.                                   *)
(***************************************************************************)
EXTENDS Reconciler, TLC

CONSTANTS anc, m1, m2, ipA, ip1, ip2, e1, e2, e3, c1, c2

N(key, ip, listener, endpoint) ==
    [key |-> key, ip |-> ip, listener |-> listener, endpoint |-> endpoint]
R(anchor, members) == [anchor |-> anchor, members |-> members]

MCRosters ==
    LET first == N(m1, ip1, FALSE, NoEndpoint)
    IN  <<R(N(anc, ipA, TRUE, e1), <<first>>),
          R(N(anc, ipA, TRUE, e1), <<first, N(m2, ip2, TRUE, e3)>>),
          R(N(anc, ipA, TRUE, e2), <<first, N(m2, ip2, FALSE, NoEndpoint)>>)>>

MCStrange == {[endpoint |-> e2, route |-> ipA, keepalive |-> FALSE]}

\* The device of the tests shows a key as the roster spells it; parseWgDump()
\* and parseUAPIGet() hand on base64 with padding and hex, where rosters have
\* base64url without.
Spellings == {[k \in Key |-> k], [k \in Key |-> <<k>>]}
=============================================================================
