---------------------------- MODULE MCEndpoints ----------------------------
(***************************************************************************)
(* Endpoints for TLC: two endpoints, lists as a roster (without an end)    *)
(* and the DNS (with a TTL) bring them, two ticks that may overlap.        *)
(***************************************************************************)
EXTENDS Endpoints

CONSTANTS h1, h2, t1, t2

\* The workers share these values, and TLC sorts the fields of a record, by where
\* it first reads their names, and the members of a set in place at their first
\* use.  Both are written in that order (no parameter has a field's name, the
\* shorter list is the first), so that no worker finds one half sorted.
Brought(h, t, ttl) == [host |-> h, type |-> t, source |-> "roster", left |-> ttl]
RosterAndDns ==
    {<<Brought(h1, "wan", 1)>>,
     <<Brought(h1, "lan", Forever), Brought(h2, "wan", 1)>>}
=============================================================================
