---------------------------- MODULE MCRebalance ----------------------------
(***************************************************************************)
(* Rebalance for TLC: this node n1 and the nodes n2 and n3, two virtual    *)
(* nodes each on a ring of sixteen hash values.  The owner configures the  *)
(* service for the arrival of n3 or for the departure of n2.  The client   *)
(* knows all three nodes and tries one replica: it sends k1 and k2 to n3   *)
(* and k3 to n2.                                                           *)
(***************************************************************************)
EXTENDS Rebalance

CONSTANTS n1, n2, n3, k1, k2, k3, c1

MCNodes == {n1, n2, n3}

MCKeys == {k1, k2, k3}

MCCallers == {c1}

MCIdOrder == <<n1, n2, n3>>

MCScanOrder == <<k2, k1, k3>>

\* n3 arrives: k1 moves from n2 to n3 and k2 from n1 to n3.
\* n2 leaves: k3 moves from n2 to n1, this node.
MCArrival == [old |-> {n1, n2}, new |-> {n1, n2, n3}]

MCDeparture == [old |-> {n1, n2, n3}, new |-> {n1, n3}]

MCRingPairs == {MCArrival, MCDeparture}

MCVNodeHash ==
    (<<n1, 0>> :> 2) @@ (<<n1, 1>> :> 10) @@
    (<<n2, 0>> :> 6) @@ (<<n2, 1>> :> 14) @@
    (<<n3, 0>> :> 4) @@ (<<n3, 1>> :> 9)

MCKeyHash == (k1 :> 3) @@ (k2 :> 8) @@ (k3 :> 12)
=============================================================================
