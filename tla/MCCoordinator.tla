--------------------------- MODULE MCCoordinator ---------------------------
(***************************************************************************)
(* Coordinator for TLC: two nodes with two virtual nodes each on a ring of *)
(* sixteen hash values, two addresses, one peer that pulls the ring.       *)
(***************************************************************************)
EXTENDS Coordinator, TLC

CONSTANTS n1, n2, k1, a1, a2, p1

MCNodes == {n1, n2}

MCKeys == {k1}

MCAddresses == {a1, a2}

MCPeers == {p1}

MCVNodeHash ==
    (<<n1, 0>> :> 1) @@ (<<n1, 1>> :> 9) @@
    (<<n2, 0>> :> 4) @@ (<<n2, 1>> :> 12)

MCKeyHash == (k1 :> 0)
=============================================================================
