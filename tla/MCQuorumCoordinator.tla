------------------------ MODULE MCQuorumCoordinator ------------------------
(***************************************************************************)
(* QuorumCoordinator for TLC: three replicas on a ring of sixteen hash     *)
(* values, a write and a read quorum of two, a client that tries two       *)
(* replicas twice each, and two callers.                                   *)
(***************************************************************************)
EXTENDS QuorumCoordinator, TLC

CONSTANTS n1, n2, n3, k1, c1, c2

MCNodes == {n1, n2, n3}

MCKeys == {k1}

MCCallers == {c1, c2}

MCOneCaller == {c1}

MCVNodeHash ==
    (<<n1, 0>> :> 1) @@ (<<n1, 1>> :> 9) @@
    (<<n2, 0>> :> 4) @@ (<<n2, 1>> :> 12) @@
    (<<n3, 0>> :> 6) @@ (<<n3, 1>> :> 14)

\* The key meets n1, n2, n3 in this order.
MCKeyHash == (k1 :> 0)
=============================================================================
