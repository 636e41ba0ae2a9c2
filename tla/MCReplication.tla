--------------------------- MODULE MCReplication ---------------------------
(***************************************************************************)
(* Replication for TLC: a primary n1 with two followers on a ring of       *)
(* sixteen hash values, two virtual nodes each, and two keys.              *)
(***************************************************************************)
EXTENDS Replication, TLC

CONSTANTS n1, n2, n3, k1, k2

MCNodes == {n1, n2, n3}

MCKeys == {k1, k2}

MCOneKey == {k1}

MCOneKeyHash == (k1 :> 0)

MCVNodeHash ==
    (<<n1, 0>> :> 1) @@ (<<n1, 1>> :> 9) @@
    (<<n2, 0>> :> 4) @@ (<<n2, 1>> :> 12) @@
    (<<n3, 0>> :> 6) @@ (<<n3, 1>> :> 14)

\* k1 meets n1, n2, n3 in this order, k2 meets n2, n3, n1.
MCKeyHash == (k1 :> 0) @@ (k2 :> 10)
=============================================================================
