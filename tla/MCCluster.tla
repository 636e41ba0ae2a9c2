------------------------------ MODULE MCCluster ------------------------------
(***************************************************************************)
(* Cluster for TLC: a pair of nodes with three virtual nodes each on a     *)
(* ring of sixteen hash values, and one RPC thread beside the heartbeat    *)
(* thread.                                                                 *)
(***************************************************************************)
EXTENDS Cluster

CONSTANTS n1, n2, k1, k2, t1

MCRpcThreads == {t1}

\* The pair.  No two virtual nodes share a hash value; two of n2 lie next
\* to each other, so that a walk meets n2 twice before it meets n1.
MCPair == {n1, n2}

MCPairKeys == MCPair \union {k1, k2}

MCPairVNodeHash ==
    (<<n1, 0>> :> 1) @@ (<<n1, 1>> :> 9) @@ (<<n1, 2>> :> 12) @@
    (<<n2, 0>> :> 4) @@ (<<n2, 1>> :> 6) @@ (<<n2, 2>> :> 14)

\* Keys between two virtual nodes, after the last one, before the first one
\* and on one.
MCPairKeyHash == (n1 :> 5) @@ (n2 :> 15) @@ (k1 :> 0) @@ (k2 :> 9)

MCAutoFailover == BOOLEAN
=============================================================================
