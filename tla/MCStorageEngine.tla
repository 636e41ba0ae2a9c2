-------------------------- MODULE MCStorageEngine --------------------------
(***************************************************************************)
(* StorageEngine for TLC: three keys over two shards (two keys share a     *)
(* shard, so its LRU list has an order; the third fills the other shard,   *)
(* so the shared total is changed under another lock), two value sizes    *)
(* and a cap that two small entries reach.                                 *)
(***************************************************************************)
EXTENDS StorageEngine, TLC

CONSTANTS k1, k2, k3, k4, small, big, t1, t2

MCKeys == {k1, k2, k3}

MCValues == {small, big}

MCThreads == {t1, t2}

MCShardOf == (k1 :> 0) @@ (k2 :> 0) @@ (k3 :> 1)

MCSizeOf == (small :> 1) @@ (big :> 2)

\* For the order of eviction: three keys of equal size compete for one shard
\* (one more than fits), a fourth changes the total from the other shard.
MCLruKeys == {k1, k2, k3, k4}

MCLruValues == {small}

MCLruShardOf == (k1 :> 0) @@ (k2 :> 0) @@ (k3 :> 0) @@ (k4 :> 1)

=============================================================================
