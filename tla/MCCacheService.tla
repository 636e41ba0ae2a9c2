--------------------------- MODULE MCCacheService ---------------------------
(***************************************************************************)
(* CacheService for TLC: two keys that share a shard; two values, so that  *)
(* a reply shows which write it read, of sizes 1 and 2 under a cap of 2,   *)
(* so that two small entries fit, a Set of the large value evicts, and an  *)
(* update changes the size of an entry; entries with and without a ttl;    *)
(* two server threads.                                                     *)
(***************************************************************************)
EXTENDS CacheService, TLC

CONSTANTS k1, k2, a, b, t1, t2

MCKeys == {k1, k2}

MCValues == {a, b}

MCThreads == {t1, t2}

MCShardOf == (k1 :> 0) @@ (k2 :> 0)

MCSizeOf == (a :> 1) @@ (b :> 2)

=============================================================================
