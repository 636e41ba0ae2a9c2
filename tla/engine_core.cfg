\* LRU structure, order of eviction and the global totals with every call of
\* the table, clear included, interleaved by two threads: three keys of equal
\* size compete for a shard that holds two, a fourth changes the totals from
\* the other shard.  Every entry carries a ttl of 0 and the clock ticks once,
\* so that what was written before the tick is expired after it
\* (service_contract runs entries with and without a ttl, of two sizes).
\* Either thread may walk the table with for_each while the other writes.
\* Entries carry one version here: a swap of compare_and_swap needs a second
\* one and runs in service_contract, its failure runs here.
CONSTANTS
    k1 = k1
    k2 = k2
    k3 = k3
    k4 = k4
    small = small
    big = big
    t1 = t1
    t2 = t2
    Nil = Nil
    Keys <- MCLruKeys
    Values <- MCLruValues
    Threads <- MCThreads
    NumShards = 2
    ShardOf <- MCLruShardOf
    SizeOf <- MCSizeOf
    MaxMemory = 2
    TTLs = {0}
    MaxTime = 1
    MaxVersion = 1
    SizeMod = 16
SPECIFICATION FairSpec
INVARIANT TypeOK
INVARIANT LruMatchesData
INVARIANT ForEachSeesWhatStays
PROPERTY EvictsLeastRecentlyUsed
PROPERTY TotalsFollowTheMaps
PROPERTY EvictionLoopEnds
