\* The handlers against the contract of the service, and the counters of the
\* table against its maps under the calls the handlers make.
CONSTANTS
    k1 = k1
    k2 = k2
    a = a
    b = b
    t1 = t1
    t2 = t2
    Nil = Nil
    Keys <- MCKeys
    Values <- MCValues
    Threads <- MCThreads
    NumShards = 1
    ShardOf <- MCShardOf
    SizeOf <- MCSizeOf
    MaxMemory = 2
    TTLs = {Nil, 0}
    MaxTime = 1
    MaxVersion = 3
    SizeMod = 16
SPECIFICATION ServiceSpec
INVARIANT AccountingExact
 
