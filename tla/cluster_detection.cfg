CONSTANTS
    n1 = n1
    n2 = n2
    k1 = k1
    k2 = k2
    t1 = t1
    Worker = Worker
    NoNode = NoNode
    Nodes <- MCPair
    RingKeys <- MCPairKeys
    RpcThreads <- MCRpcThreads
    VirtualNodes = 3
    HashSpace = 16
    VNodeHash <- MCPairVNodeHash
    KeyHash <- MCPairKeyHash
    Self = n1
    ReplicationFactor = 2
    FailureThreshold = 1
    DeadThreshold = 2
    AutoFailover <- MCAutoFailover
    IdMod = 2
    MaxClock = 1
    MaxCrashes = 2
    MaxJoins = 1
    MaxCalls = 1
SPECIFICATION FairSpec
INVARIANT TypeOK
PROPERTY PlacementFollowsTheRing
INVARIANT StatusMatchesFailures
PROPERTY DownNodeDeclaredDead
