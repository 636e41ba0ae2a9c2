\* Jobs of a rebalance and of a drain beside the writes of clients: what
\* they move survives, the statistics follow them, and a drain returns.
CONSTANTS
    n1 = n1
    n2 = n2
    n3 = n3
    k1 = k1
    k2 = k2
    k3 = k3
    c1 = c1
    Nil = Nil
    NoNode = NoNode
    Nodes <- MCNodes
    RingKeys <- MCKeys
    VirtualNodes = 2
    HashSpace = 16
    VNodeHash <- MCVNodeHash
    KeyHash <- MCKeyHash
    Self = n1
    RingPairs <- MCRingPairs
    ClientNodes <- MCNodes
    MaxReplicas = 1
    IdOrder <- MCIdOrder
    ScanOrder <- MCScanOrder
    Callers <- MCCallers
    BatchSize = 1
    DrainTimeout = 0
    Retention = 0
    MaxClock = 1
    MaxJobs = 2
    MaxPlan = 2
    MaxWrites = 2
SPECIFICATION FairSpec
INVARIANT TypeOK
INVARIANT MovedKeysSurvive
INVARIANT StatsMatchJobs
PROPERTY DrainAnswers
\* A node whose jobs have ended and that is sent no request takes no step.
CHECK_DEADLOCK FALSE
