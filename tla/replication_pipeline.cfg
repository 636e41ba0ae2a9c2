\* The pipeline from the queue of the primary to the engines of two followers,
\* with calls that are lost and calls that end at their deadline.
CONSTANTS
    n1 = n1
    n2 = n2
    n3 = n3
    k1 = k1
    k2 = k2
    Nil = Nil
    NoNode = NoNode
    Nodes <- MCNodes
    RingKeys <- MCOneKey
    VirtualNodes = 2
    HashSpace = 16
    VNodeHash <- MCVNodeHash
    KeyHash <- MCOneKeyHash
    Self = n1
    ReplicationFactor = 3
    BatchSize = 2
    MaxQueueSize = 2
    MaxVersion = 3
    MaxLate = 1
SPECIFICATION FairSpec
INVARIANT TypeOK
INVARIANT ReplicasCatchUp
PROPERTY QueueDrains
PROPERTY OnlyLateRequestsRegress
