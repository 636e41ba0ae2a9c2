\* Quorum operations and client calls of two callers on three replicas.
CONSTANTS
    n1 = n1
    n2 = n2
    n3 = n3
    k1 = k1
    c1 = c1
    c2 = c2
    Nil = Nil
    NoOp = NoOp
    NoNode = NoNode
    Nodes <- MCNodes
    RingKeys <- MCKeys
    VirtualNodes = 2
    HashSpace = 16
    VNodeHash <- MCVNodeHash
    KeyHash <- MCKeyHash
    Callers <- MCCallers
    Key = k1
    WriteQuorum = 2
    ReadQuorum = 2
    TotalReplicas = 3
    MaxReplicas = 2
    RetryAttempts = 2
    MaxOps = 2
    MaxLate = 1
SPECIFICATION FairSpec
CHECK_DEADLOCK FALSE
INVARIANT TypeOK
INVARIANT ReadSeesQuorumCas
INVARIANT CasWinsOnce
PROPERTY MismatchIsOfAnotherUnlessRetried
PROPERTY OperationsReturn
