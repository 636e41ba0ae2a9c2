\* The registry through registrations, removals, heartbeats, pulls of the
\* ring and one restart of the process.
CONSTANTS
    n1 = n1
    n2 = n2
    k1 = k1
    a1 = a1
    a2 = a2
    p1 = p1
    Nil = Nil
    NoNode = NoNode
    Nodes <- MCNodes
    RingKeys <- MCKeys
    VirtualNodes = 2
    HashSpace = 16
    VNodeHash <- MCVNodeHash
    KeyHash <- MCKeyHash
    Addresses <- MCAddresses
    Peers <- MCPeers
    HeartbeatTimeout = 1
    MaxClock = 3
    MaxRingVersion = 4
    MaxRestarts = 1
SPECIFICATION Spec
INVARIANT TypeOK
INVARIANT PeersCanRebuildTheRing
INVARIANT UnchangedMeansCurrent
