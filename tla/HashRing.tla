------------------------------ MODULE HashRing ------------------------------
(***************************************************************************)
(* The consistent-hash ring of src/src/cluster/hash_ring.cpp as a value    *)
(* with its operations.  Every method of HashRing holds mutex_ for its     *)
(* whole body, so a method is one operator from the ring before the call   *)
(* to the ring (or the answer) after it.  A module that owns a ring keeps  *)
(* the value in a variable of its own; the client, the coordinator and     *)
(* the failover manager each have one.                                     *)
(*                                                                         *)
(* A ring is a record: nodes is the set of ids in nodes_, ring is ring_,   *)
(* a function from the hash values that hold a virtual node to the id of   *)
(* the node placed there.  The hash function is a parameter: VNodeHash     *)
(* gives the hash of the virtual-node key "id:i", KeyHash the hash of a    *)
(* lookup key.                                                             *)
(***************************************************************************)
EXTENDS Integers, Sequences, FiniteSets, SequencesExt

CONSTANTS
    Nodes,              \* the node ids
    RingKeys,           \* the keys that are looked up
    VirtualNodes,       \* virtual_nodes_per_node_
    HashSpace,          \* the number of hash values (2^64 in the code)
    VNodeHash,          \* [Nodes \X (0..VirtualNodes-1) -> 0..HashSpace-1]
    KeyHash,            \* [RingKeys -> 0..HashSpace-1]
    NoNode              \* std::nullopt, and the empty id

ASSUME /\ VirtualNodes \in Nat \ {0}
       /\ HashSpace \in Nat \ {0}
       /\ VNodeHash \in [Nodes \X (0 .. VirtualNodes - 1) -> 0 .. HashSpace - 1]
       /\ KeyHash \in [RingKeys -> 0 .. HashSpace - 1]
       /\ NoNode \notin Nodes

-----------------------------------------------------------------------------
\* What a ring is: ring_ maps some hash values to ids.
IsRing(r) ==
    /\ DOMAIN r = {"nodes", "ring"}
    /\ r.nodes \subseteq Nodes
    /\ DOMAIN r.ring \subseteq 0 .. HashSpace - 1
    /\ \A h \in DOMAIN r.ring : r.ring[h] \in Nodes

\* HashRing::HashRing.
EmptyRing == [nodes |-> {}, ring |-> <<>>]

\* The hash values of the virtual nodes of n (the loop over "id:i").
VNodesOf(n) == {VNodeHash[n, i] : i \in 0 .. VirtualNodes - 1}

\* ring_[hash_value] = node.id for every virtual node: an entry that is
\* already there, of whatever node, is overwritten.
Placed(r, n) ==
    [h \in DOMAIN r.ring \union VNodesOf(n) |->
        IF h \in VNodesOf(n) THEN n ELSE r.ring[h]]

\* ring_.erase(hash_value) for every virtual node of n, whoever holds it.
Erased(r, n) == Restrict(r.ring, DOMAIN r.ring \ VNodesOf(n))

\* add_node returns false and changes nothing when the id is known.
add_node(r, n) ==
    IF n \in r.nodes THEN r
    ELSE [nodes |-> r.nodes \union {n}, ring |-> Placed(r, n)]

\* remove_node returns false and changes nothing when the id is unknown.
remove_node(r, n) ==
    IF n \notin r.nodes THEN r
    ELSE [nodes |-> r.nodes \ {n}, ring |-> Erased(r, n)]

\* An iterator of ring_ is the hash value it stands at; End is ring_.end().
End == HashSpace

\* lower_bound: the first virtual node at or after h.
find_next_node(r, h) ==
    IF \E p \in DOMAIN r.ring : p >= h
    THEN Min({p \in DOMAIN r.ring : p >= h})
    ELSE End

\* if (iter == ring_.end()) iter = ring_.begin().
Wrap(r, it) == IF it = End THEN Min(DOMAIN r.ring) ELSE it

\* The id at an iterator, looked up in nodes_.
NodeAt(r, it) == IF r.ring[it] \in r.nodes THEN r.ring[it] ELSE NoNode

get_node(r, key) ==
    IF DOMAIN r.ring = {} THEN NoNode
    ELSE NodeAt(r, Wrap(r, find_next_node(r, KeyHash[key])))

\* get_replicas as it would be without seen_nodes.
get_replicas_unseen(r, key, n) ==
    LET start == Wrap(r, find_next_node(r, KeyHash[key]))
        loop[it \in DOMAIN r.ring, m \in Nat] ==
            LET id   == NodeAt(r, it)
                next == Wrap(r, find_next_node(r, it + 1))
            IN  IF m = 0 THEN <<>>
                ELSE IF id # NoNode
                THEN <<id>> \o (IF next = start THEN <<>> ELSE loop[next, m - 1])
                ELSE IF next = start THEN <<>> ELSE loop[next, m]
    IN  IF DOMAIN r.ring = {} \/ n = 0 THEN <<>>
        ELSE loop[start, Min({n, Cardinality(r.nodes)})]

\* The loop of get_replicas, as a function of its locals (the iterator, how
\* many replicas are still to find, seen_nodes): take the id at the iterator
\* unless it was seen or is unknown, advance with the wrap-around, and stop
\* when enough are found or the iterator is back where it started.
get_replicas(r, key, n) ==
    LET start == Wrap(r, find_next_node(r, KeyHash[key]))
        loop[it \in DOMAIN r.ring, m \in Nat, seen \in SUBSET Nodes] ==
            LET id   == NodeAt(r, it)
                next == Wrap(r, find_next_node(r, it + 1))
            IN  IF m = 0 THEN <<>>
                ELSE IF id # NoNode /\ id \notin seen
                THEN <<id>> \o (IF next = start THEN <<>>
                                ELSE loop[next, m - 1, seen \union {id}])
                ELSE IF next = start THEN <<>> ELSE loop[next, m, seen]
    IN  IF DOMAIN r.ring = {} \/ n = 0 THEN <<>>
        ELSE loop[start, Min({n, Cardinality(r.nodes)}), {}]

get_all_nodes(r) == r.nodes

node_count(r) == Cardinality(r.nodes)

virtual_node_count(r) == Cardinality(DOMAIN r.ring)

-----------------------------------------------------------------------------
(***************************************************************************)
(* The reference: what consistent hashing means by the replicas of a key.  *)
(***************************************************************************)

\* How far clockwise from h the hash value p lies.
Clockwise(h, p) == (p - h) % HashSpace

\* The nodes that own a virtual node and are known.
Owners(r) == {r.ring[p] : p \in DOMAIN r.ring} \intersect r.nodes

\* How far clockwise from h the nearest virtual node of m lies.
Nearest(r, h, m) ==
    Min({Clockwise(h, p) : p \in {q \in DOMAIN r.ring : r.ring[q] = m}})

\* The n owners nearest to the key clockwise, nearest first: the i-th is
\* the owner with i - 1 owners nearer.
ReplicasByDistance(r, key, n) ==
    LET far(m) == Nearest(r, KeyHash[key], m)
    IN  [i \in 1 .. Min({n, Cardinality(r.nodes), Cardinality(Owners(r))}) |->
            CHOOSE m \in Owners(r) :
                Cardinality({o \in Owners(r) : far(o) < far(m)}) = i - 1]

\* get_replicas and get_node answer as the reference does.
FollowsTheRing(r) ==
    \A key \in RingKeys :
        /\ \A n \in 0 .. Cardinality(Nodes) + 1 :
               get_replicas(r, key, n) = ReplicasByDistance(r, key, n)
        /\ get_node(r, key) =
               IF Owners(r) = {} THEN NoNode
               ELSE Head(ReplicasByDistance(r, key, 1))
=============================================================================
