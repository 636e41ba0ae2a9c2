---------------------------- MODULE Coordinator ----------------------------
(***************************************************************************)
(* The topology registry, src/src/cluster/coordinator_server.cpp: the      *)
(* nodes that have registered, the ring built from them and the version of *)
(* that ring.  Every handler holds state_mutex_ for its whole body, so a   *)
(* handler is one action.  The peers that pull the ring are part of the    *)
(* model as far as the design describes them: a peer keeps the ring it     *)
(* pulled last with its version and takes a new one when GetRing says that *)
(* the version it has is no longer the coordinator's.                      *)
(***************************************************************************)
EXTENDS HashRing

CONSTANTS
    Addresses,           \* the addresses a node may register with
    Peers,               \* the holders of a cached ring
    HeartbeatTimeout,    \* config_.heartbeat_timeout_ms
    MaxClock,            \* bound: the clock
    MaxRingVersion,      \* bound: ring_version_
    MaxRestarts,         \* bound: the restarts of the process
    Nil

ASSUME /\ HeartbeatTimeout \in Nat /\ MaxClock \in Nat
       /\ MaxRingVersion \in Nat \ {0} /\ MaxRestarts \in Nat

VARIABLES
    nodes,          \* nodes_: the NodeState of every id, or Nil
    ring_version,   \* ring_version_
    ring,           \* ring_
    file,           \* what the file at storage_path holds, or Nil
    now,            \* steady_clock
    response,       \* the response of the last call
    cache,          \* the ring every peer holds
    run             \* history: the number of restarts

vars == <<nodes, ring_version, ring, file, now, response, cache, run>>

\* NodeState without the metadata.
NodeState ==
    [address : Addresses, status : {"HEALTHY"}, last_heartbeat : 0 .. MaxClock]

\* The ids in nodes_.
Registered == {n \in Nodes : nodes[n] # Nil}

\* The state a handler builds for a node that registers or is added.
NewState(a) == [address |-> a, status |-> "HEALTHY", last_heartbeat |-> now]

\* The answer of a call: the fields a caller can tell apart.
Reply(rpc, ok, v, changed, view) ==
    [rpc |-> rpc, success |-> ok, ring_version |-> v,
     changed |-> changed, nodes |-> view]

\* A handler without IncrementRingVersion.
KeepRingVersion(v) == v

IncrementRingVersion(v) == v + 1

\* What SaveState writes: the version and, of every node, id, address and
\* status.
Saved(ns, v) ==
    [ring_version |-> v,
     nodes |-> [n \in {m \in Nodes : ns[m] # Nil} |->
                   [address |-> ns[n].address, status |-> ns[n].status]]]

\* SaveState: the file is written anew, or cannot be opened and stays.
SaveState(ns, v) == {file, Saved(ns, v)}

\* LoadState opens the file and reads nothing from it: the constructor
\* leaves no node, an empty ring and version 1 whatever the file holds.
LoadState(f) == [nodes |-> [n \in Nodes |-> Nil], ring_version |-> 1]

Init ==
    /\ nodes = LoadState(Nil).nodes
    /\ ring_version = LoadState(Nil).ring_version
    /\ ring = EmptyRing
    /\ file = Nil
    /\ now = 0
    /\ response = Nil
    /\ cache = [p \in Peers |-> [version |-> 0, nodes |-> <<>>, run |-> 0]]
    /\ run = 0

-----------------------------------------------------------------------------
\* A change of the ring: the new version, saved.
RingChanged(ns, r) ==
    /\ ring_version < MaxRingVersion
    /\ nodes' = ns
    /\ ring' = r
    /\ ring_version' = IncrementRingVersion(ring_version)
    /\ file' \in SaveState(ns, ring_version')

\* RegisterNode of an id that is not known: the node enters the ring.
RegisterNew(n, a) ==
    /\ n \notin Registered
    /\ RingChanged([nodes EXCEPT ![n] = NewState(a)], add_node(ring, n))
    /\ response' = Reply("RegisterNode", TRUE, ring_version', FALSE, <<>>)
    /\ UNCHANGED <<now, cache, run>>

\* RegisterNode of a known id: its state is replaced, the ring and the
\* version stay and nothing is saved.
RegisterAgain(n, a) ==
    /\ n \in Registered
    /\ nodes' = [nodes EXCEPT ![n] = NewState(a)]
    /\ response' = Reply("RegisterNode", TRUE, ring_version, FALSE, <<>>)
    /\ UNCHANGED <<ring_version, ring, file, now, cache, run>>

RegisterNode(n, a) == RegisterNew(n, a) \/ RegisterAgain(n, a)

\* Heartbeat as it would be with nodes_[id] in place of find: an unknown
\* id gets a state of its own.
HeartbeatInserts(n) ==
    /\ nodes' = [nodes EXCEPT ![n] =
                    [address |-> IF @ = Nil THEN Nil ELSE @.address,
                     status |-> "HEALTHY", last_heartbeat |-> now]]
    /\ response' = Reply("Heartbeat", TRUE, ring_version, FALSE, <<>>)
    /\ UNCHANGED <<ring_version, ring, file, now, cache, run>>

\* Heartbeat: NOT_FOUND for an id that is not registered, else the time of
\* the heartbeat is kept and the version answered.
Heartbeat(n) ==
    /\ \/ /\ n \notin Registered
          /\ response' = Reply("Heartbeat", FALSE, 0, FALSE, <<>>)
          /\ UNCHANGED nodes
       \/ /\ n \in Registered
          /\ nodes' = [nodes EXCEPT ![n].last_heartbeat = now,
                                    ![n].status = "HEALTHY"]
          /\ response' = Reply("Heartbeat", TRUE, ring_version, FALSE, <<>>)
    /\ UNCHANGED <<ring_version, ring, file, now, cache, run>>

\* The nodes GetRing lists: those whose status is HEALTHY, with their
\* addresses.
HealthyNodes ==
    [n \in {m \in Registered : nodes[m].status = "HEALTHY"} |-> nodes[n].address]

\* What a peer does with the answer of GetRing: it takes the ring when it
\* is told that the ring has changed.
Refreshed(held, answer) ==
    IF answer.changed
    THEN [version |-> answer.ring_version, nodes |-> answer.nodes, run |-> run]
    ELSE held

\* GetRing, called by a peer with the version it holds.
GetRing(p) ==
    /\ response' = Reply("GetRing", TRUE, ring_version,
                         cache[p].version # ring_version, HealthyNodes)
    /\ cache' = [cache EXCEPT ![p] = Refreshed(@, response')]
    /\ UNCHANGED <<nodes, ring_version, ring, file, now, run>>

GetNodes ==
    /\ response' = Reply("GetNodes", TRUE, ring_version, FALSE,
                         [n \in Registered |-> nodes[n]])
    /\ UNCHANGED <<nodes, ring_version, ring, file, now, cache, run>>

\* AddNode of the operator: refused for a known id.
AddNode(n, a) ==
    \/ /\ n \in Registered
       /\ response' = Reply("AddNode", FALSE, 0, FALSE, <<>>)
       /\ UNCHANGED <<nodes, ring_version, ring, file, now, cache, run>>
    \/ /\ n \notin Registered
       /\ RingChanged([nodes EXCEPT ![n] = NewState(a)], add_node(ring, n))
       /\ response' = Reply("AddNode", TRUE, ring_version', FALSE, <<>>)
       /\ UNCHANGED <<now, cache, run>>

\* RemoveNode that leaves the node in the ring.
RemoveNodeKeepsRing(n) ==
    /\ n \in Registered
    /\ RingChanged([nodes EXCEPT ![n] = Nil], ring)
    /\ response' = Reply("RemoveNode", TRUE, ring_version', FALSE, <<>>)
    /\ UNCHANGED <<now, cache, run>>

\* RemoveNode of the operator: refused for an unknown id.
RemoveNode(n) ==
    \/ /\ n \notin Registered
       /\ response' = Reply("RemoveNode", FALSE, 0, FALSE, <<>>)
       /\ UNCHANGED <<nodes, ring_version, ring, file, now, cache, run>>
    \/ /\ n \in Registered
       /\ RingChanged([nodes EXCEPT ![n] = Nil], remove_node(ring, n))
       /\ response' = Reply("RemoveNode", TRUE, ring_version', FALSE, <<>>)
       /\ UNCHANGED <<now, cache, run>>

\* The status GetClusterStatus reports for a node: that of its state unless
\* the last heartbeat is older than the timeout, or than twice the timeout.
CurrentStatus(n) ==
    LET elapsed == now - nodes[n].last_heartbeat
    IN  IF elapsed > HeartbeatTimeout * 2 THEN "DEAD"
        ELSE IF elapsed > HeartbeatTimeout THEN "UNHEALTHY"
        ELSE nodes[n].status

GetClusterStatus ==
    /\ response' = Reply("GetClusterStatus", TRUE, ring_version, FALSE,
                         [n \in Registered |-> CurrentStatus(n)])
    /\ UNCHANGED <<nodes, ring_version, ring, file, now, cache, run>>

\* GetStats counts the nodes heard of within the timeout.
GetStats ==
    /\ response' =
          Reply("GetStats", TRUE, ring_version, FALSE,
                [n \in {m \in Registered :
                           now - nodes[m].last_heartbeat <= HeartbeatTimeout} |->
                    "HEALTHY"])
    /\ UNCHANGED <<nodes, ring_version, ring, file, now, cache, run>>

Tick ==
    /\ now < MaxClock
    /\ now' = now + 1
    /\ UNCHANGED <<nodes, ring_version, ring, file, response, cache, run>>

\* The process ends and is started again: the constructor with LoadState.
\* The file and the peers stay as they are.
Restart ==
    /\ run < MaxRestarts
    /\ run' = run + 1
    /\ nodes' = LoadState(file).nodes
    /\ ring_version' = LoadState(file).ring_version
    /\ ring' = EmptyRing
    /\ response' = Nil
    /\ UNCHANGED <<file, now, cache>>

Next ==
    \/ \E n \in Nodes, a \in Addresses : RegisterNode(n, a) \/ AddNode(n, a)
    \/ \E n \in Nodes : Heartbeat(n) \/ RemoveNode(n)
    \/ \E p \in Peers : GetRing(p)
    \/ GetNodes
    \/ GetClusterStatus
    \/ GetStats
    \/ Tick
    \/ Restart

Spec == Init /\ [][Next]_vars

-----------------------------------------------------------------------------
\* The functions from some of the nodes to T.
Partial(T) == UNION {[S -> T] : S \in SUBSET Nodes}

\* What the nodes of a response are.
Views(rpc) ==
    CASE rpc = "GetRing" -> Partial(Addresses)
      [] rpc = "GetNodes" -> Partial(NodeState)
      [] rpc \in {"GetClusterStatus", "GetStats"} ->
            Partial({"HEALTHY", "UNHEALTHY", "DEAD"})
      [] OTHER -> {<<>>}

TypeOK ==
    /\ nodes \in [Nodes -> NodeState \union {Nil}]
    /\ \A n \in Registered : nodes[n].last_heartbeat <= now
    /\ ring_version \in 1 .. MaxRingVersion
    /\ IsRing(ring)
    /\ file = Nil \/
       file \in [ring_version : 1 .. MaxRingVersion,
                 nodes : Partial([address : Addresses, status : {"HEALTHY"}])]
    /\ now \in 0 .. MaxClock
    /\ response = Nil \/
       /\ response.rpc \in {"RegisterNode", "Heartbeat", "GetRing", "GetNodes",
                            "AddNode", "RemoveNode", "GetClusterStatus",
                            "GetStats"}
       /\ response.success \in BOOLEAN /\ response.changed \in BOOLEAN
       /\ response.ring_version \in 0 .. MaxRingVersion
       /\ response.nodes \in Views(response.rpc)
    /\ cache \in [Peers -> [version : 0 .. MaxRingVersion,
                            nodes : Partial(Addresses), run : 0 .. MaxRestarts]]
    /\ run \in 0 .. MaxRestarts

\* The ring a peer builds from the ids GetRing lists.
RingOf(ids) == FoldSet(LAMBDA n, r : add_node(r, n), EmptyRing, ids)

\* A peer that builds its ring from the nodes of GetRing places every key
\* as the coordinator does: after any sequence of RegisterNode, AddNode and
\* RemoveNode, and after a restart, ring_ is the ring of the nodes in
\* nodes_, virtual node by virtual node.
PeersCanRebuildTheRing == ring = RingOf(DOMAIN HealthyNodes)

\* The version names the membership for as long as the process runs: a peer
\* that pulled its ring from this run of the coordinator and holds the
\* coordinator's version (GetRing would answer "unchanged", a heartbeat would
\* carry the version it has) holds the ids that are registered now.  Every
\* handler that changes the membership must call IncrementRingVersion.
UnchangedMeansCurrent ==
    \A p \in Peers :
        cache[p].run = run /\ cache[p].version = ring_version
            => DOMAIN cache[p].nodes = Registered
=============================================================================
