------------------------------- MODULE Cluster -------------------------------
(***************************************************************************)
(* Failure detection and failover on one node: the MembershipManager       *)
(* (src/src/cluster/membership_manager.cpp), the FailoverManager and its   *)
(* RPC handler (src/src/cluster/failover_manager.cpp) and the HashRing     *)
(* they share (module HashRing).                                           *)
(*                                                                         *)
(* The heartbeat worker copies the peers under nodes_mutex_, checks each   *)
(* without the lock and takes the lock again to apply the answer.  A       *)
(* change of status invokes the event callback while nodes_mutex_ is held. *)
(* InitiateFailover runs in the thread of its caller, an RPC handler or    *)
(* the callback, and takes failovers_mutex_ and the mutex of the ring      *)
(* one after the other: each of its steps is an action.                    *)
(*                                                                         *)
(* The repository registers no callback; that a node that becomes DEAD is  *)
(* handed to InitiateFailover is how the failover manager's header and     *)
(* the design describe the wiring (Notify).                                *)
(***************************************************************************)
EXTENDS HashRing

CONSTANTS
    Self,               \* config_.self_node_id
    RpcThreads,         \* the threads that serve InitiateFailover calls
    Worker,             \* the heartbeat thread
    ReplicationFactor,  \* config_.replication_factor
    FailureThreshold,   \* config_.failure_threshold
    DeadThreshold,      \* config_.dead_threshold
    AutoFailover,       \* the values config_.auto_failover_enabled may have
    IdMod,              \* the modulus of the counter in a failover id (10000)
    MaxClock,           \* bound: the millisecond clock stops here
    MaxCrashes,         \* bound: how often a peer stops answering
    MaxJoins,           \* bound: calls of AddNode
    MaxCalls            \* bound: InitiateFailover calls that arrive by RPC

ASSUME /\ Self \in Nodes
       /\ Worker \notin RpcThreads
       /\ FailureThreshold \in Nat /\ DeadThreshold \in Nat
       /\ AutoFailover \subseteq BOOLEAN
       /\ Nodes \subseteq RingKeys

VARIABLES
    ring,           \* the HashRing
    members,        \* MembershipManager::nodes_
    running,        \* MembershipManager::running_
    wpc,            \* where the heartbeat thread is
    toCheck,        \* nodes_to_check, what is left of it
    probe,          \* the answer of CheckNodeHealth that is not yet applied
    up,             \* the peers that answer a health check in time
    auto_failover_enabled,
    fpc,            \* where each caller is in InitiateFailover
    call,           \* the locals of InitiateFailover
    failovers,      \* FailoverManager::failovers_
    stats,          \* total_failovers_, successful_failovers_, failed_failovers_
    clock,          \* system_clock, in milliseconds
    bounds          \* how many crashes, joins and calls there have been

mvars == <<members, running, wpc, toCheck, probe>>
fvars == <<fpc, call, failovers, stats>>
vars  == <<ring, mvars, up, auto_failover_enabled, fvars, clock, bounds>>

Callers == RpcThreads \union {Worker}

-----------------------------------------------------------------------------
Status == {"HEALTHY", "UNHEALTHY", "DEAD"}

\* The comparisons with the thresholds cannot tell counts at or above the
\* larger threshold apart: the count is kept up to there.
Saturation == Max({FailureThreshold, DeadThreshold})

\* NodeInfo, without the statistics that nothing reads.
NodeInfo == [status : Status, consecutive_failures : 0 .. Saturation]

NoProbe == [node |-> NoNode, healthy |-> FALSE]

NoId == [ts |-> -1, n |-> 0]

FailoverIds == [ts : 0 .. MaxClock, n : 0 .. IdMod - 1]

FailoverInfo ==
    [failed_node_id : Nodes, new_primary_id : Nodes, in_progress : BOOLEAN,
     status : {"initiated", "promoting", "complete", "failed", "cancelled"}]

NoCall == [failed |-> NoNode, id |-> NoId, new |-> NoNode]

\* The ring of a node that has started: every node of the cluster added.
FullRing == FoldSet(LAMBDA n, r : add_node(r, n), EmptyRing, Nodes)

Init ==
    /\ ring = FullRing
    /\ members = [n \in Nodes \ {Self} |->
                     [status |-> "HEALTHY", consecutive_failures |-> 0]]
    /\ running = FALSE
    /\ wpc = "none"
    /\ toCheck = {}
    /\ probe = NoProbe
    /\ up = Nodes
    /\ auto_failover_enabled \in AutoFailover
    /\ fpc = [t \in Callers |-> "idle"]
    /\ call = [t \in Callers |-> NoCall]
    /\ failovers = <<>>
    /\ stats = [total |-> 0, successful |-> 0, failed |-> 0]
    /\ clock = 0
    /\ bounds = [crashes |-> 0, joins |-> 0, calls |-> 0]

-----------------------------------------------------------------------------
(***************************************************************************)
(* MembershipManager                                                       *)
(***************************************************************************)

\* nodes_mutex_ is free: the worker holds it while it is in the callback.
NodesUnlocked == fpc[Worker] = "idle"

\* AddNode; a known id is left as it is.
AddNode(n) ==
    /\ NodesUnlocked
    /\ n \notin DOMAIN members
    /\ bounds.joins < MaxJoins
    /\ members' = members @@
                    (n :> [status |-> "HEALTHY", consecutive_failures |-> 0])
    /\ bounds' = [bounds EXCEPT !.joins = @ + 1]
    /\ UNCHANGED <<ring, running, wpc, toCheck, probe, up,
                   auto_failover_enabled, fvars, clock>>

\* RemoveNode; an unknown id changes nothing.
RemoveNode(n) ==
    /\ NodesUnlocked
    /\ n \in DOMAIN members
    /\ members' = Restrict(members, DOMAIN members \ {n})
    /\ UNCHANGED <<ring, running, wpc, toCheck, probe, up,
                   auto_failover_enabled, fvars, clock, bounds>>

\* Start creates the thread.  Start and Stop are calls of the one owner of
\* the manager: Start follows a Stop that has joined the thread.
Start ==
    /\ ~running /\ wpc = "none"
    /\ running' = TRUE
    /\ wpc' = "top"
    /\ UNCHANGED <<ring, members, toCheck, probe, up, auto_failover_enabled,
                   fvars, clock, bounds>>

\* Stop clears the flag and joins; the thread leaves at WorkerExit.
Stop ==
    /\ running
    /\ running' = FALSE
    /\ UNCHANGED <<ring, members, wpc, toCheck, probe, up,
                   auto_failover_enabled, fvars, clock, bounds>>

\* WorkerSnapshot as it would be if only the peers in good standing were
\* copied.
WorkerSnapshotOfHealthy ==
    /\ wpc = "top" /\ running
    /\ toCheck' = {n \in DOMAIN members \ {Self} : members[n].status = "HEALTHY"}
    /\ wpc' = "round"
    /\ UNCHANGED <<ring, members, running, probe, up, auto_failover_enabled,
                   fvars, clock, bounds>>

\* The head of the loop with running_ set: copy the peers under the lock.
WorkerSnapshot ==
    /\ wpc = "top" /\ running
    /\ toCheck' = DOMAIN members \ {Self}
    /\ wpc' = "round"
    /\ UNCHANGED <<ring, members, running, probe, up, auto_failover_enabled,
                   fvars, clock, bounds>>

\* The head of the loop with running_ cleared.
WorkerExit ==
    /\ wpc = "top" /\ ~running
    /\ wpc' = "none"
    /\ UNCHANGED <<ring, members, running, toCheck, probe, up,
                   auto_failover_enabled, fvars, clock, bounds>>

\* CheckNodeHealth of the next peer of the copy, without the lock.
WorkerCheck(n) ==
    /\ wpc = "round" /\ running /\ NodesUnlocked
    /\ n \in toCheck
    /\ probe' = [node |-> n, healthy |-> n \in up]
    /\ toCheck' = toCheck \ {n}
    /\ wpc' = "probed"
    /\ UNCHANGED <<ring, members, running, up, auto_failover_enabled,
                   fvars, clock, bounds>>

\* The end of the round, or the break when running_ is cleared; the sleep.
WorkerSleep ==
    /\ wpc = "round" /\ NodesUnlocked
    /\ toCheck = {} \/ ~running
    /\ toCheck' = {}
    /\ wpc' = "top"
    /\ UNCHANGED <<ring, members, running, probe, up, auto_failover_enabled,
                   fvars, clock, bounds>>

\* Checked as it would be if a healthy answer left the count alone.
CheckedWithoutReset(info, healthy) ==
    [info EXCEPT !.consecutive_failures =
        IF healthy THEN @ ELSE Min({@ + 1, Saturation})]

\* The counters of a peer after an answer.
Checked(info, healthy) ==
    [info EXCEPT !.consecutive_failures =
        IF healthy THEN 0 ELSE Min({@ + 1, Saturation})]

\* The status a peer gets, from its counters after the answer.
StatusAfter(info, healthy) ==
    CASE healthy -> "HEALTHY"
      [] ~healthy /\ info.consecutive_failures >= DeadThreshold -> "DEAD"
      [] ~healthy /\ info.consecutive_failures < DeadThreshold
                  /\ info.consecutive_failures >= FailureThreshold
                  /\ info.status \notin {"UNHEALTHY", "DEAD"} -> "UNHEALTHY"
      [] OTHER -> info.status

\* The event callback: a peer that has become DEAD is failed over, in the
\* worker's thread and under nodes_mutex_.
Notify(n, old, new) ==
    IF new = "DEAD" /\ old # "DEAD"
    THEN /\ fpc' = [fpc EXCEPT ![Worker] = "begin"]
         /\ call' = [call EXCEPT ![Worker] = [NoCall EXCEPT !.failed = n]]
    ELSE UNCHANGED <<fpc, call>>

\* UpdateNodeStatus: a status that differs from the one the peer has is
\* stored and announced.
UpdateNodeStatus(n, info, new) ==
    /\ members' = [members EXCEPT ![n] = [info EXCEPT !.status = new]]
    /\ Notify(n, members[n].status, new)

\* The answer is applied under the lock, to the record the id has now; a
\* peer that was removed meanwhile is skipped.
WorkerApply ==
    /\ wpc = "probed"
    /\ IF probe.node \notin DOMAIN members
       THEN UNCHANGED <<members, fpc, call>>
       ELSE LET info == Checked(members[probe.node], probe.healthy)
            IN  UpdateNodeStatus(probe.node, info,
                                 StatusAfter(info, probe.healthy))
    /\ probe' = NoProbe
    /\ wpc' = "round"
    /\ UNCHANGED <<ring, running, toCheck, up, auto_failover_enabled,
                   failovers, stats, clock, bounds>>

-----------------------------------------------------------------------------
(***************************************************************************)
(* FailoverManager                                                         *)
(***************************************************************************)

\* FailoverServiceImpl::InitiateFailover: the call arrives.
HandleInitiateFailover(t, n) ==
    /\ fpc[t] = "idle"
    /\ bounds.calls < MaxCalls
    /\ fpc' = [fpc EXCEPT ![t] = "begin"]
    /\ call' = [call EXCEPT ![t] = [NoCall EXCEPT !.failed = n]]
    /\ bounds' = [bounds EXCEPT !.calls = @ + 1]
    /\ UNCHANGED <<ring, mvars, up, auto_failover_enabled, failovers,
                   stats, clock>>

\* The caller leaves InitiateFailover; what it returns is not kept.
Return(t) ==
    /\ fpc' = [fpc EXCEPT ![t] = "idle"]
    /\ call' = [call EXCEPT ![t] = NoCall]

\* InitiateFailover with auto-failover off.
Disabled(t) ==
    /\ fpc[t] = "begin"
    /\ ~auto_failover_enabled
    /\ Return(t)
    /\ UNCHANGED <<ring, mvars, up, auto_failover_enabled, failovers, stats,
                   clock, bounds>>

\* GenerateFailoverId as it would be without the modulus.
GenerateFailoverIdUnbounded == [ts |-> clock, n |-> stats.total]

\* The id: the clock and the counter of failovers so far.
GenerateFailoverId == [ts |-> clock, n |-> stats.total % IdMod]

Generate(t) ==
    /\ fpc[t] = "begin"
    /\ auto_failover_enabled
    /\ call' = [call EXCEPT ![t].id = GenerateFailoverId]
    /\ fpc' = [fpc EXCEPT ![t] = "select"]
    /\ UNCHANGED <<ring, mvars, up, auto_failover_enabled, failovers,
                   stats, clock, bounds>>

\* The first of the replicas of the key that is the failed node's id, other
\* than the failed node.
SelectNewPrimary(failed) ==
    LET others == SelectSeq(get_replicas(ring, failed, ReplicationFactor),
                            LAMBDA m : m # failed)
    IN  IF others = <<>> THEN NoNode ELSE Head(others)

SelectFails(t) ==
    /\ fpc[t] = "select"
    /\ SelectNewPrimary(call[t].failed) = NoNode
    /\ stats' = [stats EXCEPT !.failed = @ + 1]
    /\ Return(t)
    /\ UNCHANGED <<ring, mvars, up, auto_failover_enabled, failovers, clock,
                   bounds>>

Select(t) ==
    /\ fpc[t] = "select"
    /\ SelectNewPrimary(call[t].failed) # NoNode
    /\ call' = [call EXCEPT ![t].new = SelectNewPrimary(call[t].failed)]
    /\ fpc' = [fpc EXCEPT ![t] = "store"]
    /\ UNCHANGED <<ring, mvars, up, auto_failover_enabled, failovers,
                   stats, clock, bounds>>

\* failovers_[failover_id] = info.
Stored(f, c) ==
    (c.id :> [failed_node_id |-> c.failed, new_primary_id |-> c.new,
              in_progress |-> TRUE, status |-> "initiated"]) @@ f

Store(t) ==
    /\ fpc[t] = "store"
    /\ failovers' = Stored(failovers, call[t])
    /\ fpc' = [fpc EXCEPT ![t] = "count"]
    /\ UNCHANGED <<ring, mvars, up, auto_failover_enabled, call,
                   stats, clock, bounds>>

\* total_failovers_++.
Count(t) ==
    /\ fpc[t] = "count"
    /\ stats' = [stats EXCEPT !.total = @ + 1]
    /\ fpc' = [fpc EXCEPT ![t] = "execute"]
    /\ UNCHANGED <<ring, mvars, up, auto_failover_enabled, call,
                   failovers, clock, bounds>>

\* UpdateTopology: the failed node leaves the ring.
UpdateTopology(r, info) == remove_node(r, info.failed_node_id)

\* ExecuteFailover, under failovers_mutex_: the record found under the id is
\* promoted, whatever its status, and completed.
ExecuteFailover(t) ==
    /\ fpc[t] = "execute"
    /\ ring' = UpdateTopology(ring, failovers[call[t].id])
    /\ failovers' = [failovers EXCEPT ![call[t].id].status = "complete",
                                      ![call[t].id].in_progress = FALSE]
    /\ stats' = [stats EXCEPT !.successful = @ + 1]
    /\ Return(t)
    /\ UNCHANGED <<mvars, up, auto_failover_enabled, clock, bounds>>

IsFailoverInProgress(id) ==
    id \in DOMAIN failovers /\ failovers[id].in_progress

\* CancelFailover of a failover that is in progress; of any other it
\* returns false.
CancelFailover(id) ==
    /\ IsFailoverInProgress(id)
    /\ failovers' = [failovers EXCEPT ![id].in_progress = FALSE,
                                      ![id].status = "cancelled"]
    /\ UNCHANGED <<ring, mvars, up, auto_failover_enabled, fpc, call,
                   stats, clock, bounds>>

-----------------------------------------------------------------------------
(***************************************************************************)
(* The environment                                                         *)
(***************************************************************************)

\* A peer stops answering health checks in time.
NodeCrash(n) ==
    /\ n \in up \ {Self}
    /\ bounds.crashes < MaxCrashes
    /\ up' = up \ {n}
    /\ bounds' = [bounds EXCEPT !.crashes = @ + 1]
    /\ UNCHANGED <<ring, mvars, auto_failover_enabled, fvars, clock>>

\* A peer answers again.
NodeRecover(n) ==
    /\ n \notin up
    /\ up' = up \union {n}
    /\ UNCHANGED <<ring, mvars, auto_failover_enabled, fvars, clock, bounds>>

\* A millisecond passes.
Tick ==
    /\ clock < MaxClock
    /\ clock' = clock + 1
    /\ UNCHANGED <<ring, mvars, up, auto_failover_enabled, fvars, bounds>>

-----------------------------------------------------------------------------
\* The steps of InitiateFailover in the thread of caller t.
FailoverStep(t) ==
    \/ Disabled(t) \/ Generate(t)
    \/ SelectFails(t) \/ Select(t)
    \/ Store(t) \/ Count(t) \/ ExecuteFailover(t)

\* The steps of the heartbeat thread, the callback included.
WorkerNext ==
    \/ WorkerSnapshot \/ WorkerExit \/ WorkerSleep \/ WorkerApply
    \/ \E n \in Nodes : WorkerCheck(n)
    \/ FailoverStep(Worker)

Next ==
    \/ \E n \in Nodes : AddNode(n) \/ RemoveNode(n)
    \/ Start \/ Stop
    \/ WorkerNext
    \/ \E t \in RpcThreads : \/ \E n \in Nodes : HandleInitiateFailover(t, n)
                             \/ FailoverStep(t)
    \/ \E id \in DOMAIN failovers : CancelFailover(id)
    \/ \E n \in Nodes : NodeCrash(n) \/ NodeRecover(n)
    \/ Tick

Spec == Init /\ [][Next]_vars

\* The heartbeat thread is a loop of its own: while it has a step to take
\* it takes one.
FairSpec == Spec /\ WF_vars(WorkerNext)

-----------------------------------------------------------------------------
TypeOK ==
    /\ IsRing(ring)
    /\ DOMAIN members \subseteq Nodes
    /\ \A n \in DOMAIN members : members[n] \in NodeInfo
    /\ running \in BOOLEAN
    /\ wpc \in {"none", "top", "round", "probed"}
    /\ toCheck \subseteq Nodes \ {Self}
    /\ probe \in [node : Nodes \union {NoNode}, healthy : BOOLEAN]
    /\ (wpc = "probed") = (probe # NoProbe)
    /\ up \subseteq Nodes
    /\ auto_failover_enabled \in BOOLEAN
    /\ fpc \in [Callers -> {"idle", "begin", "select", "store", "count", "execute"}]
    /\ call \in [Callers -> [failed : Nodes \union {NoNode},
                             id : FailoverIds \union {NoId},
                             new : Nodes \union {NoNode}]]
    /\ DOMAIN failovers \subseteq FailoverIds
    /\ \A id \in DOMAIN failovers : failovers[id] \in FailoverInfo
    /\ \A t \in Callers :
           fpc[t] \in {"count", "execute"} => call[t].id \in DOMAIN failovers
    /\ stats \in [total : Nat, successful : Nat, failed : Nat]
    /\ clock \in 0 .. MaxClock
    /\ bounds \in [crashes : 0 .. MaxCrashes, joins : 0 .. MaxJoins,
                   calls : 0 .. MaxCalls]

\* Whatever failovers have removed from the ring, a lookup answers with the
\* nodes nearest to the key clockwise, each once, the nearest first
\* (HashRing::get_replicas and get_node against the definition of
\* consistent hashing, for the first ring and for every ring a step makes).
PlacementFollowsTheRing ==
    /\ FollowsTheRing(ring)
    /\ [][ring' # ring => FollowsTheRing(ring')]_vars

\* The status of a peer is the one its count of consecutive failures stands
\* for, also when the answer applied is that of a check made before the peer
\* was removed and added again (HeartbeatWorker applies to the record found
\* under the id after CheckNodeHealth has returned).
StatusMatchesFailures ==
    \A n \in DOMAIN members :
        LET f == members[n].consecutive_failures
        IN  members[n].status =
                CASE f >= DeadThreshold -> "DEAD"
                  [] f < DeadThreshold /\ f >= FailureThreshold -> "UNHEALTHY"
                  [] OTHER -> "HEALTHY"

\* A peer that stays down while the manager runs and knows it is declared
\* DEAD and stays so (the heartbeat loop reaches dead_threshold whatever
\* failovers its callback runs in between).
DownNodeDeclaredDead ==
    \A n \in Nodes \ {Self} :
        <>[](running /\ n \in DOMAIN members /\ n \notin up)
            => <>[](n \in DOMAIN members /\ members[n].status = "DEAD")
=============================================================================
