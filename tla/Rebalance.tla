------------------------------ MODULE Rebalance ------------------------------
(***************************************************************************)
(* Key migration on one node: the admin service of                         *)
(* src/src/cluster/admin_service.cpp and the orchestrator of               *)
(* src/src/cluster/rebalance_orchestrator.cpp, with the engines of the     *)
(* cluster as maps from keys to values.                                    *)
(*                                                                         *)
(* A job is a detached thread.  It reads the keys of the local engine      *)
(* whose owner in the new ring is its target, sends them batch by batch    *)
(* with Set of the sharding client, and deletes a batch locally when every *)
(* Set of it was acknowledged.  Clients write to the engines meanwhile.    *)
(***************************************************************************)
EXTENDS HashRing

CONSTANTS
    Self,           \* node_id_: the node this service runs on
    RingPairs,      \* the pairs of node sets the owner calls set_hash_rings with
    ClientNodes,    \* the nodes the sharding client was built with
    MaxReplicas,    \* config_.max_replicas of the client
    IdOrder,        \* the node ids as std::string orders them, a sequence
    ScanOrder,      \* the keys in the order for_each visits them, a sequence
    Callers,        \* the threads that serve admin calls
    BatchSize,      \* batch_size_
    DrainTimeout,   \* timeout_seconds of a drain request
    Retention,      \* the age above which a completed job is discarded
    MaxClock,       \* bound: the clock
    MaxJobs,        \* bound: job_counter_
    MaxPlan,        \* bound: the paths of one plan
    MaxWrites,      \* bound: the writes of clients
    Nil

ASSUME /\ Self \in Nodes /\ ClientNodes \subseteq Nodes
       /\ \A p \in RingPairs : p.old \subseteq Nodes /\ p.new \subseteq Nodes
       /\ BatchSize \in Nat \ {0} /\ MaxReplicas \in Nat
       /\ {DrainTimeout, Retention, MaxClock, MaxJobs, MaxPlan, MaxWrites}
             \subseteq Nat

VARIABLES
    store,          \* the engine of every node: the value of a key, or Nil
    rings,          \* old_ring_ and new_ring_ of the service, or Nil: of
                    \* each ring the owner it gives every key
    orchestrator,   \* orchestrator_: the rings it was created with, or Nil
    job,            \* the RebalanceJob objects, by the counter of their id
    jobs,           \* jobs_: the ids that are listed
    job_counter,    \* job_counter_
    worker,         \* the thread of every job inside execute_job
    stats,          \* stats_
    state,          \* state_
    mutex,          \* the caller that holds orchestrator_mutex_, or Nil
    call,           \* the admin call every caller is in
    now,            \* system_clock
    response,       \* the response of the last call that returned
    nwrites,        \* the client writes so far
    hist            \* history: what the clients wrote to this node

vars == <<store, rings, orchestrator, job, jobs, job_counter, worker, stats,
          state, mutex, call, now, response, nwrites, hist>>

\* What a client can store: the number of its write.
Values == 1 .. MaxWrites

\* The ring of a set of nodes, and what the orchestrator asks of a ring:
\* get_node for every key.
Ring(S) == FoldSet(LAMBDA n, r : add_node(r, n), EmptyRing, S)

Placement(S) == [k \in RingKeys |-> get_node(Ring(S), k)]

\* The nodes the client tries for a key, built once from its own ring.
ClientReplicas ==
    [k \in RingKeys |-> Range(get_replicas(Ring(ClientNodes), k, MaxReplicas))]

\* RebalanceJob as its constructor leaves it.
RebalanceJob(source, target) ==
    [source_node_id |-> source, target_node_id |-> target, started_at |-> now,
     keys_migrated |-> 0, keys_total |-> 0,
     completed |-> FALSE, failed |-> FALSE, error_message |-> Nil]

Statistics ==
    [total_jobs |-> 0, successful_jobs |-> 0, failed_jobs |-> 0,
     active_jobs |-> 0, total_keys_migrated |-> 0]

\* A caller that is in no call, and a thread that has not read the engine.
Idle == [rpc |-> Nil, pc |-> "idle", job |-> Nil, njobs |-> 0, start |-> 0]

Spawned == [pc |-> "scan", snap |-> <<>>, i |-> 0, b |-> 0]

\* A thread that has left its loop: the entries are no longer used.
Left == [Spawned EXCEPT !.pc = "finish"]

\* The answer of a call: the fields a caller can tell apart.
Reply(rpc, ok, id, n) ==
    [rpc |-> rpc, success |-> ok, job_id |-> id, keys_migrated |-> n]

Init ==
    /\ store = [n \in Nodes |-> [k \in RingKeys |-> Nil]]
    /\ rings = Nil
    /\ orchestrator = Nil
    /\ job = <<>>
    /\ jobs = {}
    /\ job_counter = 0
    /\ worker = <<>>
    /\ stats = Statistics
    /\ state = "HEALTHY"
    /\ mutex = Nil
    /\ call = [c \in Callers |-> Idle]
    /\ now = 0
    /\ response = Nil
    /\ nwrites = 0
    /\ hist = [local |-> [k \in RingKeys |-> Nil], raced |-> {}]

-----------------------------------------------------------------------------
(***************************************************************************)
(* The plan: which keys move, and along which paths.                       *)
(***************************************************************************)

\* for_each: the keys the local engine holds.
LocalKeys == {k \in RingKeys : store[Self][k] # Nil}

\* The owner of a key before and after, when both rings have one and they
\* differ.
Path(o, k) == <<o.old[k], o.new[k]>>

Moves(o, k) ==
    LET p == Path(o, k) IN NoNode \notin {p[1], p[2]} /\ p[1] # p[2]

calculate_affected_keys(o) == {k \in LocalKeys : Moves(o, k)}

\* The keys of every (source, target) pair.
group_keys_by_migration_path(o, keys) ==
    LET movers == {k \in keys : Moves(o, k)}
    IN  [p \in {Path(o, k) : k \in movers} |->
            {k \in movers : Path(o, k) = p}]

\* The order of a std::map over pairs of ids.
Rank(n) == CHOOSE i \in DOMAIN IdOrder : IdOrder[i] = n

PathBefore(p, q) ==
    \/ Rank(p[1]) < Rank(q[1])
    \/ Rank(p[1]) = Rank(q[1]) /\ Rank(p[2]) < Rank(q[2])

\* generate_job_id for the paths in their order: the ids are told apart by
\* the counter, which is what the model keeps of them.
JobIds(paths) ==
    LET order == SetToSortSeq(DOMAIN paths, PathBefore)
    IN  [id \in job_counter .. job_counter + Len(order) - 1 |->
            order[id - job_counter + 1]]

\* Jobs whose ids leave out the counter: those of one second share an id.
CreateJobsWithOneId(paths) ==
    LET ids == JobIds(paths)
    IN  /\ Cardinality(DOMAIN paths) <= MaxPlan
        /\ job' = job @@
              [id \in DOMAIN ids |->
                  [RebalanceJob(ids[id][1], ids[id][2])
                      EXCEPT !.keys_total = Cardinality(paths[ids[id]])]]
        /\ jobs' = jobs \union DOMAIN ids
        /\ worker' = worker @@ [id \in DOMAIN ids |-> Spawned]
        /\ UNCHANGED job_counter

\* The loop of start_rebalance and start_drain under jobs_mutex_: one job
\* and one detached thread for every path.
CreateJobs(paths) ==
    LET ids == JobIds(paths)
    IN  /\ Cardinality(DOMAIN paths) <= MaxPlan
        /\ job' = job @@
              [id \in DOMAIN ids |->
                  [RebalanceJob(ids[id][1], ids[id][2])
                      EXCEPT !.keys_total = Cardinality(paths[ids[id]])]]
        /\ jobs' = jobs \union DOMAIN ids
        /\ worker' = worker @@ [id \in DOMAIN ids |-> Spawned]
        /\ job_counter' = job_counter + Cardinality(DOMAIN paths)

\* The bound MaxJobs: a call that may create jobs begins while there is room
\* for its plan and for the plans of the drains that have begun.
Room ==
    LET begun == {c \in Callers : call[c].pc = "lock"}
    IN  job_counter + MaxPlan * (1 + Cardinality(begun)) <= MaxJobs

\* The orchestrator a handler uses: created with the rings of that moment
\* when there is none.
Orchestrator == IF orchestrator = Nil THEN rings ELSE orchestrator

\* What start_rebalance and start_drain plan.
RebalancePaths ==
    group_keys_by_migration_path(Orchestrator,
                                 calculate_affected_keys(Orchestrator))

DrainPaths == group_keys_by_migration_path(Orchestrator, LocalKeys)

\* The counters a start adds its jobs to.
Started(n) ==
    [stats EXCEPT !.total_jobs = @ + n, !.active_jobs = @ + n]

-----------------------------------------------------------------------------
(***************************************************************************)
(* The admin service.  Rebalance holds orchestrator_mutex_ from its first  *)
(* line to its return, DrainNode from after set_state to its return.  The  *)
(* engine is read before the jobs are created; the threads read it again,  *)
(* so the two are taken in one step.                                       *)
(***************************************************************************)
Enter(c, rpc, pc) ==
    [call EXCEPT ![c] = [Idle EXCEPT !.rpc = rpc, !.pc = pc]]

Leave(c) == [call EXCEPT ![c] = Idle]

set_hash_rings(p) ==
    /\ mutex = Nil
    /\ rings' = [old |-> Placement(p.old), new |-> Placement(p.new)]
    /\ UNCHANGED <<store, orchestrator, job, jobs, job_counter, worker, stats,
                   state, mutex, call, now, response, nwrites, hist>>

\* Rebalance without rings, and with rings under which no local key moves.
RebalanceRefused(c) ==
    /\ call[c] = Idle /\ mutex = Nil
    /\ \/ rings = Nil /\ UNCHANGED orchestrator
       \/ /\ rings # Nil
          /\ calculate_affected_keys(Orchestrator) = {}
          /\ orchestrator' = Orchestrator
    /\ response' = Reply("Rebalance", FALSE, Nil, 0)
    /\ UNCHANGED <<store, rings, job, jobs, job_counter, worker, stats, state,
                   mutex, call, now, nwrites, hist>>

\* Rebalance up to the threads of start_rebalance.
Rebalance(c) ==
    /\ call[c] = Idle /\ mutex = Nil /\ rings # Nil
    /\ Room
    /\ calculate_affected_keys(Orchestrator) # {}
    /\ orchestrator' = Orchestrator
    /\ CreateJobs(RebalancePaths)
    /\ mutex' = c
    /\ call' = [Enter(c, "Rebalance", "count") EXCEPT
                   ![c].job = job_counter,
                   ![c].njobs = Cardinality(DOMAIN RebalancePaths)]
    /\ UNCHANGED <<store, rings, stats, state, now, response, nwrites, hist>>

\* The rest of start_rebalance and of the handler.
RebalanceReturn(c) ==
    /\ call[c].rpc = "Rebalance" /\ call[c].pc = "count"
    /\ stats' = Started(call[c].njobs)
    /\ response' = Reply("Rebalance", TRUE, call[c].job, 0)
    /\ mutex' = Nil
    /\ call' = Leave(c)
    /\ UNCHANGED <<store, rings, orchestrator, job, jobs, job_counter, worker,
                   state, now, nwrites, hist>>

\* DrainNode for another node than this one.
DrainMismatch(c, n) ==
    /\ call[c] = Idle /\ n # Self
    /\ response' = Reply("DrainNode", FALSE, Nil, 0)
    /\ UNCHANGED <<store, rings, orchestrator, job, jobs, job_counter, worker,
                   stats, state, mutex, call, now, nwrites, hist>>

\* DrainNode up to the lock.
DrainNode(c) ==
    /\ call[c] = Idle
    /\ Room
    /\ state' = "DRAINING"
    /\ call' = Enter(c, "DrainNode", "lock")
    /\ UNCHANGED <<store, rings, orchestrator, job, jobs, job_counter, worker,
                   stats, mutex, now, response, nwrites, hist>>

\* No rings: the drain fails.  No path (the engine is empty, or no key of it
\* changes its owner): the drain succeeds with nothing moved.
DrainNothing(c) ==
    /\ call[c].pc = "lock" /\ mutex = Nil
    /\ \/ /\ rings = Nil
          /\ response' = Reply("DrainNode", FALSE, Nil, 0)
          /\ UNCHANGED orchestrator
       \/ /\ rings # Nil
          /\ DOMAIN DrainPaths = {}
          /\ orchestrator' = Orchestrator
          /\ response' = Reply("DrainNode", TRUE, Nil, 0)
    /\ state' = "HEALTHY"
    /\ call' = Leave(c)
    /\ UNCHANGED <<store, rings, job, jobs, job_counter, worker, stats, mutex,
                   now, nwrites, hist>>

\* DrainNode up to the threads of start_drain.
DrainStart(c) ==
    /\ call[c].pc = "lock" /\ mutex = Nil /\ rings # Nil
    /\ DOMAIN DrainPaths # {}
    /\ orchestrator' = Orchestrator
    /\ CreateJobs(DrainPaths)
    /\ mutex' = c
    /\ call' = [call EXCEPT ![c].pc = "count", ![c].job = job_counter,
                            ![c].njobs = Cardinality(DOMAIN DrainPaths)]
    /\ UNCHANGED <<store, rings, stats, state, now, response, nwrites, hist>>

\* The rest of start_drain; the handler starts to wait for the first job.
DrainCounted(c) ==
    /\ call[c].rpc = "DrainNode" /\ call[c].pc = "count"
    /\ stats' = Started(call[c].njobs)
    /\ call' = [call EXCEPT ![c].pc = "wait", ![c].start = now]
    /\ UNCHANGED <<store, rings, orchestrator, job, jobs, job_counter, worker,
                   state, mutex, now, response, nwrites, hist>>

\* A job that is not listed counts as complete.
is_complete(j) == j \in jobs => job[j].completed

\* A turn of the loop that ends the wait: the job is complete, or it is not
\* and the time is up.
DrainPoll(c) ==
    /\ call[c].pc = "wait"
    /\ \/ /\ is_complete(call[c].job)
          /\ call' = [call EXCEPT ![c].pc = "progress"]
       \/ /\ ~is_complete(call[c].job)
          /\ now - call[c].start > DrainTimeout
          /\ call' = [call EXCEPT ![c].pc = "cancel"]
    /\ UNCHANGED <<store, rings, orchestrator, job, jobs, job_counter, worker,
                   stats, state, mutex, now, response, nwrites, hist>>

cancel_job(j) ==
    IF j \in jobs
    THEN [job EXCEPT ![j].failed = TRUE, ![j].error_message = "Cancelled"]
    ELSE job

\* The drain gives up: it cancels the job it waited for.
DrainCancel(c) ==
    /\ call[c].pc = "cancel"
    /\ job' = cancel_job(call[c].job)
    /\ response' = Reply("DrainNode", FALSE, call[c].job, 0)
    /\ state' = "HEALTHY"
    /\ mutex' = Nil
    /\ call' = Leave(c)
    /\ UNCHANGED <<store, rings, orchestrator, jobs, job_counter, worker,
                   stats, now, nwrites, hist>>

\* get_progress after the wait: the drain succeeded when the job is listed
\* and has not failed, and the node stays DRAINING.
DrainAnswer(c) ==
    /\ call[c].pc = "progress"
    /\ LET j == call[c].job
       IN  \/ /\ j \in jobs /\ ~job[j].failed
              /\ response' =
                    Reply("DrainNode", TRUE, j, job[j].keys_migrated)
              /\ UNCHANGED state
           \/ /\ j \notin jobs \/ job[j].failed
              /\ response' = Reply("DrainNode", FALSE, j, 0)
              /\ state' = "HEALTHY"
    /\ mutex' = Nil
    /\ call' = Leave(c)
    /\ UNCHANGED <<store, rings, orchestrator, job, jobs, job_counter, worker,
                   stats, now, nwrites, hist>>

\* GetStatus of this node, of the cluster (the empty id) or of another
\* node, and GetMetrics, which reads orchestrator_ without the mutex: what
\* they answer in a state.  They change nothing.
GetStatus(n) == IF n \in {Self, NoNode} THEN state ELSE Nil

GetMetrics == IF orchestrator = Nil THEN Nil ELSE stats

-----------------------------------------------------------------------------
(***************************************************************************)
(* execute_job, the thread of job j.  Its locals are worker[j]: the        *)
(* entries it read (snap), the start of the batch (i) and the number of    *)
(* keys of the batch that are sent (b).                                    *)
(***************************************************************************)
At(j, pc) == j \in DOMAIN worker /\ worker[j].pc = pc

\* The local keys whose owner in the new ring is the target of the job.
Migrating(j) ==
    {k \in LocalKeys : orchestrator.new[k] = job[j].target_node_id}

\* for_each: the thread reads the entries, in the order of the hash table.
Entries(j) ==
    LET keys == SelectSeq(ScanOrder, LAMBDA k : k \in Migrating(j))
    IN  [x \in DOMAIN keys |-> <<keys[x], store[Self][keys[x]]>>]

Scan(j) ==
    /\ At(j, "scan")
    /\ worker' = [worker EXCEPT ![j].pc = "batch", ![j].snap = Entries(j)]
    /\ job' = [job EXCEPT ![j].keys_total = Cardinality(Migrating(j))]
    /\ UNCHANGED <<store, rings, orchestrator, jobs, job_counter, stats, state,
                   mutex, call, now, response, nwrites, hist>>

\* The entries of the batch that starts at i.
Batch(w) ==
    SubSeq(w.snap, w.i + 1, Min({w.i + BatchSize, Len(w.snap)}))

\* The top of the loop: it ends when the entries are exhausted or the job
\* has failed (it was cancelled).  The target of a job owns a key in the
\* new ring, so migrate_batch always finds it there.
BatchBegin(j) ==
    /\ At(j, "batch")
    /\ \/ /\ worker[j].i >= Len(worker[j].snap) \/ job[j].failed
          /\ worker' = [worker EXCEPT ![j] = Left]
       \/ /\ worker[j].i < Len(worker[j].snap) /\ ~job[j].failed
          /\ worker' = [worker EXCEPT ![j].pc = "send"]
    /\ UNCHANGED <<store, rings, orchestrator, job, jobs, job_counter, stats,
                   state, mutex, call, now, response, nwrites, hist>>

\* What Set of the client does to the engines: one of the replicas it
\* tries for the key stores the value.
Stored(k, v) ==
    {[store EXCEPT ![r][k] = v] : r \in ClientReplicas[k]}

\* A Set that fails and is taken for a success.
SendFailsUnnoticed(j) ==
    /\ At(j, "send")
    /\ worker' = [worker EXCEPT ![j].pc = "cleanup"]
    /\ UNCHANGED <<store, rings, orchestrator, job, jobs, job_counter, stats,
                   state, mutex, call, now, response, nwrites, hist>>

\* migrate_batch, one key: Set succeeds on one of the replicas of the
\* client, or fails (the request may have been served all the same) and
\* the job has failed.
SendKey(j) ==
    LET w == worker[j]
        e == Batch(w)[w.b + 1]
    IN  /\ At(j, "send")
        /\ \/ /\ store' \in Stored(e[1], e[2])
              /\ worker' = [worker EXCEPT
                    ![j].b = w.b + 1,
                    ![j].pc = IF w.b + 1 = Len(Batch(w)) THEN "cleanup"
                              ELSE "send"]
              /\ UNCHANGED job
           \/ /\ store' \in Stored(e[1], e[2]) \union {store}
              /\ worker' = [worker EXCEPT ![j] = Left]
              /\ job' = [job EXCEPT ![j].failed = TRUE,
                                    ![j].error_message = "Failed"]
        /\ UNCHANGED <<rings, orchestrator, jobs, job_counter, stats, state,
                       mutex, call, now, response, nwrites, hist>>

\* cleanup_migrated_keys and the end of a turn: the keys of the batch are
\* deleted from the local engine, whatever it holds of them now.
Cleanup(j) ==
    LET w == worker[j]
        sent == {Batch(w)[x][1] : x \in DOMAIN Batch(w)}
    IN  /\ At(j, "cleanup")
        /\ store' = [store EXCEPT
              ![Self] = [k \in RingKeys |-> IF k \in sent THEN Nil ELSE @[k]]]
        /\ job' = [job EXCEPT ![j].keys_migrated = @ + Len(Batch(w))]
        /\ worker' = [worker EXCEPT ![j].pc = "batch", ![j].b = 0,
                                    ![j].i = w.i + BatchSize]
        /\ UNCHANGED <<rings, orchestrator, jobs, job_counter, stats, state,
                       mutex, call, now, response, nwrites, hist>>

Complete(j) ==
    /\ At(j, "finish")
    /\ job' = [job EXCEPT ![j].completed = TRUE]
    /\ worker' = [worker EXCEPT ![j].pc = "count"]
    /\ UNCHANGED <<store, rings, orchestrator, jobs, job_counter, stats, state,
                   mutex, call, now, response, nwrites, hist>>

\* A failed job that is counted without leaving the active ones.
CountKeepsActive(j) ==
    /\ At(j, "count")
    /\ stats' = IF job[j].failed
                THEN [stats EXCEPT !.failed_jobs = @ + 1]
                ELSE [stats EXCEPT !.successful_jobs = @ + 1,
                                   !.active_jobs = @ - 1,
                                   !.total_keys_migrated =
                                       @ + job[j].keys_migrated]
    /\ worker' = [worker EXCEPT ![j].pc = "done"]
    /\ UNCHANGED <<store, rings, orchestrator, job, jobs, job_counter, state,
                   mutex, call, now, response, nwrites, hist>>

\* The job is counted under stats_mutex_, as failed or as successful.
Count(j) ==
    /\ At(j, "count")
    /\ stats' = IF job[j].failed
                THEN [stats EXCEPT !.failed_jobs = @ + 1,
                                   !.active_jobs = @ - 1]
                ELSE [stats EXCEPT !.successful_jobs = @ + 1,
                                   !.active_jobs = @ - 1,
                                   !.total_keys_migrated =
                                       @ + job[j].keys_migrated]
    /\ worker' = [worker EXCEPT ![j].pc = "done"]
    /\ UNCHANGED <<store, rings, orchestrator, job, jobs, job_counter, state,
                   mutex, call, now, response, nwrites, hist>>

\* A job that stops at a failure without the lines after its loop.
ExecuteStopsAtFailure(j) ==
    \/ Scan(j) \/ SendKey(j) \/ Cleanup(j) \/ Count(j)
    \/ BatchBegin(j) /\ ~job[j].failed
    \/ Complete(j) /\ ~job[j].failed

execute_job(j) ==
    \/ Scan(j) \/ BatchBegin(j) \/ SendKey(j) \/ Cleanup(j)
    \/ Complete(j) \/ Count(j)

\* A turn of migration_worker that finds something to discard: the listed
\* jobs that are complete and old.
migration_worker ==
    LET old == {j \in jobs : /\ job[j].completed
                             /\ now - job[j].started_at > Retention}
    IN  /\ orchestrator # Nil
        /\ old # {}
        /\ jobs' = jobs \ old
        /\ UNCHANGED <<store, rings, orchestrator, job, job_counter, worker,
                       stats, state, mutex, call, now, response, nwrites,
                       hist>>

-----------------------------------------------------------------------------
(***************************************************************************)
(* The clients of the cache, and the clock.                                *)
(***************************************************************************)

\* A job has read the key and has not yet dealt with it.
InFlight(k) ==
    \E j \in DOMAIN worker :
        LET w == worker[j]
        IN  /\ w.pc \in {"batch", "send", "cleanup"}
            /\ \E x \in w.i + 1 .. Len(w.snap) : w.snap[x][1] = k

\* What the history keeps of a client's write of v (Nil: a delete) to key k
\* of node n.
Written(n, k, v) ==
    [local |-> IF n = Self THEN [hist.local EXCEPT ![k] = v] ELSE hist.local,
     raced |-> IF n # Self \/ InFlight(k) THEN hist.raced \union {k}
               ELSE hist.raced]

\* The Set and the Delete handler of a node, for a client: a client sends
\* a key to a node its ring gives the key, or to this node.
Routed(n, k) == n \in ClientReplicas[k] \union {Self}

ClientSet(n, k) ==
    /\ Routed(n, k)
    /\ nwrites < MaxWrites
    /\ nwrites' = nwrites + 1
    /\ store' = [store EXCEPT ![n][k] = nwrites']
    /\ hist' = Written(n, k, nwrites')
    /\ UNCHANGED <<rings, orchestrator, job, jobs, job_counter, worker, stats,
                   state, mutex, call, now, response>>

ClientDelete(n, k) ==
    /\ Routed(n, k)
    /\ nwrites < MaxWrites
    /\ store[n][k] # Nil
    /\ nwrites' = nwrites + 1
    /\ store' = [store EXCEPT ![n][k] = Nil]
    /\ hist' = Written(n, k, Nil)
    /\ UNCHANGED <<rings, orchestrator, job, jobs, job_counter, worker, stats,
                   state, mutex, call, now, response>>

Tick ==
    /\ now < MaxClock
    /\ now' = now + 1
    /\ UNCHANGED <<store, rings, orchestrator, job, jobs, job_counter, worker,
                   stats, state, mutex, call, response, nwrites, hist>>

\* The steps of a handler that has begun.
Continue(c) ==
    \/ RebalanceReturn(c)
    \/ DrainNothing(c) \/ DrainStart(c) \/ DrainCounted(c)
    \/ DrainPoll(c) \/ DrainCancel(c) \/ DrainAnswer(c)

Next ==
    \/ \E p \in RingPairs : set_hash_rings(p)
    \/ \E c \in Callers : RebalanceRefused(c) \/ Rebalance(c) \/ DrainNode(c)
    \/ \E c \in Callers, n \in Nodes : DrainMismatch(c, n)
    \/ \E c \in Callers : Continue(c)
    \/ \E j \in 0 .. MaxJobs - 1 : execute_job(j)
    \/ migration_worker
    \/ \E n \in Nodes, k \in RingKeys : ClientSet(n, k) \/ ClientDelete(n, k)
    \/ Tick

Spec == Init /\ [][Next]_vars

\* The threads run: a handler that has begun goes on, and so does the
\* thread of a job.
FairSpec ==
    /\ Spec
    /\ \A c \in Callers : WF_vars(Continue(c))
    /\ \A j \in 0 .. MaxJobs - 1 : WF_vars(execute_job(j))

-----------------------------------------------------------------------------
JobType ==
    [source_node_id : Nodes, target_node_id : Nodes,
     started_at : 0 .. MaxClock,
     keys_migrated : 0 .. Cardinality(RingKeys),
     keys_total : 0 .. Cardinality(RingKeys),
     completed : BOOLEAN, failed : BOOLEAN,
     error_message : {Nil, "Cancelled", "Failed"}]

WorkerType ==
    [pc : {"scan", "batch", "send", "cleanup", "finish", "count", "done"},
     snap : Seq(RingKeys \X Values), i : Nat, b : 0 .. BatchSize]

StatsType ==
    [total_jobs : 0 .. MaxJobs, successful_jobs : 0 .. MaxJobs,
     failed_jobs : 0 .. MaxJobs, active_jobs : -MaxJobs .. MaxJobs,
     total_keys_migrated : Nat]

CallType ==
    [rpc : {Nil, "Rebalance", "DrainNode"},
     pc : {"idle", "lock", "count", "wait", "progress", "cancel"},
     job : {Nil} \union 0 .. MaxJobs, njobs : 0 .. MaxJobs,
     start : 0 .. MaxClock]

TypeOK ==
    /\ store \in [Nodes -> [RingKeys -> Values \union {Nil}]]
    /\ {rings, orchestrator} \subseteq
          {Nil} \union [old : [RingKeys -> Nodes \union {NoNode}],
                         new : [RingKeys -> Nodes \union {NoNode}]]
    /\ job_counter \in 0 .. MaxJobs
    /\ DOMAIN job = 0 .. job_counter - 1 /\ DOMAIN worker = DOMAIN job
    /\ \A j \in DOMAIN job : job[j] \in JobType /\ worker[j] \in WorkerType
    /\ jobs \subseteq DOMAIN job
    /\ stats \in StatsType
    /\ state \in {"HEALTHY", "DRAINING"}
    /\ mutex \in Callers \union {Nil}
    /\ call \in [Callers -> CallType]
    /\ now \in 0 .. MaxClock
    /\ response # Nil =>
          /\ response.rpc \in {"Rebalance", "DrainNode"}
          /\ response.success \in BOOLEAN
          /\ response.job_id \in {Nil} \union 0 .. MaxJobs
          /\ response.keys_migrated \in 0 .. Cardinality(RingKeys)
    /\ nwrites \in 0 .. MaxWrites
    /\ hist.local \in [RingKeys -> Values \union {Nil}]
    /\ hist.raced \subseteq RingKeys

\* Rebalancing preserves data: a value a client wrote to this node, while
\* no job had the key in hand and no client wrote the key elsewhere, is
\* held by this node or by one of the nodes the client sends the key to,
\* whatever jobs run, fail, overlap or are cancelled (execute_job deletes a
\* batch only after migrate_batch has had every Set of it acknowledged).
\* It is said of the keys the client does not send to this node itself.
MovedKeysSurvive ==
    \A k \in RingKeys :
        /\ hist.local[k] # Nil
        /\ k \notin hist.raced
        /\ Self \notin ClientReplicas[k]
        => \E n \in ClientReplicas[k] \union {Self} :
              store[n][k] = hist.local[k]

\* The statistics follow the jobs: the active jobs of get_statistics are
\* the threads that have not counted themselves, every thread that has is
\* counted as successful or as failed, and the keys counted as migrated
\* are those of the counted jobs (start_rebalance and start_drain add
\* their jobs after the threads have started; execute_job counts on each
\* of its ways out).
StatsMatchJobs ==
    LET pending == FoldFunction(LAMBDA x, sum : sum + x.njobs, 0,
                      [c \in {d \in Callers : call[d].pc = "count"} |->
                          call[c]])
        counted == {j \in DOMAIN worker : worker[j].pc = "done"}
        Keys(S) == FoldSet(LAMBDA j, sum : sum + job[j].keys_migrated, 0, S)
        m == GetMetrics
    IN  orchestrator # Nil =>
        /\ m.total_jobs + pending = job_counter
        /\ m.active_jobs + pending =
              Cardinality(DOMAIN worker \ counted)
        /\ m.successful_jobs + m.failed_jobs = Cardinality(counted)
        /\ m.total_keys_migrated <= Keys(counted)
        /\ m.total_keys_migrated >=
              Keys({j \in counted : ~job[j].failed})

\* A drain returns: DrainNode that has begun answers its caller, with the
\* job it waits for complete or cancelled (execute_job marks the job
\* complete on each of its ways out).
DrainAnswers ==
    \A c \in Callers : call[c].rpc = "DrainNode" ~> call[c] = Idle
=============================================================================
