---------------------------- MODULE Replication ----------------------------
(***************************************************************************)
(* The replication pipeline of src/src/replication/replication_manager.cpp *)
(* on one primary and its followers: the bounded queue that QueueWrite and *)
(* QueueDelete fill, the worker thread that drains it in batches, SendBatch *)
(* with one Replicate call per replica, and the handler of the followers   *)
(* (ReplicationServiceImpl::Replicate) that applies a batch to its engine. *)
(*                                                                         *)
(* A write is named by its key and its version: the value a write stores   *)
(* is the value of that version.  An engine is a map from keys to the      *)
(* version it holds, or Nil.  The ttl of an entry is left out.             *)
(*                                                                         *)
(* A Replicate call is a record in calls: the follower it goes to, the     *)
(* entries its handler has still to apply, and whether the worker is still *)
(* waiting for the answer.  A call whose deadline has passed stays in      *)
(* calls when the request is on its way or in the handler: the follower    *)
(* applies it later.                                                       *)
(***************************************************************************)
EXTENDS HashRing

CONSTANTS
    Self,               \* config_.node_id
    ReplicationFactor,  \* config_.replication_factor
    BatchSize,          \* config_.batch_size
    MaxQueueSize,       \* config_.max_queue_size
    MaxVersion,         \* bound: the writes of a key the model follows
    MaxLate,            \* bound: the calls that outlive their deadline
    Nil

ASSUME /\ Self \in Nodes
       /\ ReplicationFactor \in Nat
       /\ BatchSize \in Nat \ {0}
       /\ MaxQueueSize \in Nat
       /\ MaxVersion \in Nat
       /\ MaxLate \in Nat

VARIABLES
    ring,            \* ring_, shared with the failover manager
    version,         \* the version of the last write of a key on the primary
    primary,         \* the engine of the primary
    queue,           \* queue_
    running,         \* running_
    wpc,             \* where the worker thread is
    batch,           \* the batch of the worker
    targets,         \* SendBatch: the replicas still to send to
    all_succeeded,   \* SendBatch: all_succeeded
    calls,           \* the Replicate calls under way
    store,           \* the engines of the other nodes
    stats            \* queued_ops_, replicated_ops_, failed_ops_, batches_sent_

vars == <<ring, version, primary, queue, running, wpc, batch, targets,
          all_succeeded, calls, store, stats>>

Keys == RingKeys

Followers == Nodes \ {Self}

\* QueuedEntry, without the value, the ttl and the time.
QueuedEntry == [op : {"SET", "DELETE"}, key : Keys, version : 1 .. MaxVersion]

Engine == [Keys -> (1 .. MaxVersion) \union {Nil}]

Call == [to : Followers, entries : Seq(QueuedEntry), live : BOOLEAN]

\* The ring of a node that has started: every node of the cluster added.
FullRing == FoldSet(LAMBDA n, r : add_node(r, n), EmptyRing, Nodes)

Init ==
    /\ ring = FullRing
    /\ version = [k \in Keys |-> 0]
    /\ primary = [k \in Keys |-> Nil]
    /\ queue = <<>>
    /\ running = FALSE
    /\ wpc = "stopped"
    /\ batch = <<>>
    /\ targets = <<>>
    /\ all_succeeded = TRUE
    /\ calls = {}
    /\ store = [n \in Followers |-> [k \in Keys |-> Nil]]
    /\ stats = [queued_ops |-> 0, replicated_ops |-> 0, failed_ops |-> 0,
                batches_sent |-> 0]

-----------------------------------------------------------------------------
(***************************************************************************)
(* The callers of the primary.                                             *)
(***************************************************************************)

\* Start: the worker thread is created unless the manager runs already.
\* Start and Stop are called from one thread, so Start finds the thread of
\* an earlier run joined.
Start ==
    /\ wpc = "stopped"
    /\ ~running
    /\ running' = TRUE
    /\ wpc' = "wait"
    /\ UNCHANGED <<ring, version, primary, queue, batch, targets,
                   all_succeeded, calls, store, stats>>

\* Stop: the flag is cleared and the worker woken; join returns when the
\* worker has left its loop (WorkerExit).
Stop ==
    /\ running
    /\ running' = FALSE
    /\ UNCHANGED <<ring, version, primary, queue, wpc, batch, targets,
                   all_succeeded, calls, store, stats>>

\* QueueWrite and QueueDelete without the test of the queue's size.
EnqueueUnbounded(entry) ==
    /\ queue' = Append(queue, entry)
    /\ stats' = [stats EXCEPT !.queued_ops = @ + 1]

\* The body of QueueWrite and QueueDelete under queue_mutex_: a full queue
\* refuses the new entry, which is then never replicated.
Enqueue(entry) ==
    IF Len(queue) >= MaxQueueSize
    THEN UNCHANGED <<queue, stats>>
    ELSE /\ queue' = Append(queue, entry)
         /\ stats' = [stats EXCEPT !.queued_ops = @ + 1]

QueueWrite(k, v) == Enqueue([op |-> "SET", key |-> k, version |-> v])

QueueDelete(k, v) == Enqueue([op |-> "DELETE", key |-> k, version |-> v])

\* A write commits on the primary with the next version of its key and is
\* then queued.
LocalWrite(k) ==
    /\ version[k] < MaxVersion
    /\ version' = [version EXCEPT ![k] = @ + 1]
    /\ primary' = [primary EXCEPT ![k] = version[k] + 1]
    /\ QueueWrite(k, version[k] + 1)
    /\ UNCHANGED <<ring, running, wpc, batch, targets, all_succeeded, calls,
                   store>>

LocalDelete(k) ==
    /\ version[k] < MaxVersion
    /\ version' = [version EXCEPT ![k] = @ + 1]
    /\ primary' = [primary EXCEPT ![k] = Nil]
    /\ QueueDelete(k, version[k] + 1)
    /\ UNCHANGED <<ring, running, wpc, batch, targets, all_succeeded, calls,
                   store>>

\* A failover elsewhere in the process takes a node off the shared ring.
NodeRemoved(n) ==
    /\ n \in ring.nodes
    /\ ring' = remove_node(ring, n)
    /\ UNCHANGED <<version, primary, queue, running, wpc, batch, targets,
                   all_succeeded, calls, store, stats>>

-----------------------------------------------------------------------------
(***************************************************************************)
(* The worker thread.  A turn of its loop with an empty queue (the wait    *)
(* times out, the batch is empty, continue) changes nothing and is not an  *)
(* action.                                                                 *)
(***************************************************************************)

\* The worker as it would be if it left the loop on an empty queue.
WorkerExitWhenIdle ==
    /\ wpc = "wait"
    /\ ~running \/ queue = <<>>
    /\ wpc' = "stopped"
    /\ UNCHANGED <<ring, version, primary, queue, running, batch, targets,
                   all_succeeded, calls, store, stats>>

\* The loop ends where it tests running_: at the top and after the wait.
WorkerExit ==
    /\ wpc = "wait"
    /\ ~running
    /\ wpc' = "stopped"
    /\ UNCHANGED <<ring, version, primary, queue, running, batch, targets,
                   all_succeeded, calls, store, stats>>

\* The collection as it would be with pop_back: the newest entries first.
WorkerCollectNewestFirst ==
    /\ wpc = "wait"
    /\ running
    /\ queue # <<>>
    /\ LET n == Min({BatchSize, Len(queue)})
       IN  /\ batch' = Reverse(SubSeq(queue, Len(queue) - n + 1, Len(queue)))
           /\ queue' = SubSeq(queue, 1, Len(queue) - n)
    /\ wpc' = "send"
    /\ UNCHANGED <<ring, version, primary, running, targets, all_succeeded,
                   calls, store, stats>>

\* "Collect batch", under queue_mutex_: the front of the queue, batch_size
\* entries at most, in the order of the queue.
WorkerCollect ==
    /\ wpc = "wait"
    /\ running
    /\ queue # <<>>
    /\ LET n == Min({BatchSize, Len(queue)})
       IN  /\ batch' = SubSeq(queue, 1, n)
           /\ queue' = SubSeq(queue, n + 1, Len(queue))
    /\ wpc' = "send"
    /\ UNCHANGED <<ring, version, primary, running, targets, all_succeeded,
                   calls, store, stats>>

\* What the worker does with the answer of SendBatch.
Counted(ok) ==
    /\ stats' = [stats EXCEPT
                    !.replicated_ops = IF ok THEN @ + Len(batch) ELSE @,
                    !.failed_ops     = IF ok THEN @ ELSE @ + Len(batch),
                    !.batches_sent   = @ + 1]
    /\ batch' = <<>>
    /\ targets' = <<>>
    /\ wpc' = "wait"

\* The replicas SendBatch sends to: those of the first key of the batch,
\* without the primary.
ReplicasOfBatch ==
    SelectSeq(get_replicas(ring, batch[1].key, ReplicationFactor),
              LAMBDA n : n # Self)

\* SendBatch finds no replica at all: the batch has failed.
SendBatchNoReplicas ==
    /\ wpc = "send"
    /\ get_replicas(ring, batch[1].key, ReplicationFactor) = <<>>
    /\ Counted(FALSE)
    /\ UNCHANGED <<ring, version, primary, queue, running, all_succeeded,
                   calls, store>>

\* SendBatch finds the primary alone: nothing to send, the batch is done.
SendBatchAlone ==
    /\ wpc = "send"
    /\ get_replicas(ring, batch[1].key, ReplicationFactor) # <<>>
    /\ ReplicasOfBatch = <<>>
    /\ Counted(TRUE)
    /\ UNCHANGED <<ring, version, primary, queue, running, all_succeeded,
                   calls, store>>

\* SendBatch builds the request and enters the loop over the replicas.
SendBatchBegin ==
    /\ wpc = "send"
    /\ ReplicasOfBatch # <<>>
    /\ targets' = ReplicasOfBatch
    /\ all_succeeded' = TRUE
    /\ wpc' = "call"
    /\ UNCHANGED <<ring, version, primary, queue, running, batch, calls,
                   store, stats>>

\* stub->Replicate(&context, batch, &ack) to the next replica.
CallReplica ==
    /\ wpc = "call"
    /\ calls' = calls \union
                  {[to |-> Head(targets), entries |-> batch, live |-> TRUE]}
    /\ wpc' = "await"
    /\ UNCHANGED <<ring, version, primary, queue, running, batch, targets,
                   all_succeeded, store, stats>>

\* A call is over when its handler has answered and nobody waits for the
\* answer.
Pending(c) == IF c.entries = <<>> /\ ~c.live THEN {} ELSE {c}

\* The loop over the replicas goes on, or SendBatch returns.
NextReplica(ok) ==
    IF Len(targets) > 1
    THEN /\ targets' = Tail(targets)
         /\ all_succeeded' = ok
         /\ wpc' = "call"
         /\ UNCHANGED <<batch, stats>>
    ELSE /\ Counted(ok)
         /\ all_succeeded' = ok

\* The call returns OK with ack.success(): the handler has applied the batch.
RpcOk ==
    /\ wpc = "await"
    /\ \E c \in calls :
         /\ c.live
         /\ c.entries = <<>>
         /\ calls' = calls \ {c}
    /\ NextReplica(all_succeeded)
    /\ UNCHANGED <<ring, version, primary, queue, running, store>>

\* A failed call as it would be without "all_succeeded = false".
RpcLostUnnoticed ==
    /\ wpc = "await"
    /\ \E c \in calls :
         /\ c.live
         /\ c.entries = batch
         /\ calls' = calls \ {c}
    /\ NextReplica(all_succeeded)
    /\ UNCHANGED <<ring, version, primary, queue, running, store>>

\* !status.ok(): the request never reached the follower.
RpcLost ==
    /\ wpc = "await"
    /\ \E c \in calls :
         /\ c.live
         /\ c.entries = batch
         /\ calls' = calls \ {c}
    /\ NextReplica(FALSE)
    /\ UNCHANGED <<ring, version, primary, queue, running, store>>

\* !status.ok(): the deadline has passed.  The request, or what is left of
\* it in the handler, stays with the follower.
RpcTimeout ==
    /\ wpc = "await"
    /\ Cardinality({c \in calls : ~c.live}) < MaxLate
    /\ \E c \in calls :
         /\ c.live
         /\ calls' = (calls \ {c}) \union Pending([c EXCEPT !.live = FALSE])
    /\ NextReplica(FALSE)
    /\ UNCHANGED <<ring, version, primary, queue, running, store>>

WorkerNext ==
    \/ WorkerExit
    \/ WorkerCollect
    \/ SendBatchNoReplicas
    \/ SendBatchAlone
    \/ SendBatchBegin
    \/ CallReplica
    \/ RpcOk
    \/ RpcLost
    \/ RpcTimeout

-----------------------------------------------------------------------------
(***************************************************************************)
(* The followers.                                                          *)
(***************************************************************************)

\* The handler as the ordering rule of the design asks for it: an entry
\* older than what the engine holds is rejected.
AppliedWithGuard(engine, entry) ==
    IF engine[entry.key] # Nil /\ engine[entry.key] > entry.version
    THEN engine
    ELSE [engine EXCEPT ![entry.key] =
             IF entry.op = "SET" THEN entry.version ELSE Nil]

\* One turn of the loop of Replicate: storage_->set with the version of
\* the sender, or storage_->del, whatever the engine holds.
Applied(engine, entry) ==
    [engine EXCEPT ![entry.key] =
        IF entry.op = "SET" THEN entry.version ELSE Nil]

\* The handler of a follower applies the next entry of a request.  After
\* the last one it answers; an answer nobody waits for is dropped.
Replicate(c) ==
    /\ c.entries # <<>>
    /\ store' = [store EXCEPT ![c.to] = Applied(@, Head(c.entries))]
    /\ calls' = (calls \ {c}) \union Pending([c EXCEPT !.entries = Tail(@)])
    /\ UNCHANGED <<ring, version, primary, queue, running, wpc, batch,
                   targets, all_succeeded, stats>>

Next ==
    \/ Start
    \/ Stop
    \/ \E k \in Keys : LocalWrite(k) \/ LocalDelete(k)
    \/ \E n \in Nodes : NodeRemoved(n)
    \/ WorkerNext
    \/ \E c \in calls : Replicate(c)

Spec == Init /\ [][Next]_vars

\* The worker is a thread of its own and every call it makes has a
\* deadline; the handler of a follower that has taken a request runs on.
FairSpec ==
    /\ Spec
    /\ WF_vars(WorkerNext)
    /\ WF_vars(\E c \in calls : Replicate(c))

-----------------------------------------------------------------------------
TypeOK ==
    /\ IsRing(ring)
    /\ version \in [Keys -> 0 .. MaxVersion]
    /\ primary \in Engine
    /\ queue \in Seq(QueuedEntry) /\ Len(queue) <= MaxQueueSize
    /\ running \in BOOLEAN
    /\ wpc \in {"stopped", "wait", "send", "call", "await"}
    /\ batch \in Seq(QueuedEntry) /\ Len(batch) <= BatchSize
    /\ targets \in Seq(Followers)
    /\ all_succeeded \in BOOLEAN
    /\ calls \subseteq Call
    /\ store \in [Followers -> Engine]
    /\ stats \in [queued_ops : Nat, replicated_ops : Nat, failed_ops : Nat,
                  batches_sent : Nat]

\* Nothing is queued, with the worker or on its way.
Quiescent == queue = <<>> /\ batch = <<>> /\ calls = {}

\* The writes the primary has committed.
Committed == FoldFunction(+, 0, version)

\* The followers of a key on the full ring.
FollowersOf(k) ==
    Range(get_replicas(FullRing, k, ReplicationFactor)) \ {Self}

\* When every write committed on the primary was queued, every batch was
\* reported replicated and nothing is on its way, every follower of a key
\* holds what the primary holds: the worker takes the queue in its order
\* (WorkerCollect), SendBatch answers true only when every replica has
\* acknowledged, and a follower applies a batch in its order (Replicate).
ReplicasCatchUp ==
    (/\ Quiescent
     /\ ring = FullRing
     /\ stats.queued_ops = Committed
     /\ stats.failed_ops = 0)
        => \A k \in Keys : \A n \in FollowersOf(k) : store[n][k] = primary[k]

\* The engine of a follower goes back to an older write of a key only while
\* it applies a request whose call had ended at its deadline.  The handler
\* (Replicate) stores whatever arrives, without the version regression guard
\* of the design, so the order of the writes on a follower rests on the
\* worker alone: it takes the queue in its order (WorkerCollect), sends one
\* batch at a time and waits for each call (SendBatch).  Only a request it
\* gave up at the deadline can still arrive behind a newer one.
OnlyLateRequestsRegress ==
    [][\A n \in Followers : \A k \in Keys :
           (store[n][k] # Nil /\ store'[n][k] # Nil /\ store'[n][k] < store[n][k])
               => \E c \in calls :
                     /\ c.to = n /\ ~c.live /\ c.entries # <<>>
                     /\ Head(c.entries).key = k
                     /\ c \notin calls']_vars

\* While the manager runs, what is in the queue leaves it: the worker wakes
\* on the condition variable or on its timeout, takes a batch, and comes
\* back from SendBatch because every call has a deadline.
QueueDrains == (queue # <<>>) ~> (queue = <<>> \/ ~running)
=============================================================================
