------------------------- MODULE QuorumCoordinator -------------------------
(***************************************************************************)
(* The client side of the data plane on one key: ShardingClient            *)
(* (src/src/client/sharding_client.cpp), which sends a call to the         *)
(* replicas of the key one after the other with retries, and               *)
(* QuorumCoordinator (src/src/cluster/quorum_coordinator.cpp), which sends *)
(* a call to every replica in parallel, each through a ShardingClient for  *)
(* that one node, and counts the answers.  The servers are the handlers of *)
(* src/src/main.cpp as CacheContract describes them: a call takes effect   *)
(* at one instant on the entry of the key.                                 *)
(*                                                                         *)
(* A caller runs one operation at a time.  The calls an operation has      *)
(* under way are its tasks: one for an operation of the client, one per    *)
(* replica (a std::async future) for an operation of the coordinator.  A   *)
(* write is named by the number of the operation that made it.  A request  *)
(* whose call has failed at the client may still reach the server: it is   *)
(* kept in net, with the requests of the read repair that nobody waits for.*)
(***************************************************************************)
EXTENDS HashRing

CONSTANTS
    Callers,         \* the threads that call the client and the coordinator
    Key,             \* the key
    WriteQuorum,     \* config_.write_quorum
    ReadQuorum,      \* config_.read_quorum
    TotalReplicas,   \* config_.total_replicas: the replicas a caller passes
    MaxReplicas,     \* ClientConfig::max_replicas
    RetryAttempts,   \* ClientConfig::retry_attempts
    MaxOps,          \* bound: the operations the callers start
    MaxLate,         \* bound: the requests that outlive their call
    Nil,
    NoOp

\* The configurations the constructor accepts.
ValidConfig ==
    /\ WriteQuorum \in 0 .. TotalReplicas
    /\ ReadQuorum \in 0 .. TotalReplicas

ASSUME /\ Key \in RingKeys
       /\ ValidConfig
       /\ MaxReplicas \in Nat /\ RetryAttempts \in Nat \ {0}
       /\ MaxOps \in Nat /\ MaxLate \in Nat

VARIABLES
    store,     \* the entry of the key on every node, or Nil
    op,        \* the operation of every caller, or NoOp
    tasks,     \* the calls of the operation of every caller
    net,       \* the requests nobody waits for
    nops,      \* the operations started
    result,    \* what the last operation of every caller returned
    hist       \* history: what the properties compare a result with

vars == <<store, op, tasks, net, nops, result, hist>>

MaxVersion == MaxOps + 1

Entry == [value : 0 .. MaxOps, version : 1 .. MaxVersion]

\* The operations of QuorumCoordinator and of ShardingClient.
QuorumKinds == {"QuorumWrite", "QuorumRead", "QuorumCAS"}

ClientKinds == {"Set", "Get", "Delete", "CompareAndSwap"}

\* The call of the client an operation makes at a replica.
CallOf ==
    [QuorumWrite |-> "Set", QuorumRead |-> "Get", QuorumCAS |-> "CompareAndSwap",
     Set |-> "Set", Get |-> "Get", Delete |-> "Delete",
     CompareAndSwap |-> "CompareAndSwap"]

\* ShardingClient::ShardingClient: every address is added to the ring.
ClientRing == FoldSet(LAMBDA n, r : add_node(r, n), EmptyRing, Nodes)

\* The replicas the callers of the coordinator pass, and those the client
\* finds for the key.
ReplicaAddresses == get_replicas(ClientRing, Key, TotalReplicas)

ClientReplicas == get_replicas(ClientRing, Key, MaxReplicas)

\* What a call answers: OperationResult, without the error text.
Answer(status, value, ver) ==
    [status |-> status, value |-> value, version |-> ver]

Answers ==
    [status : {"ok", "miss", "mismatch", "error"},
     value : 0 .. MaxOps, version : 0 .. MaxVersion]

-----------------------------------------------------------------------------
(***************************************************************************)
(* The servers.                                                            *)
(***************************************************************************)

\* The handlers of src/src/main.cpp on the entry e of the key: the entry
\* they leave and what they answer.  Set builds the entry anew and answers
\* version 1 whatever was there.
Get(e) ==
    [entry |-> e,
     answer |-> IF e = Nil THEN Answer("miss", 0, 0)
                ELSE Answer("ok", e.value, e.version)]

Set(value) ==
    [entry |-> [value |-> value, version |-> 1], answer |-> Answer("ok", 0, 1)]

Delete(e) ==
    [entry |-> Nil,
     answer |-> IF e = Nil THEN Answer("miss", 0, 0) ELSE Answer("ok", 0, 0)]

\* The swap is the engine's: it needs the entry and its version as expected,
\* and the new version is the old one plus one.
CompareAndSwap(e, value, expected) ==
    CASE e = Nil -> [entry |-> e, answer |-> Answer("miss", 0, 0)]
      [] e # Nil /\ e.version # expected ->
            [entry |-> e, answer |-> Answer("mismatch", 0, e.version)]
      [] OTHER ->
            [entry |-> [value |-> value, version |-> expected + 1],
             answer |-> Answer("ok", 0, expected + 1)]

Handled(e, call, value, expected) ==
    CASE call = "Get" -> Get(e)
      [] call = "Set" -> Set(value)
      [] call = "Delete" -> Delete(e)
      [] call = "CompareAndSwap" -> CompareAndSwap(e, value, expected)

\* Set and Delete put the version of the entry back to 1 or remove it.
Resets(call) == call \in {"Set", "Delete"}

-----------------------------------------------------------------------------
(***************************************************************************)
(* A task: one call of ShardingClient (ExecuteGet and the like), made to   *)
(* the replicas in their order, retry_attempts times each.                 *)
(***************************************************************************)
Task ==
    [replicas : Seq(Nodes), r : Nat, attempt : Nat, answer : Answers \union {Nil}]

\* A call to no replica at all has failed at once ("No nodes available").
NewTask(replicas) ==
    [replicas |-> replicas, r |-> 1, attempt |-> 0,
     answer |-> IF replicas = <<>> THEN Answer("error", 0, 0) ELSE Nil]

\* The node the task calls now.
Target(t) == t.replicas[t.r]

\* The attempts of a call: the clients of the coordinator do not retry.
AttemptsOf(kind) == IF kind \in QuorumKinds THEN 1 ELSE RetryAttempts

\* The loops as they would be with one attempt too many on a replica.
RetriedOnceMore(t, kind) ==
    IF t.attempt < AttemptsOf(kind) THEN [t EXCEPT !.attempt = @ + 1]
    ELSE IF t.r < Len(t.replicas) THEN [t EXCEPT !.r = @ + 1, !.attempt = 0]
    ELSE [t EXCEPT !.answer = Answer("error", 0, 0)]

\* The loops as they would be if a failed attempt were not counted.
RetriedUncounted(t, kind) ==
    IF t.attempt + 1 < AttemptsOf(kind) THEN t
    ELSE IF t.r < Len(t.replicas) THEN [t EXCEPT !.r = @ + 1, !.attempt = 0]
    ELSE [t EXCEPT !.answer = Answer("error", 0, 0)]

\* The loops as they would be if they began again with the first replica
\* when the last one has failed.
RetriedFromTheFirst(t, kind) ==
    IF t.attempt + 1 < AttemptsOf(kind) THEN [t EXCEPT !.attempt = @ + 1]
    ELSE [t EXCEPT !.r = (@ % Len(t.replicas)) + 1, !.attempt = 0]

\* The loops of ExecuteGet and the like: the next attempt on this replica,
\* then the next replica, then "All replicas failed".
Retried(t, kind) ==
    IF t.attempt + 1 < AttemptsOf(kind) THEN [t EXCEPT !.attempt = @ + 1]
    ELSE IF t.r < Len(t.replicas) THEN [t EXCEPT !.r = @ + 1, !.attempt = 0]
    ELSE [t EXCEPT !.answer = Answer("error", 0, 0)]

\* What the loop does with the response of a server: Get and CompareAndSwap
\* return whatever the server answered, Set returns on success, Delete
\* takes "no such key" for a failure and goes on.
Answered(t, kind, a) ==
    IF CallOf[kind] = "Delete" /\ a.status = "miss"
    THEN Retried(t, kind)
    ELSE [t EXCEPT !.answer = a]

\* A request nobody waits for.
Request(n, call, value, expected) ==
    [to |-> n, call |-> call, value |-> value, expected |-> expected]

Requests ==
    [to : Nodes, call : {"Set", "Delete", "CompareAndSwap"},
     value : 0 .. MaxOps, expected : 0 .. MaxVersion]

-----------------------------------------------------------------------------
Operation ==
    [kind : QuorumKinds \union ClientKinds,
     value : 0 .. MaxOps, expected : 0 .. MaxVersion,
     floor : 0 .. MaxVersion]

Result ==
    [kind : QuorumKinds \union ClientKinds, success : BOOLEAN,
     value : 0 .. MaxOps, version : 0 .. MaxVersion,
     floor : 0 .. MaxVersion]

\* Every node holds the entry that a Set acknowledged by all has left.
Init ==
    /\ store = [n \in Nodes |-> [value |-> 0, version |-> 1]]
    /\ op = [c \in Callers |-> NoOp]
    /\ tasks = [c \in Callers |-> <<>>]
    /\ net = {}
    /\ nops = 0
    /\ result = [c \in Callers |-> NoOp]
    /\ hist = [clean |-> TRUE, cas |-> 0,
               wins |-> [v \in 1 .. MaxVersion |-> 0]]

\* A caller starts an operation: the client looks the replicas up and
\* enters its loop, the coordinator launches one call per replica.
Begin(c, kind, expected) ==
    /\ op[c] = NoOp
    /\ nops < MaxOps
    /\ nops' = nops + 1
    /\ op' = [op EXCEPT ![c] =
                [kind |-> kind, value |-> nops + 1, expected |-> expected,
                 floor |-> hist.cas]]
    /\ tasks' = [tasks EXCEPT ![c] =
                   IF kind \in QuorumKinds
                   THEN [j \in DOMAIN ReplicaAddresses |->
                            NewTask(<<ReplicaAddresses[j]>>)]
                   ELSE <<NewTask(ClientReplicas)>>]
    /\ UNCHANGED <<store, net, result, hist>>

\* The calls that have not returned yet.
Calling(c) == {j \in DOMAIN tasks[c] : tasks[c][j].answer = Nil}

\* A server handles the request of a call and the client gets the response.
Served(c, j) ==
    /\ j \in Calling(c)
    /\ LET t    == tasks[c][j]
           o    == op[c]
           call == CallOf[o.kind]
           done == Handled(store[Target(t)], call, o.value, o.expected)
       IN  /\ store' = [store EXCEPT ![Target(t)] = done.entry]
           /\ tasks' = [tasks EXCEPT ![c][j] = Answered(t, o.kind, done.answer)]
           /\ hist' = [hist EXCEPT !.clean = @ /\ ~Resets(call)]
    /\ UNCHANGED <<op, net, nops, result>>

\* The call fails at the client (the status is not OK) and the request
\* never reaches the server.
CallLost(c, j) ==
    /\ j \in Calling(c)
    /\ tasks' = [tasks EXCEPT ![c][j] = Retried(@, op[c].kind)]
    /\ UNCHANGED <<store, op, net, nops, result, hist>>

\* The call fails at its deadline while the request is on its way: the
\* server handles it later.
CallTimesOut(c, j) ==
    /\ j \in Calling(c)
    /\ CallOf[op[c].kind] # "Get"
    /\ Cardinality(net) < MaxLate
    /\ tasks' = [tasks EXCEPT ![c][j] = Retried(@, op[c].kind)]
    /\ net' = net \union {Request(Target(tasks[c][j]), CallOf[op[c].kind],
                                  op[c].value, op[c].expected)}
    /\ UNCHANGED <<store, op, nops, result, hist>>

\* A server handles a request nobody waits for.
LateServed(q) ==
    /\ q \in net
    /\ store' = [store EXCEPT ![q.to] =
                       Handled(@, q.call, q.value, q.expected).entry]
    /\ net' = net \ {q}
    /\ hist' = [hist EXCEPT !.clean = @ /\ ~Resets(q.call)]
    /\ UNCHANGED <<op, tasks, nops, result>>

LateLost(q) ==
    /\ q \in net
    /\ net' = net \ {q}
    /\ UNCHANGED <<store, op, tasks, nops, result, hist>>

-----------------------------------------------------------------------------
(***************************************************************************)
(* The coordinator.  Its loop waits for the futures in the order of the    *)
(* replicas until the deadline of the operation: it looks at the first m   *)
(* of them, for some m, and at none after.  The loop reads only what the   *)
(* operation owns, and the operation returns when every future is ready    *)
(* (the destructor of a future of std::async waits for its task), so the   *)
(* loop is taken in the step that returns.                                 *)
(***************************************************************************)

\* The answers the loop has seen.
Seen(t, m) == [j \in 1 .. m |-> t[j].answer]

\* acknowledged: the calls that answered with success.
Acknowledged(t, m) == Cardinality({j \in 1 .. m : t[j].answer.status = "ok"})

\* version_mismatch: the error text of a CompareAndSwap names a mismatch
\* ("Key not found" does not).
VersionMismatch(t, m) == \E j \in 1 .. m : t[j].answer.status = "mismatch"

\* responses: the answers of QuorumRead that carry a value, in their order.
Responses(t, m) ==
    LET found == SelectSeq(Seen(t, m), LAMBDA a : a.status = "ok")
    IN  [i \in DOMAIN found |->
            [value |-> found[i].value, version |-> found[i].version]]

\* max_element over the responses by version (the timestamp of a response
\* is never set by the server): the first of the highest version.
Latest(responses) ==
    responses[Min({i \in DOMAIN responses :
                     \A j \in DOMAIN responses :
                        responses[j].version <= responses[i].version})]

\* QuorumRead without the test of read_quorum.
ReadAnsweredByAny(responses) == responses # <<>>

\* QuorumRead has an answer when read_quorum replicas sent a value.
ReadAnswered(responses) ==
    /\ Len(responses) >= ReadQuorum
    /\ responses # <<>>

\* QuorumCAS as it would be if one acknowledgement were enough.
CasSucceededByOne(t, m) ==
    /\ Acknowledged(t, m) >= 1
    /\ ~VersionMismatch(t, m)

\* QuorumCAS succeeds with write_quorum acknowledgements and no mismatch.
CasSucceeded(t, m) ==
    /\ Acknowledged(t, m) >= WriteQuorum
    /\ ~VersionMismatch(t, m)

WriteSucceeded(t, m) == Acknowledged(t, m) >= WriteQuorum

\* "Identify stale replicas": the i-th response that is older than the
\* latest names the i-th address.
StaleReplicas(responses) ==
    {ReplicaAddresses[i] :
        i \in {j \in DOMAIN responses :
                  responses[j].version < Latest(responses).version}}

\* The Set requests of the detached repair thread.
Repairs(o, t, m) ==
    IF o.kind = "QuorumRead" /\ ReadAnswered(Responses(t, m))
    THEN {Request(n, "Set", Latest(Responses(t, m)).value, 0) :
             n \in StaleReplicas(Responses(t, m))}
    ELSE {}

\* WriteResult, ReadResult or OperationResult of the operation.
Outcome(o, t, m) ==
    LET acked == Acknowledged(t, m) > 0
        shown ==
            CASE o.kind = "QuorumRead" ->
                    IF ReadAnswered(Responses(t, m))
                    THEN [success |-> TRUE] @@ Latest(Responses(t, m))
                    ELSE [success |-> FALSE, value |-> 0, version |-> 0]
              [] o.kind = "QuorumWrite" ->
                    [success |-> WriteSucceeded(t, m), value |-> 0,
                     version |-> IF acked THEN 1 ELSE 0]
              [] o.kind = "QuorumCAS" ->
                    [success |-> CasSucceeded(t, m), value |-> 0,
                     version |-> IF acked THEN o.expected + 1 ELSE 0]
              [] OTHER ->
                    [success |-> t[1].answer.status = "ok",
                     value |-> t[1].answer.value,
                     version |-> t[1].answer.version]
    IN  shown @@ [kind |-> o.kind, floor |-> o.floor]

\* What the history keeps of a QuorumCAS that succeeded.
Noted(h, o, t, m) ==
    IF o.kind = "QuorumCAS" /\ CasSucceeded(t, m)
    THEN [h EXCEPT !.cas = Max({@, o.expected + 1}),
                   !.wins[o.expected] = Min({2, @ + 1})]
    ELSE h

\* The operation returns what the first m of its calls answered.
Return(c, m) ==
    /\ op[c] # NoOp
    /\ Calling(c) = {}
    /\ result' = [result EXCEPT ![c] = Outcome(op[c], tasks[c], m)]
    /\ net' = net \union Repairs(op[c], tasks[c], m)
    /\ hist' = Noted(hist, op[c], tasks[c], m)
    /\ op' = [op EXCEPT ![c] = NoOp]
    /\ tasks' = [tasks EXCEPT ![c] = <<>>]
    /\ UNCHANGED <<store, nops>>

\* Get, Set, Delete and CompareAndSwap return the answer of their loop.
ClientReturn(c) ==
    /\ op[c] # NoOp /\ op[c].kind \in ClientKinds
    /\ Return(c, 1)

\* QuorumWrite, QuorumRead and QuorumCAS return, the deadline having passed
\* after the loop had taken m futures.
QuorumReturn(c) ==
    /\ op[c] # NoOp /\ op[c].kind \in QuorumKinds
    /\ \E m \in 0 .. Len(tasks[c]) : Return(c, m)

Next ==
    \/ \E c \in Callers :
         \/ \E kind \in {"QuorumWrite", "QuorumRead", "Set", "Get", "Delete"} :
              Begin(c, kind, 0)
         \/ \E kind \in {"QuorumCAS", "CompareAndSwap"}, x \in 1 .. MaxVersion - 1 :
              Begin(c, kind, x)
         \/ \E j \in DOMAIN tasks[c] :
              Served(c, j) \/ CallLost(c, j) \/ CallTimesOut(c, j)
         \/ ClientReturn(c)
         \/ QuorumReturn(c)
    \/ \E q \in net : LateServed(q) \/ LateLost(q)

Spec == Init /\ [][Next]_vars

\* What the coordinator and the client do by themselves while an operation
\* is under way: every call ends (each carries a deadline of rpc_timeout_ms,
\* set anew for every attempt), the loops go on, the coordinator stops
\* waiting at its own deadline.  How a call ends is not the caller's to
\* choose: no server has to answer, and nothing is assumed of the requests
\* in net.
Proceeds(c) ==
    \/ \E j \in DOMAIN tasks[c] :
         Served(c, j) \/ CallLost(c, j) \/ CallTimesOut(c, j)
    \/ ClientReturn(c)
    \/ QuorumReturn(c)

\* While some operation is under way, one of them takes a step.  The thread
\* of every caller runs, which is more than this asks: Proceeds(c) stays
\* enabled until c itself steps.
FairSpec == Spec /\ WF_vars(\E c \in Callers : Proceeds(c))

-----------------------------------------------------------------------------
TypeOK ==
    /\ store \in [Nodes -> Entry \union {Nil}]
    /\ op \in [Callers -> Operation \union {NoOp}]
    /\ \A c \in Callers :
          /\ tasks[c] \in Seq(Task)
          /\ \A j \in Calling(c) :
                /\ tasks[c][j].r \in DOMAIN tasks[c][j].replicas
                /\ tasks[c][j].attempt < AttemptsOf(op[c].kind)
    /\ net \subseteq Requests
    /\ nops \in 0 .. MaxOps
    /\ result \in [Callers -> Result \union {NoOp}]
    /\ hist \in [clean : BOOLEAN, cas : 0 .. MaxVersion,
                 wins : [1 .. MaxVersion -> 0 .. 2]]

\* The correctness condition of the quorum design (W + R > N), as far as
\* the versions of the servers carry it.  While no Set or Delete has reached
\* a server, the versions of a replica only grow (CompareAndSwap is the only
\* writer), so a QuorumRead that started after a QuorumCAS had succeeded
\* returns the version that CAS wrote or a later one: the replicas that
\* answer the read (Responses, ReadAnswered) meet those that acknowledged the
\* CAS, calls that fail, time out or arrive late notwithstanding.
ReadSeesQuorumCas ==
    \A c \in Callers :
        (/\ result[c] # NoOp
         /\ result[c].kind = "QuorumRead"
         /\ result[c].success
         /\ hist.clean)
            => result[c].version >= result[c].floor

\* While no Set or Delete has reached a server, at most one QuorumCAS that
\* expects a given version succeeds, whatever the callers do at the same
\* time: two write quorums meet in a replica, and a replica swaps a version
\* once (CasSucceeded counts the acknowledgements and the mismatches).
CasWinsOnce ==
    hist.clean => \A v \in 1 .. MaxVersion : hist.wins[v] <= 1

\* ExecuteCAS reports "version mismatch" as final ("Don't retry CAS"), and
\* the caller takes it to mean that somebody else changed the key.  When a
\* replica holds the very value this CompareAndSwap was to write, the
\* mismatch is the echo of the operation's own request: that happens only
\* after a call of the loop failed and was tried again (the request of the
\* failed call reached its server after the deadline), never on the first
\* call of the operation.
MismatchIsOfAnotherUnlessRetried ==
    [][\A c \in Callers :
          (/\ ClientReturn(c)
           /\ op[c].kind = "CompareAndSwap"
           /\ tasks[c][1].answer.status = "mismatch"
           /\ \E n \in Nodes : store[n] # Nil /\ store[n].value = op[c].value)
              => tasks[c][1].attempt > 0 \/ tasks[c][1].r > 1]_vars

\* Every operation returns to its caller, whether the replicas answer, fail
\* or time out, and in whatever order the calls of the other caller and the
\* late requests are handled: the loops over attempts and replicas of
\* ExecuteGet, ExecuteSet, ExecuteDelete and ExecuteCompareAndSwap end, and
\* so do the tasks QuorumWrite, QuorumRead and QuorumCAS wait for.
OperationsReturn ==
    \A c \in Callers : (op[c] # NoOp) ~> (op[c] = NoOp)
=============================================================================
