---------------------------- MODULE CacheService ----------------------------
(***************************************************************************)
(* CacheServiceImpl (src/main.cpp): the gRPC handlers Get, Set, Delete,    *)
(* CompareAndSwap and HealthCheck over one ShardedHashTable.  A handler    *)
(* runs on a server thread; the steps it takes inside the table are the    *)
(* actions of StorageEngine, and the response it sends is recorded when    *)
(* the call into the table returns.  The service never calls clear.        *)
(***************************************************************************)
EXTENDS StorageEngine

VARIABLE response   \* the response a handler sent last

svars == <<vars, steady, response>>

\* What a client can tell apart in a response (the error text is left out).
GetResponse(k, e) ==
    IF e = Nil
      THEN [op |-> "Get", key |-> k, found |-> FALSE]
      ELSE [op |-> "Get", key |-> k, found |-> TRUE,
            value |-> e.value, version |-> e.version]

\* set_version(1), whatever the table holds.
SetResponse(k) == [op |-> "Set", key |-> k, success |-> TRUE, version |-> 1]

DeleteResponse(k, ok) == [op |-> "Delete", key |-> k, success |-> ok]

CasResponse(k, r) ==
    [op |-> "CompareAndSwap", key |-> k, success |-> r.success,
     new_version |-> r.new_version, actual_version |-> r.actual_version]

\* The checks a handler makes before it touches the table, in their order:
\* rate limit, authentication, authorisation, validation.
ChecksOf ==
    [Get |-> {"RESOURCE_EXHAUSTED", "UNAUTHENTICATED", "PERMISSION_DENIED", "INVALID_ARGUMENT"},
     Set |-> {"RESOURCE_EXHAUSTED", "UNAUTHENTICATED", "PERMISSION_DENIED", "INVALID_ARGUMENT"},
     Delete |-> {"RESOURCE_EXHAUSTED", "UNAUTHENTICATED", "PERMISSION_DENIED", "INVALID_ARGUMENT"},
     CompareAndSwap |-> {"RESOURCE_EXHAUSTED", "UNAUTHENTICATED", "PERMISSION_DENIED", "INVALID_ARGUMENT"},
     HealthCheck |-> {}]

Handlers == DOMAIN ChecksOf

ServiceInit ==
    /\ Init
    /\ response = [op |-> "HealthCheck", status |-> "SERVING"]

\* A check fails: the handler returns its status and the table is not called.
Rejected(t, handler, status) ==
    /\ Idle(t)
    /\ status \in ChecksOf[handler]
    /\ response' = [op |-> "refused", status |-> status]
    /\ UNCHANGED <<vars, steady>>

HandleGet(t, k) ==
    \/ GetMiss(t, k) /\ response' = GetResponse(k, Nil)
    \/ GetFound(t, k) /\ UNCHANGED response

\* storage_.get returns from its second lookup.
HandleGetReturn(t) ==
    /\ GetTouch(t)
    /\ response' = GetResponse(op[t].key, GetResult(op[t].key))

\* The entries the handlers of Set and CompareAndSwap pass to the table:
\* built by the handler, with version 1, before the call takes the lock of
\* the shard, so that the clock may have moved since.
Built ==
    {CacheEntry(v, ttl, created) : v \in Values, ttl \in TTLs, created \in 0 .. now}

HandleSet(t, k, entry) ==
    \/ /\ SetUpdate(t, k, entry) \/ SetInsert(t, k, entry)
       /\ response' = SetResponse(k)
    \/ SetEvictBegin(t, k, entry) /\ UNCHANGED response

HandleSetEvict(t) ==
    /\ EvictOne(t)
    /\ UNCHANGED response

HandleSetReturn(t) ==
    /\ SetAfterEvict(t)
    /\ response' = SetResponse(op[t].key)

HandleDelete(t, k) ==
    /\ DelAbsent(t, k) \/ DelPresent(t, k)
    /\ response' = DeleteResponse(k, Present(k))

HandleCompareAndSwap(t, k, expected, new_entry) ==
    /\ CasFail(t, k, expected) \/ CasSwap(t, k, expected, new_entry)
    /\ response' = CasResponse(k, CasResult(k, expected))

HandleHealthCheck(t) ==
    /\ Idle(t)
    /\ response' = [op |-> "HealthCheck", status |-> "SERVING"]
    /\ UNCHANGED <<vars, steady>>

ClockTick ==
    /\ Tick
    /\ UNCHANGED response

Handle(t) ==
    \/ \E h \in Handlers : \E s \in ChecksOf[h] : Rejected(t, h, s)
    \/ \E k \in Keys :
         \/ HandleGet(t, k)
         \/ HandleDelete(t, k)
         \/ \E entry \in Built :
              \/ HandleSet(t, k, entry)
              \/ \E x \in 0 .. MaxVersion : HandleCompareAndSwap(t, k, x, entry)
    \/ HandleGetReturn(t)
    \/ HandleSetEvict(t)
    \/ HandleSetReturn(t)
    \/ HandleHealthCheck(t)

ServiceNext == ClockTick \/ \E t \in Threads : Handle(t)

ServiceSpec == ServiceInit /\ [][ServiceNext]_svars

----------------------------------------------------------------------------
\* What a Get would find: the entries that are in the map and not expired.
Visible ==
    [k \in Keys |->
        IF Live(k) THEN [value |-> data[k].value, version |-> data[k].version]
                   ELSE Nil]

Contract == INSTANCE CacheContract WITH store <- Visible, reply <- response

=============================================================================
