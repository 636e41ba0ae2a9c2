--------------------------- MODULE StorageEngine ---------------------------
(***************************************************************************)
(* ShardedHashTable (src/cache/storage_engine.cpp): the per-node store.    *)
(* Every key lives in one shard; a shard is a map, an LRU list and a byte  *)
(* counter behind one shared_mutex.  The totals of memory and entries are  *)
(* atomics shared by all shards, read and written under different locks.   *)
(*                                                                         *)
(* A call that holds the shard lock once is one action.  The calls that    *)
(* release a lock or re-read a shared total in the middle are split where  *)
(* another thread can run: get (shared lock, then exclusive lock), the     *)
(* eviction loop of set (it re-reads the global total on every turn) and   *)
(* clear (one shard after the other, the totals last).  for_each, which    *)
(* the snapshot, the migration scan and the catch-up stream call, reads    *)
(* one shard after the other and is a step per shard.                      *)
(***************************************************************************)
EXTENDS Integers, Sequences, FiniteSets, SequencesExt

CONSTANTS
    Keys,        \* keys a caller may name
    Values,      \* value blobs
    Threads,     \* threads calling into the table
    NumShards,   \* shards_.size()
    ShardOf,     \* get_shard_index: [Keys -> 0..NumShards-1]
    SizeOf,      \* CacheEntry::total_size by value: [Values -> Nat \ {0}]
    MaxMemory,   \* max_memory_bytes_
    TTLs,        \* ttl_seconds a caller may pass (naturals, or Nil for none)
    MaxTime,     \* bound: the clock stops at MaxTime
    MaxVersion,  \* bound: no CAS is attempted on an entry at MaxVersion
    SizeMod,     \* stands for 2^64, the width of size_t counters
    Nil          \* std::nullopt, end(), no thread

VARIABLES
    data,          \* shard.data of every shard: [Keys -> Entry \cup {Nil}]
    lru,           \* shard.lru_list, most recently used first
    shardMem,      \* shard.memory_bytes
    totalMem,      \* total_memory_bytes_
    totalEntries,  \* total_entries_
    now,           \* CacheEntry::get_current_time_ms
    holder,        \* the thread that holds a shard's lock across steps
    pc,            \* where each thread is inside a call
    op,            \* the arguments of the call a thread is inside
    used,          \* history: keys of a shard by last use, latest first
    steady         \* history: per thread inside for_each, the keys whose entry
                   \* has been in the table, unexpired and unchanged, since
                   \* the walk took its first lock

vars == <<data, lru, shardMem, totalMem, totalEntries, now, holder, pc, op, used>>

Shards == 0 .. NumShards - 1

KeysOf(s) == {k \in Keys : ShardOf[k] = s}

\* expires_at_ms is the time of construction plus the ttl, or absent.
Deadlines == {at + ttl : at \in 0 .. MaxTime, ttl \in TTLs \ {Nil}}

Entry == [value : Values, ttl : TTLs, version : 1 .. MaxVersion,
          expires : Deadlines \cup {Nil}]

----------------------------------------------------------------------------
(* cache_entry.h *)

\* The three-argument constructor, run when the clock showed `created`:
\* version 1, expiry derived from the ttl and from the clock of that moment.
CacheEntry(v, ttl, created) ==
    [value |-> v, ttl |-> ttl, version |-> 1,
     expires |-> IF ttl = Nil THEN Nil ELSE created + ttl]

IsExpired(e) == e.expires # Nil /\ now > e.expires

TotalSize(e) == SizeOf[e.value]

----------------------------------------------------------------------------
(* Helpers of the table *)

AddW(a, b) == (a + b) % SizeMod
SubW(a, b) == (a - b) % SizeMod

Present(k) == data[k] # Nil

Live(k) == Present(k) /\ ~IsExpired(data[k])

\* Faulty variant: get trusts its first lookup and does not look again.
StillLiveUnchecked(k) == TRUE

\* The second lookup of get, under the exclusive lock.
StillLive(k) == Present(k) /\ ~IsExpired(data[k])

NeedsEviction(size) == AddW(totalMem, size) > MaxMemory

\* Faulty variant: a key already in the list stays where it is.
MoveToFrontNoSplice(list, k) ==
    IF k \in ToSet(list) THEN list ELSE <<k>> \o list

\* list::splice of one node to the front; push_front when the key is new.
MoveToFront(list, k) == <<k>> \o Remove(list, k)

\* for_each visits, shard by shard, the entries that have not expired.
VisibleIn(s) == {k \in KeysOf(s) : Live(k)}

Free(s) == holder[s] = Nil

Idle(t) == pc[t] = "idle"

\* Faulty variant: the old size is not taken off the global total.
ReplaceKeepsOldSize(k, e) ==
    LET s == ShardOf[k]
        old == TotalSize(data[k])
    IN /\ data' = [data EXCEPT ![k] = e]
       /\ lru' = [lru EXCEPT ![s] = <<k>> \o Remove(@, k)]
       /\ used' = [used EXCEPT ![s] = <<k>> \o Remove(@, k)]
       /\ shardMem' = [shardMem EXCEPT ![s] = AddW(SubW(@, old), TotalSize(e))]
       /\ totalMem' = AddW(totalMem, TotalSize(e))

\* Replace the entry of a present key and account for the change of size.
Replace(k, e) ==
    LET s == ShardOf[k]
        old == TotalSize(data[k])
    IN /\ data' = [data EXCEPT ![k] = e]
       /\ lru' = [lru EXCEPT ![s] = MoveToFront(@, k)]
       /\ used' = [used EXCEPT ![s] = <<k>> \o Remove(@, k)]
       /\ shardMem' = [shardMem EXCEPT ![s] = AddW(SubW(@, old), TotalSize(e))]
       /\ totalMem' = AddW(SubW(totalMem, old), TotalSize(e))

\* Insert a new key at the front of its shard.
Insert(k, e) ==
    LET s == ShardOf[k]
    IN /\ data' = [data EXCEPT ![k] = e]
       /\ lru' = [lru EXCEPT ![s] = MoveToFront(@, k)]
       /\ used' = [used EXCEPT ![s] = <<k>> \o Remove(@, k)]
       /\ shardMem' = [shardMem EXCEPT ![s] = AddW(@, TotalSize(e))]
       /\ totalMem' = AddW(totalMem, TotalSize(e))
       /\ totalEntries' = AddW(totalEntries, 1)

\* Faulty variant: the entry counter is left as it was.
EraseKeepsCount(k) ==
    LET s == ShardOf[k]
    IN /\ data' = [data EXCEPT ![k] = Nil]
       /\ lru' = [lru EXCEPT ![s] = Remove(@, k)]
       /\ used' = [used EXCEPT ![s] = Remove(@, k)]
       /\ shardMem' = [shardMem EXCEPT ![s] = SubW(@, TotalSize(data[k]))]
       /\ totalMem' = SubW(totalMem, TotalSize(data[k]))
       /\ UNCHANGED totalEntries

\* Take a present key out of map, list and counters.
Erase(k) ==
    LET s == ShardOf[k]
    IN /\ data' = [data EXCEPT ![k] = Nil]
       /\ lru' = [lru EXCEPT ![s] = Remove(@, k)]
       /\ used' = [used EXCEPT ![s] = Remove(@, k)]
       /\ shardMem' = [shardMem EXCEPT ![s] = SubW(@, TotalSize(data[k]))]
       /\ totalMem' = SubW(totalMem, TotalSize(data[k]))
       /\ totalEntries' = SubW(totalEntries, 1)

----------------------------------------------------------------------------
Init ==
    /\ data = [k \in Keys |-> Nil]
    /\ lru = [s \in Shards |-> <<>>]
    /\ used = [s \in Shards |-> <<>>]
    /\ shardMem = [s \in Shards |-> 0]
    /\ totalMem = 0
    /\ totalEntries = 0
    /\ now = 0
    /\ holder = [s \in Shards |-> Nil]
    /\ pc = [t \in Threads |-> "idle"]
    /\ op = [t \in Threads |-> Nil]
    /\ steady = [t \in Threads |-> {}]

----------------------------------------------------------------------------
(* History of the for_each walks *)

\* The entry of k is the same after the step and has not expired by then.
Stays(k) ==
    /\ data[k] # Nil /\ data'[k] = data[k]
    /\ data[k].expires # Nil => now' <= data[k].expires

\* Every step of the table ends with it: a walk begins with the entries the
\* table shows, and a step of any thread or of the clock takes away what it
\* changes.
Watch ==
    steady' = [t \in Threads |->
                 IF pc'[t] # "for_each" THEN {}
                 ELSE {k \in (IF pc[t] = "for_each" THEN steady[t] ELSE Keys) :
                          Stays(k)}]

----------------------------------------------------------------------------
(* get *)

\* First lookup, shared lock: absent or expired is a miss.
GetMiss(t, k) ==
    /\ Idle(t) /\ Free(ShardOf[k])
    /\ ~Live(k)
    /\ UNCHANGED vars
    /\ Watch

\* First lookup found a live entry: the shared lock is dropped and the
\* thread queues for the exclusive lock.
GetFound(t, k) ==
    /\ Idle(t) /\ Free(ShardOf[k])
    /\ Live(k)
    /\ pc' = [pc EXCEPT ![t] = "get_upgrade"]
    /\ op' = [op EXCEPT ![t] = [key |-> k]]
    /\ UNCHANGED <<data, lru, shardMem, totalMem, totalEntries, now, holder, used>>
    /\ Watch

\* What get returns from under the exclusive lock.
GetResult(k) == IF StillLive(k) THEN data[k] ELSE Nil

\* Second lookup, exclusive lock: touch the entry if it is still there.
GetTouch(t) ==
    LET k == op[t].key
        s == ShardOf[k]
    IN /\ pc[t] = "get_upgrade" /\ Free(s)
       /\ IF StillLive(k)
            THEN /\ lru' = [lru EXCEPT ![s] = MoveToFront(@, k)]
                 /\ used' = [used EXCEPT ![s] = <<k>> \o Remove(@, k)]
            ELSE UNCHANGED <<lru, used>>
       /\ pc' = [pc EXCEPT ![t] = "idle"]
       /\ op' = [op EXCEPT ![t] = Nil]
       /\ UNCHANGED <<data, shardMem, totalMem, totalEntries, now, holder>>
       /\ Watch

----------------------------------------------------------------------------
(* set *)

\* The key exists (expired or not): the entry is replaced, nothing evicted.
SetUpdate(t, k, e) ==
    /\ Idle(t) /\ Free(ShardOf[k])
    /\ Present(k)
    /\ Replace(k, e)
    /\ UNCHANGED <<totalEntries, now, holder, pc, op>>
    /\ Watch

\* A new key that fits under the cap.
SetInsert(t, k, e) ==
    /\ Idle(t) /\ Free(ShardOf[k])
    /\ ~Present(k)
    /\ ~NeedsEviction(TotalSize(e))
    /\ Insert(k, e)
    /\ UNCHANGED <<now, holder, pc, op>>
    /\ Watch

\* A new key that does not fit: the thread keeps the shard lock and enters
\* evict_if_needed.
SetEvictBegin(t, k, e) ==
    /\ Idle(t) /\ Free(ShardOf[k])
    /\ ~Present(k)
    /\ NeedsEviction(TotalSize(e))
    /\ holder' = [holder EXCEPT ![ShardOf[k]] = t]
    /\ pc' = [pc EXCEPT ![t] = "evict"]
    /\ op' = [op EXCEPT ![t] = [key |-> k, entry |-> e]]
    /\ UNCHANGED <<data, lru, shardMem, totalMem, totalEntries, now, used>>
    /\ Watch

\* The loop condition of evict_if_needed for the thread's pending insert.
MustEvict(t) ==
    /\ NeedsEviction(TotalSize(op[t].entry))
    /\ lru[ShardOf[op[t].key]] # <<>>

\* Faulty variant: the entry goes and its key stays at the back of the list.
EvictOneKeepsList(t) ==
    LET victim == Last(lru[ShardOf[op[t].key]])
    IN /\ pc[t] = "evict"
       /\ MustEvict(t)
       /\ IF Present(victim)
            THEN /\ data' = [data EXCEPT ![victim] = Nil]
                 /\ shardMem' = [shardMem EXCEPT ![ShardOf[victim]] =
                                    SubW(@, TotalSize(data[victim]))]
                 /\ totalMem' = SubW(totalMem, TotalSize(data[victim]))
                 /\ totalEntries' = SubW(totalEntries, 1)
            ELSE UNCHANGED <<data, shardMem, totalMem, totalEntries>>
       /\ UNCHANGED <<lru, used, now, holder, pc, op>>
       /\ Watch

\* One turn of the loop: the key at the back of this shard's list goes, with
\* its entry when the map has one (expired or not, live or just written).
EvictOne(t) ==
    LET s == ShardOf[op[t].key]
        victim == Last(lru[s])
    IN /\ pc[t] = "evict"
       /\ MustEvict(t)
       /\ lru' = [lru EXCEPT ![s] = Front(@)]
       /\ IF Present(victim)
            THEN /\ data' = [data EXCEPT ![victim] = Nil]
                 /\ used' = [used EXCEPT ![s] = Remove(@, victim)]
                 /\ shardMem' = [shardMem EXCEPT ![s] = SubW(@, TotalSize(data[victim]))]
                 /\ totalMem' = SubW(totalMem, TotalSize(data[victim]))
                 /\ totalEntries' = SubW(totalEntries, 1)
            ELSE UNCHANGED <<data, used, shardMem, totalMem, totalEntries>>
       /\ UNCHANGED <<now, holder, pc, op>>
       /\ Watch

\* Faulty variant: set returns from the eviction path with the lock held.
SetAfterEvictKeepsLock(t) ==
    /\ pc[t] = "evict"
    /\ ~(/\ NeedsEviction(TotalSize(op[t].entry))
          /\ lru[ShardOf[op[t].key]] # <<>>)
    /\ data' = [data EXCEPT ![op[t].key] = op[t].entry]
    /\ lru' = [lru EXCEPT ![ShardOf[op[t].key]] = <<op[t].key>> \o @]
    /\ used' = [used EXCEPT ![ShardOf[op[t].key]] = <<op[t].key>> \o @]
    /\ shardMem' = [shardMem EXCEPT ![ShardOf[op[t].key]] = AddW(@, TotalSize(op[t].entry))]
    /\ totalMem' = AddW(totalMem, TotalSize(op[t].entry))
    /\ totalEntries' = AddW(totalEntries, 1)
    /\ pc' = [pc EXCEPT ![t] = "idle"]
    /\ op' = [op EXCEPT ![t] = Nil]
    /\ UNCHANGED <<now, holder>>
    /\ Watch

\* The loop is over (enough room, or nothing left to evict in this
\* shard): the entry is inserted whatever the total is, and set returns true.
SetAfterEvict(t) ==
    LET k == op[t].key
    IN /\ pc[t] = "evict"
       /\ ~MustEvict(t)
       /\ Insert(k, op[t].entry)
       /\ holder' = [holder EXCEPT ![ShardOf[k]] = Nil]
       /\ pc' = [pc EXCEPT ![t] = "idle"]
       /\ op' = [op EXCEPT ![t] = Nil]
       /\ UNCHANGED now
       /\ Watch

----------------------------------------------------------------------------
(* del, compare_and_swap, exists *)

DelAbsent(t, k) ==
    /\ Idle(t) /\ Free(ShardOf[k])
    /\ ~Present(k)
    /\ UNCHANGED vars
    /\ Watch

\* An expired entry is deleted like a live one, and del returns true.
DelPresent(t, k) ==
    /\ Idle(t) /\ Free(ShardOf[k])
    /\ Present(k)
    /\ Erase(k)
    /\ UNCHANGED <<now, holder, pc, op>>
    /\ Watch

\* The version check of compare_and_swap.
VersionMatches(k, expected) == data[k].version = expected

CasSucceeds(k, expected) == Live(k) /\ VersionMatches(k, expected)

\* CASResult: success with the new version, or failure with the version
\* found (0 when the key is absent or expired).
CasResult(k, expected) ==
    [success |-> CasSucceeds(k, expected),
     new_version |-> IF CasSucceeds(k, expected) THEN expected + 1 ELSE 0,
     actual_version |-> IF Live(k) /\ ~VersionMatches(k, expected)
                          THEN data[k].version ELSE 0]

CasFail(t, k, expected) ==
    /\ Idle(t) /\ Free(ShardOf[k])
    /\ ~CasSucceeds(k, expected)
    /\ UNCHANGED vars
    /\ Watch

CasSwap(t, k, expected, e) ==
    /\ Idle(t) /\ Free(ShardOf[k])
    /\ CasSucceeds(k, expected)
    /\ expected < MaxVersion
    /\ Replace(k, [e EXCEPT !.version = expected + 1])
    /\ UNCHANGED <<totalEntries, now, holder, pc, op>>
    /\ Watch

Exists(t, k) ==
    /\ Idle(t) /\ Free(ShardOf[k])
    /\ UNCHANGED vars
    /\ Watch

----------------------------------------------------------------------------
(* clear *)

\* clear empties one shard under its lock, then moves to the next one.
ClearShard(t, s) ==
    /\ Free(s)
    /\ \/ Idle(t) /\ s = 0
       \/ pc[t] = "clear" /\ op[t].shard = s
    /\ data' = [k \in Keys |-> IF ShardOf[k] = s THEN Nil ELSE data[k]]
    /\ lru' = [lru EXCEPT ![s] = <<>>]
    /\ used' = [used EXCEPT ![s] = <<>>]
    /\ shardMem' = [shardMem EXCEPT ![s] = 0]
    /\ pc' = [pc EXCEPT ![t] = IF s + 1 < NumShards THEN "clear" ELSE "clear_totals"]
    /\ op' = [op EXCEPT ![t] = [shard |-> s + 1]]
    /\ UNCHANGED <<totalMem, totalEntries, now, holder>>
    /\ Watch

\* With no lock held, the two totals are stored as zero.
ClearTotals(t) ==
    /\ pc[t] = "clear_totals"
    /\ totalMem' = 0
    /\ totalEntries' = 0
    /\ pc' = [pc EXCEPT ![t] = "idle"]
    /\ op' = [op EXCEPT ![t] = Nil]
    /\ UNCHANGED <<data, lru, used, shardMem, now, holder>>
    /\ Watch

----------------------------------------------------------------------------
(* for_each *)

\* What the walk of thread t has passed to fn so far.
Reported(t) == IF pc[t] = "for_each" THEN op[t].seen ELSE {}

\* Faulty variant: a shard whose lock is taken is passed over.
ForEachShardSkipsBusy(t, s) ==
    /\ \/ Idle(t) /\ s = 0
       \/ pc[t] = "for_each" /\ op[t].shard = s
    /\ pc' = [pc EXCEPT ![t] = "for_each"]
    /\ op' = [op EXCEPT ![t] =
                [shard |-> s + 1,
                 seen |-> Reported(t) \cup (IF Free(s) THEN VisibleIn(s) ELSE {})]]
    /\ UNCHANGED <<data, lru, used, shardMem, totalMem, totalEntries, now, holder>>
    /\ Watch

\* One turn of the loop over shards_: under the shared lock of the shard,
\* fn is called with every entry of it that has not expired.
ForEachShard(t, s) ==
    /\ Free(s)
    /\ \/ Idle(t) /\ s = 0
       \/ pc[t] = "for_each" /\ op[t].shard = s
    /\ pc' = [pc EXCEPT ![t] = "for_each"]
    /\ op' = [op EXCEPT ![t] =
                [shard |-> s + 1, seen |-> Reported(t) \cup VisibleIn(s)]]
    /\ UNCHANGED <<data, lru, used, shardMem, totalMem, totalEntries, now, holder>>
    /\ Watch

\* The loop is over and for_each returns; the caller has what fn collected.
ForEachReturn(t) ==
    /\ pc[t] = "for_each" /\ op[t].shard = NumShards
    /\ pc' = [pc EXCEPT ![t] = "idle"]
    /\ op' = [op EXCEPT ![t] = Nil]
    /\ UNCHANGED <<data, lru, used, shardMem, totalMem, totalEntries, now, holder>>
    /\ Watch

----------------------------------------------------------------------------
\* The clock moves; entries expire by themselves.
Tick ==
    /\ now < MaxTime
    /\ now' = now + 1
    /\ UNCHANGED <<data, lru, shardMem, totalMem, totalEntries, holder, pc, op, used>>
    /\ Watch

\* The entries a caller of the table may pass to set.  The caller builds the
\* entry before it calls, so the clock of its expiry is that of an earlier
\* moment; recovery and the replication service store the version they were
\* sent.
Inputs ==
    {[CacheEntry(v, ttl, created) EXCEPT !.version = n] :
        v \in Values, ttl \in TTLs, created \in 0 .. now, n \in 1 .. MaxVersion}

Call(t) ==
    \/ \E k \in Keys :
         \/ GetMiss(t, k) \/ GetFound(t, k)
         \/ DelAbsent(t, k) \/ DelPresent(t, k)
         \/ Exists(t, k)
         \/ \E e \in Inputs :
              \/ SetUpdate(t, k, e) \/ SetInsert(t, k, e) \/ SetEvictBegin(t, k, e)
              \/ \E x \in 0 .. MaxVersion : CasSwap(t, k, x, e)
         \/ \E x \in 0 .. MaxVersion : CasFail(t, k, x)
    \/ GetTouch(t)
    \/ EvictOne(t)
    \/ SetAfterEvict(t)

Clear(t) ==
    \/ \E s \in Shards : ClearShard(t, s)
    \/ ClearTotals(t)

ForEach(t) ==
    \/ \E s \in Shards : ForEachShard(t, s)
    \/ ForEachReturn(t)

Next ==
    \/ Tick
    \/ \E t \in Threads : Call(t) \/ Clear(t) \/ ForEach(t)

Spec == Init /\ [][Next]_<<vars, steady>>

\* The thread inside evict_if_needed holds the exclusive lock of its shard
\* and waits for nothing: the turns of the loop and the insert after it are
\* steps it takes by itself.  Nothing is assumed of a thread that waits for
\* a lock (std::shared_mutex promises no order among its waiters).
FairSpec ==
    Spec /\ \A t \in Threads : WF_<<vars, steady>>(EvictOne(t) \/ SetAfterEvict(t))

----------------------------------------------------------------------------
TypeOK ==
    /\ data \in [Keys -> Entry \cup {Nil}]
    /\ lru \in [Shards -> BoundedSeq(Keys, Cardinality(Keys))]
    /\ used \in [Shards -> BoundedSeq(Keys, Cardinality(Keys))]
    /\ shardMem \in [Shards -> 0 .. SizeMod - 1]
    /\ totalMem \in 0 .. SizeMod - 1
    /\ totalEntries \in 0 .. SizeMod - 1
    /\ now \in 0 .. MaxTime
    /\ holder \in [Shards -> Threads \cup {Nil}]
    /\ pc \in [Threads -> {"idle", "get_upgrade", "evict", "clear", "clear_totals",
                           "for_each"}]
    /\ \A t \in Threads :
         /\ pc[t] = "idle" => op[t] = Nil
         /\ pc[t] = "get_upgrade" => op[t] \in [key : Keys]
         /\ pc[t] = "evict" => op[t] \in [key : Keys, entry : Entry]
         /\ pc[t] \in {"clear", "clear_totals"} => op[t] \in [shard : 0 .. NumShards]
         /\ pc[t] = "for_each" => op[t] \in [shard : 1 .. NumShards, seen : SUBSET Keys]
         /\ (\E s \in Shards : holder[s] = t) => pc[t] = "evict"
    /\ steady \in [Threads -> SUBSET Keys]

PresentIn(s) == {k \in KeysOf(s) : Present(k)}

\* The list of a shard holds the keys of its map, each once.  set, del,
\* compare_and_swap, the eviction loop and clear keep list and map together
\* (the list nodes are addressed by iterators stored in the map, so a key in
\* one and not in the other is a dangling iterator).
LruMatchesData ==
    \A s \in Shards :
        /\ ToSet(lru[s]) = PresentIn(s)
        /\ Len(lru[s]) = Cardinality(PresentIn(s))

\* While no thread is inside clear, the byte and entry counters equal what
\* the maps hold: every fetch_add and fetch_sub of set, del, compare_and_swap
\* and evict_if_needed, and the stores of clear, leave the totals matching
\* the entries they account for.
AccountingExact ==
    (\A t \in Threads : pc[t] \notin {"clear", "clear_totals"}) =>
        /\ \A s \in Shards : shardMem[s] = MapThenSumSet(LAMBDA k : TotalSize(data[k]), PresentIn(s))
        /\ totalMem = MapThenSumSet(LAMBDA k : TotalSize(data[k]), UNION {PresentIn(s) : s \in Shards})
        /\ totalEntries = Cardinality(UNION {PresentIn(s) : s \in Shards})

\* A call other than clear moves the two global totals by exactly what it
\* puts into and takes out of the maps, whatever the totals were, also while
\* another thread is inside clear and on the other shard: the fetch_add and
\* fetch_sub of set, del, compare_and_swap and evict_if_needed never add to
\* the error the race of clear has left in the totals (modulo the width of
\* the counters, since the totals may be below what the maps hold).
TotalsFollowTheMaps ==
    [][(~\E t \in Threads : Clear(t)) =>
          LET held == UNION {PresentIn(s) : s \in Shards}
              bytes == MapThenSumSet(LAMBDA k : TotalSize(data[k]), held)
              held_after == {k \in Keys : data'[k] # Nil}
              bytes_after == MapThenSumSet(LAMBDA k : TotalSize(data'[k]), held_after)
          IN  /\ SubW(totalMem', bytes_after % SizeMod) = SubW(totalMem, bytes % SizeMod)
              /\ SubW(totalEntries', Cardinality(held_after))
                     = SubW(totalEntries, Cardinality(held))]_vars

\* evict_if_needed removes the least recently used key of its shard: when a
\* key is evicted, every other key of the shard was read by get or written by
\* set or compare_and_swap after the victim's last use.
EvictsLeastRecentlyUsed ==
    [][\A t \in Threads, k \in Keys :
          ( /\ pc[t] = "evict" /\ ShardOf[op[t].key] = ShardOf[k]
            /\ Present(k) /\ data'[k] = Nil )
              => k = Last(used[ShardOf[k]])]_vars

\* A set that has entered the eviction loop returns and gives the lock of
\* its shard back, also while the threads of the other shards keep the
\* global total above the cap: every turn shortens the list of the shard,
\* and the loop ends with the list when the total does not come down.
EvictionLoopEnds ==
    \A t \in Threads : pc[t] = "evict" ~> pc[t] = "idle"

\* for_each passes to fn every entry that is in the table, unexpired and
\* unchanged, from the first lock of the walk to its return, whatever set,
\* del, compare_and_swap, the eviction loop and clear of other threads do
\* to the shards before and behind the walk: a snapshot, a migration scan
\* and a catch-up stream miss only what a writer touched or the clock
\* expired meanwhile.
ForEachSeesWhatStays ==
    \A t \in Threads :
        pc[t] = "for_each" =>
            \A k \in steady[t] : ShardOf[k] < op[t].shard => k \in op[t].seen
=============================================================================
