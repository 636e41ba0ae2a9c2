------------------------------ MODULE Recovery ------------------------------
(***************************************************************************)
(* The persistence of one node: the write-ahead log (module Wal), the      *)
(* SnapshotManager (src/cluster/snapshot_manager.cpp) with its worker      *)
(* thread, and the RecoveryManager (src/persistence/recovery_manager.cpp)  *)
(* that rebuilds the engine after a restart.                               *)
(*                                                                         *)
(* The engine is its map from keys to values: recovery and snapshots call  *)
(* only set, del and for_each.  The repository has no code that logs a     *)
(* mutation before it applies it, nor a snapshot callback; Log, Commit and *)
(* WorkerCallback follow the specification's description of them.          *)
(***************************************************************************)
EXTENDS Wal

CONSTANTS
    Keys,
    Values,
    MaxSnapshots   \* config_.max_snapshots_retained

ASSUME Payloads \subseteq [type : {"SET", "DELETE", "CAS"}, key : Keys,
                           value : Values \cup {Nil}]

VARIABLES
    mem,        \* storage_: [Keys -> Values or Nil]
    recovered,  \* recovery_complete_
    snapshots,  \* snapshots_: the metadata of the snapshots taken by this process
    snapDir,    \* snapshot_dir: [LogIds -> the map a snapshot file holds, or Nil]
    running,    \* running_
    wpc,        \* where the worker thread is in its round
    snapHung,   \* a thread waits for snapshots_mutex_ while it holds it
    pending,    \* the mutation that is logged and not yet applied
    durable,    \* history: the maps that hold what was acknowledged before the last crash
    cut         \* history: the highest sequence number a callback declared covered

rvars == <<mem, recovered, snapshots, snapDir, running, wpc, snapHung, pending,
           durable, cut>>

allvars == <<wvars, rvars>>

Store == [Keys -> Values \cup {Nil}]

Empty == [k \in Keys |-> Nil]

Metadata == [id : LogIds, timestamp : LogIds]

----------------------------------------------------------------------------
\* What a mutation that succeeded has done to the engine: a SET or a CAS
\* has stored its value, a DELETE has removed the key.
Applied(m, p) ==
    IF p.type = "DELETE" THEN [m EXCEPT ![p.key] = Nil]
    ELSE [m EXCEPT ![p.key] = p.value]

\* Faulty variant: a CAS record is not applied.
ApplyWALEntrySkipsCAS(m, p) ==
    IF p.type = "CAS" THEN m
    ELSE [m EXCEPT ![p.key] = IF p.type = "DELETE" THEN Nil ELSE p.value]

\* ApplyWALEntry: SET and CAS store the value, DELETE removes the key.
ApplyWALEntry(m, p) ==
    [m EXCEPT ![p.key] = IF p.type = "DELETE" THEN Nil ELSE p.value]

\* std::sort leaves entries with equal sequence numbers in any order.
OrdersOf(group) == SetToSeqs(group)

\* The maps that applying the entries numbered s and above can leave.
RECURSIVE ReplayFrom(_, _, _)
ReplayFrom(ms, entries, s) ==
    IF s > MaxSeq
      THEN ms
      ELSE ReplayFrom({FoldLeft(LAMBDA m, r : ApplyWALEntry(m, r.payload), m0, o) :
                         m0 \in ms, o \in OrdersOf({r \in entries : r.seq = s})},
                      entries, s + 1)

\* ReplayWAL: the entries of every file with a sequence number above
\* snapshot_sequence, sorted by sequence number, applied in that order.
ReplayWAL(m, snapshot_sequence) ==
    ReplayFrom({m}, {r \in RecordsIn(ListWALFiles) : r.seq > snapshot_sequence}, 1)

\* The metadata that sorting by timestamp, newest first, can put in front.
Latest == {s \in ToSet(snapshots) : \A o \in ToSet(snapshots) : o.timestamp <= s.timestamp}

\* RestoreFromSnapshot: every entry of the file is set; a key the file does
\* not have stays as it is.  Without the file nothing is restored.
RestoreFromSnapshot(m, id) ==
    IF snapDir[id] = Nil
      THEN m
      ELSE [k \in Keys |-> IF snapDir[id][k] # Nil THEN snapDir[id][k] ELSE m[k]]

\* RestoreSnapshot: the newest snapshot this process knows of, if any.
RestoreSnapshot(m) ==
    IF snapshots = <<>> THEN {m} ELSE {RestoreFromSnapshot(m, s.id) : s \in Latest}

\* Faulty variant: retention removes the files of the n newest snapshots.
PrunedNewest(n) ==
    [id \in LogIds |-> IF \E i \in Len(snapshots) - n + 1 .. Len(snapshots) : snapshots[i].id = id
                         THEN Nil ELSE snapDir[id]]

\* The files PruneOldSnapshots removes: those of the n oldest metadata.
Pruned(n) ==
    [id \in LogIds |-> IF \E i \in 1 .. n : snapshots[i].id = id THEN Nil ELSE snapDir[id]]

----------------------------------------------------------------------------
RecoveryInit ==
    /\ Init
    /\ mem = Empty
    /\ recovered = FALSE
    /\ snapshots = <<>>
    /\ snapDir = [id \in LogIds |-> Nil]
    /\ running = FALSE
    /\ wpc = "sleep"
    /\ snapHung = FALSE
    /\ pending = Nil
    /\ durable = {Empty}
    /\ cut = 0

\* Recover, which the node calls before it serves (nothing in Recover keeps
\* it from running again): the snapshot, then the log.  snapshot_sequence is
\* 0 whether or not a snapshot was restored.
Recover ==
    /\ ~isOpen
    /\ ~snapHung
    /\ \E m \in RestoreSnapshot(mem) : mem' \in ReplayWAL(m, 0)
    /\ recovered' = TRUE
    /\ UNCHANGED <<snapshots, snapDir, running, wpc, snapHung, pending, durable, cut>>
    /\ UNCHANGED wvars

\* The node opens its log when recovery is complete.
Serve ==
    /\ recovered
    /\ ~isOpen
    /\ Open(TRUE)
    /\ UNCHANGED rvars

\* A mutation is appended to the log ...
Log(p) ==
    /\ recovered
    /\ isOpen
    /\ pending = Nil
    /\ AppendEntry(p, TRUE)
    /\ pending' = p
    /\ UNCHANGED <<mem, recovered, snapshots, snapDir, running, wpc, snapHung,
                   durable, cut>>

\* ... and, once Sync has returned, applied to the engine and acknowledged.
Commit ==
    /\ pending # Nil
    /\ Sync
    /\ mem' = Applied(mem, pending)
    /\ pending' = Nil
    /\ UNCHANGED <<recovered, snapshots, snapDir, running, wpc, snapHung,
                   durable, cut>>

Spill ==
    /\ BufferSpill(1)
    /\ UNCHANGED rvars

Start ==
    /\ ~running
    /\ running' = TRUE
    /\ UNCHANGED <<mem, recovered, snapshots, snapDir, wpc, snapHung, pending,
                   durable, cut>>
    /\ UNCHANGED wvars

\* Stop returns when the worker thread has left its round and is joined.
Stop ==
    /\ running
    /\ wpc = "sleep"
    /\ running' = FALSE
    /\ UNCHANGED <<mem, recovered, snapshots, snapDir, wpc, snapHung, pending,
                   durable, cut>>
    /\ UNCHANGED wvars

\* CreateSnapshot up to the callback: the entries for_each visits, written
\* to a temporary file that is renamed to <id>.snapshot, the metadata pushed
\* to snapshots_.  The id and the timestamp are the clock; the worker has
\* slept since its last snapshot.
WorkerCreate ==
    /\ running
    /\ wpc = "sleep"
    /\ ~snapHung
    /\ \A i \in DOMAIN snapshots : snapshots[i].timestamp < clock
    /\ snapDir' = [snapDir EXCEPT ![clock] = mem]
    /\ snapshots' = Append(snapshots, [id |-> clock, timestamp |-> clock])
    /\ wpc' = "callback"
    /\ UNCHANGED <<mem, recovered, running, snapHung, pending, durable, cut>>
    /\ UNCHANGED wvars

\* CreateSnapshot when WriteSnapshotToFile fails: no file, no metadata, no
\* callback; the worker goes on to prune.
WorkerCreateFails ==
    /\ running
    /\ wpc = "sleep"
    /\ wpc' = "prune"
    /\ UNCHANGED <<mem, recovered, snapshots, snapDir, running, snapHung, pending,
                   durable, cut>>
    /\ UNCHANGED wvars

\* The callback tells the log that the snapshot covers what was appended.
WorkerCallback ==
    /\ wpc = "callback"
    /\ TruncateBeforeSequence(lastSeq)
    /\ cut' = Max({cut, lastSeq})
    /\ wpc' = "prune"
    /\ UNCHANGED <<mem, recovered, snapshots, snapDir, running, snapHung,
                   pending, durable>>

\* PruneOldSnapshots, which the worker calls after every snapshot.
WorkerPrune ==
    /\ wpc = "prune"
    /\ ~snapHung
    /\ LET n == Len(snapshots) - MaxSnapshots
       IN IF n <= 0
            THEN UNCHANGED <<snapshots, snapDir>>
            ELSE /\ snapDir' = Pruned(n)
                 /\ snapshots' = SubSeq(snapshots, n + 1, Len(snapshots))
    /\ wpc' = "sleep"
    /\ UNCHANGED <<mem, recovered, running, snapHung, pending, durable, cut>>
    /\ UNCHANGED wvars

\* RestoreFromLatest locks snapshots_mutex_ and calls RestoreFromSnapshot,
\* whose GetSnapshotMetadata locks it again.
RestoreFromLatest ==
    /\ ~snapHung
    /\ snapHung' = (snapshots # <<>>)
    /\ UNCHANGED <<mem, recovered, snapshots, snapDir, running, wpc, pending,
                   durable, cut>>
    /\ UNCHANGED wvars

\* The process dies and starts again: the directories stay, the objects are
\* new.  What a node that served had applied is what it had acknowledged.
Restart ==
    /\ Crash
    /\ durable' = IF ~recovered THEN durable
                  ELSE IF pending = Nil THEN {mem}
                  ELSE {mem, Applied(mem, pending)}
    /\ mem' = Empty
    /\ recovered' = FALSE
    /\ snapshots' = <<>>
    /\ running' = FALSE
    /\ wpc' = "sleep"
    /\ snapHung' = FALSE
    /\ pending' = Nil
    /\ UNCHANGED <<snapDir, cut>>

Pass ==
    /\ Tick
    /\ UNCHANGED rvars

RecoveryNext ==
    \/ Recover
    \/ Serve
    \/ \E p \in Payloads : Log(p)
    \/ Commit
    \/ Spill
    \/ Start
    \/ Stop
    \/ WorkerCreate
    \/ WorkerCreateFails
    \/ WorkerCallback
    \/ WorkerPrune
    \/ RestoreFromLatest
    \/ Restart
    \/ Pass

RecoverySpec == RecoveryInit /\ [][RecoveryNext]_allvars

----------------------------------------------------------------------------
RecoveryTypeOK ==
    /\ TypeOK
    /\ mem \in Store
    /\ recovered \in BOOLEAN
    /\ snapshots \in Seq(Metadata)
    /\ Len(snapshots) <= MaxSnapshots + 1
    /\ \A id \in LogIds : snapDir[id] = Nil \/ snapDir[id] \in Store
    /\ \A i \in DOMAIN snapshots : snapDir[snapshots[i].id] # Nil
    /\ running \in BOOLEAN
    /\ wpc \in {"sleep", "callback", "prune"}
    /\ snapHung \in BOOLEAN
    /\ pending \in Payloads \cup {Nil}
    /\ durable \subseteq Store
    /\ cut \in 0 .. MaxSeq

\* The node has recovered and has not yet taken a mutation.
JustRecovered == recovered /\ lastSeq = 0

\* Recovery after the first crash rebuilds the engine as the acknowledged
\* mutations left it (with or without the one that was in flight), as long
\* as every log file is still there: ReplayWAL reads the files in order of
\* their names and applies the records by sequence number.
FirstRecoveryRestores ==
    (JustRecovered /\ run <= 1 /\ released = {} /\ orphaned = {}) => mem \in durable

\* The same after any number of restarts: recovery orders the replay by
\* sequence number (ReplayWAL's std::sort), which the specification takes
\* to be unique on a node.
EveryRecoveryRestores ==
    (JustRecovered /\ released = {} /\ orphaned = {}) => mem \in durable
=============================================================================
