-------------------------------- MODULE Wal --------------------------------
(***************************************************************************)
(* WAL (src/persistence/wal.cpp): the write-ahead log of one node, the     *)
(* directory of log files it writes, and the crash of the process.         *)
(*                                                                         *)
(* Every public method but RotateLog takes mutex_ for its whole body, so a *)
(* call is one action.  What a call leaves in the ofstream's buffer is not *)
(* in the file until a flush; a crash drops the buffer and the members of  *)
(* the object, and keeps the directory.  A file removed while the stream   *)
(* is open on it stays writable, and what is written to it is gone.        *)
(*                                                                         *)
(* Sizes are counted in records: a header is HeaderSize, a record is 1.    *)
(* A log id is the millisecond clock at the time the file is opened.       *)
(***************************************************************************)
EXTENDS Integers, Sequences, FiniteSets, SequencesExt

CONSTANTS
    Payloads,      \* what a record carries (kind, key, value, version, ttl)
    MaxFileSize,   \* config_.max_file_size_bytes
    MaxLogFiles,   \* config_.max_log_files
    SyncOnWrite,   \* config_.sync_on_write
    OpenMayFail,   \* whether opening a log file can fail
    MaxClock,      \* bound: the clock stops at MaxClock
    MaxSeq,        \* bound: appends of one run of the process
    MaxCrashes,    \* bound: crashes of the process
    Nil

VARIABLES
    dir,           \* wal_dir: [LogIds -> sequence of records, or Nil]
    stream,        \* log_file_: Nil, or the file it is open on and its buffer
    isOpen,        \* is_open_
    currentLogId,  \* current_log_id_
    fileSize,      \* current_file_size_
    lastSeq,       \* last_sequence_
    clock,         \* system_clock, in milliseconds
    hung,          \* a thread waits for mutex_ while it holds it
    run,           \* history: how often the process has started
    acked,         \* history: records whose append returned true
    synced,        \* history: records appended before a Sync that returned true
    released,      \* history: records of files that the log deleted
    orphaned       \* history: records flushed into a file that was removed

wvars == <<dir, stream, isOpen, currentLogId, fileSize, lastSeq, clock, hung,
           run, acked, synced, released, orphaned>>

LogIds == 0 .. MaxClock

HeaderSize == 1

\* A record as ReadWALFile returns it; run tells the histories apart and is
\* not in the file.
Record == [seq : 1 .. MaxSeq, payload : Payloads, run : 0 .. MaxCrashes]

OpenOutcomes == IF OpenMayFail THEN BOOLEAN ELSE {TRUE}

----------------------------------------------------------------------------
ListWALFiles == {id \in LogIds : dir[id] # Nil}

ReadWALFile(id) == dir[id]

RecordsIn(ids) == UNION {ToSet(dir[id]) : id \in ids}

ShouldRotate == fileSize >= MaxFileSize

\* Faulty variant: the buffer is not written out.
FlushedNothing(st, d) == d

\* ofstream::flush: the buffer reaches the file the stream is open on.
Flushed(st, d) ==
    IF st # Nil /\ st.linked THEN [d EXCEPT ![st.id] = @ \o st.buf] ELSE d

\* What a flush writes into a file that is no longer in the directory.
Lost(st) == IF st # Nil /\ ~st.linked THEN ToSet(st.buf) ELSE {}

\* ofstream(path, app): the file is created when it is not there.
Created(d, id) == IF d[id] = Nil THEN [d EXCEPT ![id] = <<>>] ELSE d

\* The first n of a sorted list of file ids.
Oldest(ids, n) == {id \in ids : Cardinality({j \in ids : j < id}) < n}

\* Retention at the end of RotateLog.
OverRetention(d) ==
    LET ids == {id \in LogIds : d[id] # Nil}
    IN IF Cardinality(ids) > MaxLogFiles
         THEN Oldest(ids, Cardinality(ids) - MaxLogFiles)
         ELSE {}

RemoveFiles(d, ids) == [id \in LogIds |-> IF id \in ids THEN Nil ELSE d[id]]

MaxSeqOf(id) == Max({r.seq : r \in ToSet(ReadWALFile(id))} \cup {0})

\* Faulty variant: a rotation that cannot open its file leaves is_open_ set.
RotateLogStaysOpen(ok) ==
    LET opened == Created(Flushed(stream, dir), clock)
    IN IF ok
         THEN [dir |-> RemoveFiles(opened, OverRetention(opened)),
               stream |-> [id |-> clock, linked |-> clock \notin OverRetention(opened),
                           buf |-> <<>>],
               isOpen |-> TRUE, fileSize |-> HeaderSize,
               released |-> released \cup UNION {ToSet(opened[id]) : id \in OverRetention(opened)}]
         ELSE [dir |-> Flushed(stream, dir), stream |-> Nil, isOpen |-> TRUE,
               fileSize |-> fileSize, released |-> released]

\* Faulty variant: a rotation that cannot open its file closes the old one
\* without the flush.
RotateLogDropsBuffer(ok) ==
    IF ok THEN RotateLogStaysOpen(ok)
    ELSE [dir |-> dir, stream |-> Nil, isOpen |-> FALSE,
          fileSize |-> fileSize, released |-> released]

\* RotateLog, as the state it leaves: the old file flushed and closed, a file
\* named after the clock opened for append, a header written, the oldest
\* files over the retention removed.
RotateLog(ok) ==
    LET closed == Flushed(stream, dir)
        opened == Created(closed, clock)
        doomed == OverRetention(opened)
    IN IF ok
         THEN [dir |-> RemoveFiles(opened, doomed),
               stream |-> [id |-> clock, linked |-> clock \notin doomed, buf |-> <<>>],
               isOpen |-> TRUE, fileSize |-> HeaderSize,
               released |-> released \cup UNION {ToSet(opened[id]) : id \in doomed}]
         ELSE [dir |-> closed, stream |-> Nil, isOpen |-> FALSE,
               fileSize |-> fileSize, released |-> released]

\* The state in which AppendEntry writes: after a rotation when one is due.
BeforeWrite(ok) ==
    IF ShouldRotate
      THEN RotateLog(ok)
      ELSE [dir |-> dir, stream |-> stream, isOpen |-> TRUE,
            fileSize |-> fileSize, released |-> released]

----------------------------------------------------------------------------
Init ==
    /\ dir = [id \in LogIds |-> Nil]
    /\ stream = Nil
    /\ isOpen = FALSE
    /\ currentLogId = Nil
    /\ fileSize = 0
    /\ lastSeq = 0
    /\ clock = 0
    /\ hung = FALSE
    /\ run = 0
    /\ acked = {}
    /\ synced = {}
    /\ released = {}
    /\ orphaned = {}

Open(ok) ==
    /\ ~hung
    /\ IF isOpen
         THEN UNCHANGED <<dir, stream, isOpen, currentLogId, fileSize>>
         ELSE /\ currentLogId' = clock
              /\ IF ok
                   THEN /\ dir' = Created(dir, clock)
                        /\ stream' = [id |-> clock, linked |-> TRUE, buf |-> <<>>]
                        /\ fileSize' = HeaderSize + Len(dir'[clock])
                        /\ isOpen' = TRUE
                   ELSE /\ stream' = Nil
                        /\ UNCHANGED <<dir, fileSize, isOpen>>
    /\ UNCHANGED <<lastSeq, clock, hung, run, acked, synced, released, orphaned>>

Close ==
    /\ ~hung
    /\ IF isOpen
         THEN /\ dir' = Flushed(stream, dir)
              /\ orphaned' = orphaned \cup Lost(stream)
              /\ stream' = Nil
              /\ isOpen' = FALSE
         ELSE UNCHANGED <<dir, stream, isOpen, orphaned>>
    /\ UNCHANGED <<currentLogId, fileSize, lastSeq, clock, hung, run, acked,
                   synced, released>>

\* AppendSet, AppendDelete and AppendCAS fill a record and call AppendEntry.
\* The sequence number is taken first; with sync_on_write the call ends in
\* Sync, which locks mutex_ again and never returns.
AppendEntry(p, ok) ==
    LET rec == [seq |-> lastSeq + 1, payload |-> p, run |-> run]
        at == BeforeWrite(ok)
    IN /\ ~hung
       /\ lastSeq < MaxSeq
       /\ IF ~isOpen
            THEN UNCHANGED wvars
            ELSE /\ lastSeq' = lastSeq + 1
                 /\ dir' = at.dir
                 /\ isOpen' = at.isOpen
                 /\ released' = at.released
                 /\ orphaned' = orphaned \cup (IF ShouldRotate THEN Lost(stream) ELSE {})
                 /\ currentLogId' = IF ShouldRotate THEN clock ELSE currentLogId
                 /\ IF at.stream = Nil
                      THEN /\ stream' = Nil
                           /\ fileSize' = at.fileSize
                           /\ UNCHANGED <<hung, acked>>
                      ELSE /\ stream' = [at.stream EXCEPT !.buf = Append(@, rec)]
                           /\ fileSize' = at.fileSize + 1
                           /\ hung' = SyncOnWrite
                           /\ acked' = IF SyncOnWrite THEN acked ELSE acked \cup {rec}
                 /\ UNCHANGED <<clock, run, synced>>

Sync ==
    /\ ~hung
    /\ IF stream = Nil
         THEN UNCHANGED <<dir, stream, synced, orphaned>>
         ELSE /\ dir' = Flushed(stream, dir)
              /\ orphaned' = orphaned \cup Lost(stream)
              /\ stream' = [stream EXCEPT !.buf = <<>>]
              /\ synced' = synced \cup {r \in acked : r.run = run}
    /\ UNCHANGED <<isOpen, currentLogId, fileSize, lastSeq, clock, hung, run,
                   acked, released>>

\* The stream writes the front of a full buffer out by itself.
BufferSpill(n) ==
    /\ stream # Nil
    /\ n \in 1 .. Len(stream.buf)
    /\ dir' = Flushed([stream EXCEPT !.buf = SubSeq(@, 1, n)], dir)
    /\ orphaned' = orphaned \cup Lost([stream EXCEPT !.buf = SubSeq(@, 1, n)])
    /\ stream' = [stream EXCEPT !.buf = SubSeq(@, n + 1, Len(@))]
    /\ UNCHANGED <<isOpen, currentLogId, fileSize, lastSeq, clock, hung, run,
                   acked, synced, released>>

\* The files that hold nothing at or after a sequence number, judged by
\* what has reached them.
Stale(sequence) == {id \in ListWALFiles : MaxSeqOf(id) < sequence}

Unlink(ids) ==
    /\ dir' = RemoveFiles(dir, ids)
    /\ released' = released \cup RecordsIn(ids)
    /\ stream' = IF stream # Nil /\ stream.id \in ids
                   THEN [stream EXCEPT !.linked = FALSE]
                   ELSE stream

TruncateBeforeSequence(sequence) ==
    /\ ~hung
    /\ Unlink(Stale(sequence))
    /\ UNCHANGED <<isOpen, currentLogId, fileSize, lastSeq, clock, hung, run,
                   acked, synced, orphaned>>

DeleteAllLogs ==
    /\ ~hung
    /\ Unlink(ListWALFiles)
    /\ UNCHANGED <<isOpen, currentLogId, fileSize, lastSeq, clock, hung, run,
                   acked, synced, orphaned>>

\* The process dies and starts again, later: a new WAL object, the same
\* directory.
Crash ==
    /\ run < MaxCrashes
    /\ clock < MaxClock
    /\ run' = run + 1
    /\ clock' = clock + 1
    /\ stream' = Nil
    /\ isOpen' = FALSE
    /\ currentLogId' = Nil
    /\ fileSize' = 0
    /\ lastSeq' = 0
    /\ hung' = FALSE
    /\ UNCHANGED <<dir, acked, synced, released, orphaned>>

Tick ==
    /\ clock < MaxClock
    /\ clock' = clock + 1
    /\ UNCHANGED <<dir, stream, isOpen, currentLogId, fileSize, lastSeq, hung,
                   run, acked, synced, released, orphaned>>

Next ==
    \/ \E ok \in OpenOutcomes : Open(ok)
    \/ Close
    \/ \E p \in Payloads, ok \in OpenOutcomes : AppendEntry(p, ok)
    \/ Sync
    \/ \E n \in 1 .. MaxSeq : BufferSpill(n)
    \/ \E s \in 1 .. MaxSeq + 1 : TruncateBeforeSequence(s)
    \/ DeleteAllLogs
    \/ Crash
    \/ Tick

Spec == Init /\ [][Next]_wvars

----------------------------------------------------------------------------
OnDisk == RecordsIn(ListWALFiles)

TypeOK ==
    /\ \A id \in LogIds : dir[id] = Nil \/ dir[id] \in Seq(Record)
    /\ stream = Nil \/ stream \in [id : LogIds, linked : BOOLEAN, buf : Seq(Record)]
    /\ isOpen \in BOOLEAN
    /\ isOpen => stream # Nil
    /\ currentLogId \in LogIds \cup {Nil}
    /\ fileSize \in 0 .. HeaderSize + MaxSeq * (MaxCrashes + 1)
    /\ lastSeq \in 0 .. MaxSeq
    /\ clock \in LogIds
    /\ hung \in BOOLEAN
    /\ run \in 0 .. MaxCrashes
    /\ acked \subseteq Record
    /\ synced \subseteq acked
    /\ released \subseteq Record
    /\ orphaned \subseteq Record

\* Once Sync has returned, no record appended before it sits in a buffer
\* that a crash discards: it is in a file of the directory, or in a file
\* that retention or truncation deleted, or it was written into a file that
\* had been removed under the open stream.
SyncedLeftTheBuffer ==
    synced \subseteq OnDisk \cup released \cup orphaned

\* What the stream still holds.
Buffered == IF stream = Nil THEN {} ELSE ToSet(stream.buf)

\* While the process lives, a record whose append returned true is not
\* dropped by the log itself: it is in the buffer or it is where a flush put
\* it, also after a rotation that could not open its new file (RotateLog
\* flushes and closes the old file before it fails, and AppendEntry then
\* refuses), after Close and Open on the same file, and after the stream
\* spilled a part of its buffer.
AcknowledgedOutliveRotation ==
    {r \in acked : r.run = run}
        \subseteq Buffered \cup OnDisk \cup released \cup orphaned
=============================================================================
