--------------------------- MODULE VersionVector ---------------------------
(***************************************************************************)
(* version_vector.h: the version vector of a cache entry (a map from node  *)
(* id to the last version seen from that node), its comparison, merge and  *)
(* increment, and ConflictResolver, which picks one of two entries.        *)
(*                                                                         *)
(* The functions are operators on values.  No code of the node calls them  *)
(* yet, so the replicas below use them the way the design describes an     *)
(* entry: a write on a node increments that node's component, an exchange  *)
(* between two nodes keeps the entry ResolveConflict picks and merges the  *)
(* two vectors.  The history of writes an entry has seen is kept beside it *)
(* as the reference the vector is compared with.                           *)
(***************************************************************************)
EXTENDS Integers, FiniteSets, FiniteSetsExt, TLC

CONSTANTS
    Nodes,       \* node ids
    Strategies,  \* the strategies callers pass to ResolveConflict
    MaxVersion,  \* bound: writes of one node
    MaxTime,     \* bound: the clock stops at MaxTime
    Nil          \* no entry

VARIABLES
    entry,   \* the entry of the key on every node, or Nil
    now,     \* get_current_time_ms
    seen     \* history: the writes the entry of a node has seen

vars == <<entry, now, seen>>

ComparisonResult == {"EQUAL", "LESS", "GREATER", "CONCURRENT"}

ConflictResolutionStrategy == {"LAST_WRITE_WINS", "VECTOR_DOMINANCE", "CUSTOM"}

\* A map holds the nodes something was seen from: a node may be absent.
VersionVectors == UNION {[D -> 1 .. MaxVersion] : D \in SUBSET Nodes}

\* A write is named by its node and that node's count of writes.
Writes == Nodes \X (1 .. MaxVersion)

\* What ResolveConflict reads of a CacheEntry, and the value.
Entry == [value : Writes, version : 1 .. Cardinality(Writes),
          modified_at_ms : 0 .. MaxTime, version_vector : VersionVectors]

----------------------------------------------------------------------------
(* namespace version_vector *)

GetVersion(vv, node_id) == IF node_id \in DOMAIN vv THEN vv[node_id] ELSE 0

\* Faulty variant: only the nodes of v1 are compared.
CompareOverFirst(v1, v2) ==
    LET v1_dominates == \E n \in DOMAIN v1 : v1[n] > GetVersion(v2, n)
        v2_dominates == \E n \in DOMAIN v1 : GetVersion(v2, n) > v1[n]
    IN  CASE v1_dominates /\ v2_dominates -> "CONCURRENT"
          [] v1_dominates /\ ~v2_dominates -> "GREATER"
          [] v2_dominates /\ ~v1_dominates -> "LESS"
          [] OTHER -> "EQUAL"

\* The loop over the nodes of both maps, an absent node counting as 0; the
\* return from inside the loop is the case of both flags set.
Compare(v1, v2) ==
    LET all_nodes == DOMAIN v1 \cup DOMAIN v2
        v1_dominates == \E n \in all_nodes : GetVersion(v1, n) > GetVersion(v2, n)
        v2_dominates == \E n \in all_nodes : GetVersion(v2, n) > GetVersion(v1, n)
    IN  CASE v1_dominates /\ v2_dominates -> "CONCURRENT"
          [] v1_dominates /\ ~v2_dominates -> "GREATER"
          [] v2_dominates /\ ~v1_dominates -> "LESS"
          [] OTHER -> "EQUAL"

\* v1, with every node of v2 added or raised to the larger version.
Merge(v1, v2) ==
    [n \in DOMAIN v1 \cup DOMAIN v2 |->
        Max({v[n] : v \in {w \in {v1, v2} : n \in DOMAIN w}})]

\* Faulty variant: a node that was absent enters the map at 0.
IncrementFromZero(vv, node_id) ==
    IF node_id \in DOMAIN vv THEN [vv EXCEPT ![node_id] = @ + 1]
                             ELSE (node_id :> 0) @@ vv

\* The map after Increment; the function returns the new version of node_id.
Increment(vv, node_id) == (node_id :> GetVersion(vv, node_id) + 1) @@ vv

Dominates(v1, v2) == Compare(v1, v2) = "GREATER"

AreConcurrent(v1, v2) == Compare(v1, v2) = "CONCURRENT"

----------------------------------------------------------------------------
(* class ConflictResolver *)

Newer(entry1, entry2) == entry1.modified_at_ms > entry2.modified_at_ms

\* Faulty variant: the entry whose vector is dominated wins.
ResolveConflictInverted(entry1, entry2, strategy) ==
    IF strategy = "VECTOR_DOMINANCE"
          /\ Compare(entry1.version_vector, entry2.version_vector) = "LESS"
      THEN 0 ELSE 1

\* The index of the winner: 0 for entry1, 1 for entry2.
ResolveConflict(entry1, entry2, strategy) ==
    CASE strategy = "LAST_WRITE_WINS" ->
           CASE Newer(entry1, entry2) -> 0
             [] Newer(entry2, entry1) -> 1
             [] OTHER -> IF entry1.version >= entry2.version THEN 0 ELSE 1
      [] strategy = "VECTOR_DOMINANCE" ->
           LET result == Compare(entry1.version_vector, entry2.version_vector)
           IN  CASE result = "GREATER" -> 0
                 [] result = "LESS" -> 1
                 [] OTHER -> IF entry1.modified_at_ms >= entry2.modified_at_ms THEN 0 ELSE 1
      [] OTHER -> 0

MergeVersionVectors(v1, v2) == Merge(v1, v2)

----------------------------------------------------------------------------
(* The replicas *)

Init ==
    /\ entry = [n \in Nodes |-> Nil]
    /\ now = 0
    /\ seen = [n \in Nodes |-> {}]

VectorOf(n) == IF entry[n] = Nil THEN <<>> ELSE entry[n].version_vector

\* A client writes the key on node n: the entry gets a new value, the next
\* version and the time of the write, and n's component is incremented.
Write(n) ==
    LET vv == Increment(VectorOf(n), n)
        w  == <<n, vv[n]>>
    IN  /\ GetVersion(VectorOf(n), n) < MaxVersion
        /\ entry' = [entry EXCEPT ![n] =
                        [value |-> w,
                         version |-> IF entry[n] = Nil THEN 1 ELSE entry[n].version + 1,
                         modified_at_ms |-> now,
                         version_vector |-> vv]]
        /\ seen' = [seen EXCEPT ![n] = @ \cup {w}]
        /\ UNCHANGED now

\* Node n receives the entry of node m and keeps the winner, with the merge
\* of the two vectors.
Exchange(n, m, strategy) ==
    /\ n # m
    /\ entry[m] # Nil
    /\ entry' = [entry EXCEPT ![n] =
          IF entry[n] = Nil THEN entry[m]
          ELSE LET winner == IF ResolveConflict(entry[n], entry[m], strategy) = 0
                               THEN entry[n] ELSE entry[m]
               IN  [winner EXCEPT !.version_vector =
                       MergeVersionVectors(entry[n].version_vector,
                                           entry[m].version_vector)]]
    /\ seen' = [seen EXCEPT ![n] = @ \cup seen[m]]
    /\ UNCHANGED now

Tick ==
    /\ now < MaxTime
    /\ now' = now + 1
    /\ UNCHANGED <<entry, seen>>

Next ==
    \/ \E n \in Nodes : Write(n)
    \/ \E n, m \in Nodes, s \in Strategies : Exchange(n, m, s)
    \/ Tick

Spec == Init /\ [][Next]_vars

----------------------------------------------------------------------------
TypeOK ==
    /\ entry \in [Nodes -> Entry \cup {Nil}]
    /\ now \in 0 .. MaxTime
    /\ seen \in [Nodes -> SUBSET Writes]

\* The causal order of two histories of writes.
Causal(h1, h2) ==
    CASE h1 = h2 -> "EQUAL"
      [] h1 \subseteq h2 -> "LESS"
      [] h2 \subseteq h1 -> "GREATER"
      [] OTHER -> "CONCURRENT"

\* Compare tells how the histories of two entries are related: LESS when
\* the second has seen every write the first has seen and one more, GREATER
\* the other way round, CONCURRENT when each has seen a write the other has
\* not.  This is what Increment and Merge must keep true of the maps they
\* build, nodes absent from a map included.
CompareIsTheCausalOrder ==
    \A a, b \in Nodes :
        Compare(VectorOf(a), VectorOf(b)) = Causal(seen[a], seen[b])

\* With VECTOR_DOMINANCE, ResolveConflict never gives up an entry for one
\* whose history it already contains: of two entries of which one has seen
\* every write of the other and more, that one wins, whichever is passed
\* first.
CausallyLaterWins ==
    \A a, b \in Nodes :
        (entry[a] # Nil /\ entry[b] # Nil /\ seen[a] \subseteq seen[b] /\ seen[a] # seen[b])
            => /\ ResolveConflict(entry[a], entry[b], "VECTOR_DOMINANCE") = 1
               /\ ResolveConflict(entry[b], entry[a], "VECTOR_DOMINANCE") = 0
=============================================================================
