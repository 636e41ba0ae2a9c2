--------------------------- MODULE CacheContract ---------------------------
(***************************************************************************)
(* What the cache service promises a client, with the engine's shards,     *)
(* locks, lists and counters abstracted away: one map from keys to a       *)
(* value and a version, on which every call takes effect at one instant.   *)
(* Entries may leave the map by themselves (expiry, eviction).             *)
(*                                                                         *)
(* The contract is the one the handlers of main.cpp keep: a Set stores     *)
(* version 1 whatever was there, and a Delete of a key that is no longer   *)
(* visible may report either outcome.                                      *)
(***************************************************************************)
EXTENDS Integers

CONSTANTS Keys, Values, MaxVersion, Nil

VARIABLES
    store,   \* the visible entry of every key, or Nil
    reply    \* the last reply sent to a client

cvars == <<store, reply>>

Visible == [value : Values, version : 1 .. MaxVersion]

Statuses == {"RESOURCE_EXHAUSTED", "UNAUTHENTICATED", "PERMISSION_DENIED",
             "INVALID_ARGUMENT"}

GetReply(k, e) ==
    IF e = Nil
      THEN [op |-> "Get", key |-> k, found |-> FALSE]
      ELSE [op |-> "Get", key |-> k, found |-> TRUE,
            value |-> e.value, version |-> e.version]

SetReply(k) == [op |-> "Set", key |-> k, success |-> TRUE, version |-> 1]

DeleteReply(k, ok) == [op |-> "Delete", key |-> k, success |-> ok]

CasReply(k, ok, new, actual) ==
    [op |-> "CompareAndSwap", key |-> k, success |-> ok,
     new_version |-> new, actual_version |-> actual]

HealthReply == [op |-> "HealthCheck", status |-> "SERVING"]

Refusal(status) == [op |-> "refused", status |-> status]

Replies ==
    {GetReply(k, e) : k \in Keys, e \in Visible \cup {Nil}}
      \cup {SetReply(k) : k \in Keys}
      \cup {DeleteReply(k, ok) : k \in Keys, ok \in BOOLEAN}
      \cup {CasReply(k, TRUE, n, 0) : k \in Keys, n \in 2 .. MaxVersion}
      \cup {CasReply(k, FALSE, 0, n) : k \in Keys, n \in 0 .. MaxVersion}
      \cup {HealthReply}
      \cup {Refusal(s) : s \in Statuses}

Init ==
    /\ store = [k \in Keys |-> Nil]
    /\ reply = HealthReply

Get(k) ==
    /\ reply' = GetReply(k, store[k])
    /\ UNCHANGED store

\* The entry of a Set may have run out of its ttl by the time it is stored.
Put(k, v) ==
    /\ \E e \in {[value |-> v, version |-> 1], Nil} :
         store' = [store EXCEPT ![k] = e]
    /\ reply' = SetReply(k)

Delete(k) ==
    /\ store' = [store EXCEPT ![k] = Nil]
    /\ \E ok \in BOOLEAN :
         /\ store[k] # Nil => ok
         /\ reply' = DeleteReply(k, ok)

CasApplies(k, expected) == store[k] # Nil /\ store[k].version = expected

\* Like the entry of a Set, the new entry may have run out of its ttl by the
\* time it is swapped in: the reply still names the new version.
Swap(k, expected, v) ==
    /\ CasApplies(k, expected)
    /\ \E e \in {[value |-> v, version |-> expected + 1], Nil} :
         store' = [store EXCEPT ![k] = e]
    /\ reply' = CasReply(k, TRUE, expected + 1, 0)

SwapRefused(k, expected) ==
    /\ ~CasApplies(k, expected)
    /\ reply' = CasReply(k, FALSE, 0, IF store[k] = Nil THEN 0 ELSE store[k].version)
    /\ UNCHANGED store

\* Entries expire or are evicted: they leave the map, nothing is told.
Lose(gone) ==
    /\ store' = [k \in Keys |-> IF k \in gone THEN Nil ELSE store[k]]
    /\ UNCHANGED reply

\* A call that is turned away, or a health check, leaves the map alone.
Answer(r) ==
    /\ reply' = r
    /\ UNCHANGED store

Next ==
    \/ \E k \in Keys :
         \/ Get(k) \/ Delete(k)
         \/ \E v \in Values : Put(k, v)
         \/ \E x \in 0 .. MaxVersion :
              \/ SwapRefused(k, x)
              \/ \E v \in Values : Swap(k, x, v)
    \/ \E gone \in SUBSET Keys : Lose(gone)
    \/ \E r \in {HealthReply} \cup {Refusal(s) : s \in Statuses} : Answer(r)

Spec == Init /\ [][Next]_cvars

=============================================================================
