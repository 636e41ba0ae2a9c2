------------------------------ MODULE Security ------------------------------
(***************************************************************************)
(* What a request passes before a handler of the cache service touches the *)
(* table: the rate limiter (rate_limiter.cpp), the bearer token            *)
(* (auth_token.cpp, auth_manager.cpp) and the validation of its arguments  *)
(* (validator.cpp), in the order of the handlers of main.cpp.              *)
(*                                                                         *)
(* A bucket holds fractions of a token: the model counts in units, Scale   *)
(* units to the token, and a refill rate is a number of units per tick of  *)
(* the clock.  A token string is modelled decoded, as the parts between    *)
(* its colons followed by the HMAC, which is a symbol of its key and of    *)
(* the text it signs.  The ledgers are history: when a bucket was made and *)
(* how many requests it has let through since.                             *)
(***************************************************************************)
EXTENDS Integers, Sequences, FiniteSets, FiniteSetsExt, Functions, TLC

CONSTANTS
    Clients,          \* client ids (the peer address without the port)
    Users,            \* user ids token_gen is run with, as the parts between colons
    Validities,       \* --validity, in ticks
    Secret,           \* --auth-secret of the node
    OtherSecret,      \* a key that is not the node's
    EnableGlobal,     \* Config::enable_global
    EnablePerClient,  \* Config::enable_per_client
    GlobalCapacity,   \* Config::global_capacity, in tokens
    GlobalRefill,     \* Config::global_refill_rate, in units per tick
    ClientCapacity,   \* Config::client_capacity, in tokens
    ClientRefill,     \* Config::client_refill_rate, in units per tick
    MaxClients,       \* Config::max_clients
    CleanupInterval,  \* Config::cleanup_interval_seconds, in ticks
    Scale,            \* units per token
    MaxKeyLength,     \* Config::max_key_length
    MaxValueSize,     \* Config::max_value_size
    MaxTtl,           \* Config::max_ttl_seconds
    MaxIssued,        \* bound: tokens token_gen has issued
    MaxTime,          \* bound: the clock stops at MaxTime
    Nil

VARIABLES
    now,             \* the clock
    global_bucket,   \* global_bucket_, Nil when the global limit is off
    client_buckets,  \* client_buckets_
    last_access,     \* last_access_
    issued,          \* the tokens token_gen has printed, with what they grant
    global_ledger,   \* history of the global bucket
    client_ledger    \* history of the bucket of every client that has one

limiter == <<global_bucket, client_buckets, last_access>>
ledgers == <<global_ledger, client_ledger>>
vars == <<now, limiter, issued, ledgers>>

----------------------------------------------------------------------------
(* class TokenBucket *)

TokenBucket(capacity) == [tokens |-> capacity * Scale, last_refill |-> now]

\* Faulty variant: the time of the refill is not recorded.
refillKeepsStamp(b, capacity, rate) ==
    [b EXCEPT !.tokens = Min({capacity * Scale, @ + (now - b.last_refill) * rate})]

\* Faulty variant: the tokens are not capped at the capacity.
refillUncapped(b, capacity, rate) ==
    [tokens |-> b.tokens + (now - b.last_refill) * rate, last_refill |-> now]

refill(b, capacity, rate) ==
    [tokens |-> Min({capacity * Scale, b.tokens + (now - b.last_refill) * rate}),
     last_refill |-> now]

\* The answer of try_consume(1) and the bucket it leaves.
try_consume(b, capacity, rate) ==
    LET filled == refill(b, capacity, rate)
        ok == filled.tokens >= Scale
    IN  [ok |-> ok,
         bucket |-> IF ok THEN [filled EXCEPT !.tokens = @ - Scale] ELSE filled]

----------------------------------------------------------------------------
(* class RateLimiter *)

Tracked == DOMAIN client_buckets

NoClients == [c \in {} |-> Nil]

\* The clients cleanup_inactive_clients leaves in the two maps.
Active == {c \in DOMAIN last_access : ~(now - last_access[c] > CleanupInterval)}

\* The scan for the oldest access time keeps the first of the smallest it
\* meets, in the order of an unordered_map.
Oldest(among) == {c \in among : \A d \in among : last_access[c] <= last_access[d]}

\* Faulty variant: at the limit only the inactive clients are removed.
KeptOnlyCleaned(client_id) ==
    IF client_id \in Tracked \/ Cardinality(Tracked) < MaxClients
    THEN {Tracked} ELSE {Active}

\* get_or_create_bucket: the sets of clients that can be left in the maps
\* when the bucket of client_id is looked up (before its own is created).
Kept(client_id) ==
    IF client_id \in Tracked \/ Cardinality(Tracked) < MaxClients
    THEN {Tracked}
    ELSE IF Cardinality(Active) < MaxClients \/ Active = {}
         THEN {Active}
         ELSE {Active \ {c} : c \in Oldest(Active)}

\* The two maps after get_or_create_bucket(client_id) has kept `kept`.
get_or_create_bucket(client_id, kept) ==
    IF client_id \in Tracked
    THEN [buckets |-> client_buckets, access |-> last_access]
    ELSE [buckets |-> (client_id :> TokenBucket(ClientCapacity))
                         @@ Restrict(client_buckets, kept),
          access  |-> (client_id :> now) @@ Restrict(last_access, kept)]

\* allow_request(client_id): the answer, and the buckets and access times it
\* leaves.  A request the global bucket refuses does not reach the client's
\* bucket; one the client's bucket refuses has taken its global token.
allow_request(client_id, kept) ==
    LET global == IF EnableGlobal
                    THEN try_consume(global_bucket, GlobalCapacity, GlobalRefill)
                    ELSE [ok |-> TRUE, bucket |-> global_bucket]
        maps   == get_or_create_bucket(client_id, kept)
        client == try_consume(maps.buckets[client_id], ClientCapacity, ClientRefill)
    IN  IF ~global.ok \/ ~EnablePerClient
        THEN [allowed |-> global.ok, global |-> global.bucket,
              buckets |-> client_buckets, access |-> last_access]
        ELSE [allowed |-> client.ok, global |-> global.bucket,
              buckets |-> [maps.buckets EXCEPT ![client_id] = client.bucket],
              access  |-> IF client.ok THEN [maps.access EXCEPT ![client_id] = now]
                                       ELSE maps.access]

\* History: the ledgers after the same call.
Booked(client_id, after) ==
    LET passed == EnableGlobal
                    /\ try_consume(global_bucket, GlobalCapacity, GlobalRefill).ok
    IN  /\ global_ledger' = IF passed THEN [global_ledger EXCEPT !.used = @ + 1]
                                       ELSE global_ledger
        /\ client_ledger' =
              [c \in DOMAIN after.buckets |->
                  LET was == IF c \in Tracked THEN client_ledger[c]
                                              ELSE [born |-> now, used |-> 0]
                  IN  IF c = client_id /\ after.allowed
                      THEN [was EXCEPT !.used = @ + 1] ELSE was]

\* CHECK_RATE_LIMIT with the given answer.
Charged(client_id, kept, allowed) ==
    LET after == allow_request(client_id, kept)
    IN  /\ after.allowed = allowed
        /\ global_bucket' = after.global
        /\ client_buckets' = after.buckets
        /\ last_access' = after.access
        /\ Booked(client_id, after)

----------------------------------------------------------------------------
(* class TokenValidator *)

Roles == {"admin", "user", "readonly"}

Times == 0 .. MaxTime + Max(Validities)

\* operator<< of a timestamp, and std::stoll, which throws on other text.
to_string == [n \in Times |-> ToString(n)]

stoll == [s \in Range(to_string) |-> CHOOSE n \in Times : to_string[n] = s]

compute_signature(secret, data) == [key |-> secret, data |-> data]

\* The token generate builds: the payload user_id:role:issued:expires and
\* its signature.
generate(secret, user_id, role, validity) ==
    LET payload == user_id \o <<role, to_string[now], to_string[now + validity]>>
    IN  [fields |-> payload, mac |-> compute_signature(secret, payload)]

is_expired(token) == now > token.expires_at

\* Faulty variant: a token is accepted after it has expired.
validateIgnoresExpiry(t) ==
    IF /\ Len(t.fields) = 4
       /\ t.mac = compute_signature(Secret, t.fields)
       /\ {t.fields[3], t.fields[4]} \subseteq DOMAIN stoll
    THEN [user_id |-> t.fields[1], role |-> t.fields[2],
          issued_at |-> stoll[t.fields[3]], expires_at |-> stoll[t.fields[4]]]
    ELSE Nil

\* validate: the first four parts are the claims and what follows the
\* fourth colon is the signature, which must be the HMAC of the four under
\* the node's secret (a hex string: no text with a colon in it is one).
\* The AuthToken, or Nil for nullopt.
validate(t) ==
    LET token == [user_id |-> t.fields[1], role |-> t.fields[2],
                  issued_at |-> stoll[t.fields[3]],
                  expires_at |-> stoll[t.fields[4]]]
    IN  IF /\ Len(t.fields) = 4
           /\ t.mac = compute_signature(Secret, t.fields)
           /\ {t.fields[3], t.fields[4]} \subseteq DOMAIN stoll
           /\ ~is_expired(token)
        THEN token ELSE Nil

----------------------------------------------------------------------------
(* class AuthManager *)

Operation == {"READ", "WRITE", "ADMIN", "METRICS"}

\* The header is absent (Nil) or carries a token string.
authenticate(header) == IF header = Nil THEN Nil ELSE validate(header)

authorize(token, operation) ==
    CASE operation = "READ"    -> TRUE
      [] operation = "WRITE"   -> token.role \in {"admin", "user"}
      [] operation = "ADMIN"   -> token.role = "admin"
      [] operation = "METRICS" -> TRUE

----------------------------------------------------------------------------
(* class Validator, with the configuration main gives it *)

allow_empty_keys == FALSE
allow_empty_values == TRUE
min_ttl_seconds == 0

validate_key(key) ==
    /\ ~(key = 0 /\ ~allow_empty_keys)
    /\ ~(key > MaxKeyLength)

validate_value(value) ==
    /\ ~(value = 0 /\ ~allow_empty_values)
    /\ ~(value > MaxValueSize)

validate_ttl(ttl_seconds) ==
    /\ ~(ttl_seconds < min_ttl_seconds)
    /\ ~(ttl_seconds > MaxTtl)

validate_set_operation(key, value, ttl_seconds) ==
    /\ validate_key(key)
    /\ validate_value(value)
    /\ ttl_seconds # Nil => validate_ttl(ttl_seconds)

----------------------------------------------------------------------------
(* The handlers of CacheServiceImpl, up to the call of the table *)

Methods == {"Get", "Set", "Delete", "GetMetrics", "CompareAndSwap"}

\* The operation each handler passes to REQUIRE_AUTH.
OperationOf ==
    [Get |-> "READ", Set |-> "WRITE", Delete |-> "WRITE",
     GetMetrics |-> "METRICS", CompareAndSwap |-> "WRITE"]

\* The arguments of a request, as the lengths the validator looks at:
\* valid ones, and each limit missed by one.
Arguments ==
    [key : {0, 1, MaxKeyLength + 1}, value : {0, MaxValueSize + 1},
     ttl : {Nil, -1, 0, MaxTtl + 1}]

\* VALIDATE_OR_RETURN in the handler of the method.
Validated(method, a) ==
    CASE method \in {"Get", "Delete"} -> validate_key(a.key)
      [] method \in {"Set", "CompareAndSwap"} ->
             validate_set_operation(a.key, a.value, a.ttl)
      [] method = "GetMetrics" -> TRUE

\* REQUIRE_AUTH lets the request through.
Authorized(header, method) ==
    /\ authenticate(header) # Nil
    /\ authorize(authenticate(header), OperationOf[method])

\* What a holder of the token strings in `known` can send for one: the
\* string itself, the string with another role or a later expiry, and any
\* of these signed with a key of the sender's own.
Tampered(t) ==
    LET at_role == Len(t.fields) - 2
        claims == {t.fields}
                    \cup {[t.fields EXCEPT ![at_role] = r] : r \in Roles}
                    \cup {[t.fields EXCEPT ![at_role + 2] = x] : x \in Range(to_string)}
    IN  {[t EXCEPT !.fields = c] : c \in claims}
          \cup {[fields |-> c, mac |-> compute_signature(OtherSecret, c)] : c \in claims}

Headers == {Nil} \cup UNION {Tampered(g.token) : g \in issued}

----------------------------------------------------------------------------
Init ==
    /\ now = 0
    /\ global_bucket = IF EnableGlobal THEN TokenBucket(GlobalCapacity) ELSE Nil
    /\ client_buckets = NoClients
    /\ last_access = NoClients
    /\ issued = {}
    /\ global_ledger = [born |-> 0, used |-> 0]
    /\ client_ledger = NoClients

\* token_gen: a token for a user and one of the three roles.
Generate(user_id, role, validity) ==
    /\ Cardinality(issued) < MaxIssued
    /\ issued' = issued \cup
          {[user_id |-> user_id, role |-> role, expires_at |-> now + validity,
            token |-> generate(Secret, user_id, role, validity)]}
    /\ UNCHANGED <<now, limiter, ledgers>>

\* The handlers differ in the status they answer with, which is no state of
\* the node: each is the charge of the limiter, under the condition on what
\* the request carries that leads to its status.

\* RESOURCE_EXHAUSTED: the limiter refuses the request.
RateLimited(client_id, kept) ==
    /\ Charged(client_id, kept, FALSE)
    /\ UNCHANGED <<now, issued>>

\* UNAUTHENTICATED: no header, or a token validate does not accept.
Unauthenticated(client_id, kept) ==
    /\ \E header \in Headers : authenticate(header) = Nil
    /\ Charged(client_id, kept, TRUE)
    /\ UNCHANGED <<now, issued>>

\* PERMISSION_DENIED: the role of the token does not allow the operation.
PermissionDenied(client_id, kept) ==
    /\ \E header \in Headers, method \in Methods :
          /\ authenticate(header) # Nil
          /\ ~authorize(authenticate(header), OperationOf[method])
    /\ Charged(client_id, kept, TRUE)
    /\ UNCHANGED <<now, issued>>

\* INVALID_ARGUMENT: the validator rejects key, value or ttl.
InvalidArgument(client_id, kept) ==
    /\ \E header \in Headers, method \in Methods, a \in Arguments :
          Authorized(header, method) /\ ~Validated(method, a)
    /\ Charged(client_id, kept, TRUE)
    /\ UNCHANGED <<now, issued>>

\* The request reaches the table.
Served(client_id, kept) ==
    /\ \E header \in Headers, method \in Methods, a \in Arguments :
          Authorized(header, method) /\ Validated(method, a)
    /\ Charged(client_id, kept, TRUE)
    /\ UNCHANGED <<now, issued>>

\* HealthCheck answers SERVING without a check of any kind.
HealthCheck ==
    UNCHANGED vars

\* RateLimiter::clear, with TokenBucket::reset of the global bucket.
Clear ==
    /\ client_buckets' = NoClients
    /\ last_access' = NoClients
    /\ global_bucket' = IF global_bucket # Nil THEN TokenBucket(GlobalCapacity) ELSE Nil
    /\ global_ledger' = [born |-> now, used |-> 0]
    /\ client_ledger' = NoClients
    /\ UNCHANGED <<now, issued>>

\* cleanup_inactive_clients, called by itself.
CleanupInactiveClients ==
    /\ client_buckets' = Restrict(client_buckets, Active)
    /\ last_access' = Restrict(last_access, Active)
    /\ client_ledger' = Restrict(client_ledger, Active)
    /\ UNCHANGED <<now, global_bucket, issued, global_ledger>>

Tick ==
    /\ now < MaxTime
    /\ now' = now + 1
    /\ UNCHANGED <<limiter, issued, ledgers>>

Request(client_id) ==
    \E kept \in Kept(client_id) :
        \/ RateLimited(client_id, kept)
        \/ Unauthenticated(client_id, kept)
        \/ PermissionDenied(client_id, kept)
        \/ InvalidArgument(client_id, kept)
        \/ Served(client_id, kept)

Next ==
    \/ \E u \in Users, r \in Roles, v \in Validities : Generate(u, r, v)
    \/ \E c \in Clients : Request(c)
    \/ HealthCheck
    \/ Clear
    \/ CleanupInactiveClients
    \/ Tick

Spec == Init /\ [][Next]_vars

----------------------------------------------------------------------------
Bucket(capacity) == [tokens : 0 .. capacity * Scale, last_refill : 0 .. MaxTime]

Ledger == [born : 0 .. MaxTime, used : Nat]

Grant == [user_id : Users, role : Roles, expires_at : Times,
          token : [fields : Seq(STRING), mac : [key : {Secret}, data : Seq(STRING)]]]

TypeOK ==
    /\ now \in 0 .. MaxTime
    /\ global_bucket \in IF EnableGlobal THEN Bucket(GlobalCapacity) ELSE {Nil}
    /\ Tracked \subseteq Clients
    /\ client_buckets \in [Tracked -> Bucket(ClientCapacity)]
    /\ last_access \in [DOMAIN last_access -> 0 .. MaxTime]
    /\ issued \subseteq Grant
    /\ global_ledger \in Ledger
    /\ client_ledger \in [Tracked -> Ledger]

\* What a bucket of the given capacity and rate may have let through since
\* it was made.
WithinRate(ledger, capacity, rate) ==
    ledger.used * Scale <= capacity * Scale + rate * (now - ledger.born)

\* No bucket lets through more than a burst of its capacity and its refill
\* rate for the time it has existed, however the requests, the refills of
\* try_consume and the ticks of the clock fall: refill adds the time since
\* the last refill once, and never fills past the capacity.
BucketsHoldTheRate ==
    /\ EnableGlobal => WithinRate(global_ledger, GlobalCapacity, GlobalRefill)
    /\ \A c \in Tracked : WithinRate(client_ledger[c], ClientCapacity, ClientRefill)

\* The limiter never tracks more than max_clients clients, and the two maps
\* hold the same clients: at the limit get_or_create_bucket removes the
\* inactive clients, and the one with the oldest access when none is.
ClientTableBounded ==
    /\ Cardinality(Tracked) <= MaxClients
    /\ DOMAIN last_access = Tracked

\* The authorization matrix of AuthManager.
Permits ==
    [admin    |-> {"READ", "WRITE", "ADMIN", "METRICS"},
     user     |-> {"READ", "WRITE", "METRICS"},
     readonly |-> {"READ", "METRICS"}]

\* REQUIRE_AUTH lets a request through exactly when its header is a token
\* token_gen has issued under the node's secret, not yet expired, for a role
\* the matrix allows the operation of the method to.  No altered token and
\* no token signed with another key passes, and a token issued for a user id
\* with a colon in it is not accepted as anything, least of all as the role
\* its second part spells (validate splits the text at the colons again).
AdmitsExactlyTheGrants ==
    \A header \in Headers, method \in Methods :
        Authorized(header, method) <=>
            \E g \in issued :
                /\ header = g.token
                /\ Len(g.user_id) = 1
                /\ now <= g.expires_at
                /\ OperationOf[method] \in Permits[g.role]
=============================================================================
