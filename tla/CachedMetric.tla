---------------------------- MODULE CachedMetric ----------------------------
(***************************************************************************)
(* The REST requests of the API server that read the database              *)
(* (src/src/backend/services, api, repositories): the gas metric and the   *)
(* trending tokens, cached in Redis for a minute and guarded by            *)
(* double-checked locking, and every other query, which is neither.  They  *)
(* meet in three places: the asyncio locks, the Redis keys and the         *)
(* connection pool.  Every await is a step of its own.                     *)
(*                                                                         *)
(* The trending and plain requests get a connection before their handler   *)
(* runs (Depends(get_db)) and keep it to the end; the gas request holds    *)
(* the pool (Depends(get_pool)) and borrows a connection for each query.   *)
(*                                                                         *)
(* The database is a version number: a query returns the version it reads. *)
(***************************************************************************)
EXTENDS Integers, FiniteSets

CONSTANTS
    Request,        \* requests; each is one call of its endpoint
    Kind,           \* "gas", "trending" or "plain", for each request
    Key,            \* the cache key of each request
    PoolSize,       \* DB_POOL_MAX_CONN
    MaxVersion      \* bound of the model: writes to the database

ASSUME CacheAssumption ==
    /\ IsFiniteSet(Request)
    /\ Kind \in [Request -> {"gas", "trending", "plain"}]
    /\ \A r, s \in Request : Key[r] = Key[s] => Kind[r] = Kind[s]
    /\ PoolSize \in Nat \ {0}
    /\ MaxVersion \in Nat

VARIABLES
    redis,      \* the keys Redis can hold: none when it was not there at start-up
    cache,      \* the version Redis holds under a key, None when there is none
    version,    \* the version of the database
    pc,         \* where each request stands
    value,      \* the version a request is about to answer with
    locked,     \* requests that hold the lock of their kind
    conns,      \* requests that hold a connection of the pool
    floor       \* history: the newest version answered for the same key before
                \* the request arrived

vars == <<redis, cache, version, pc, value, locked, conns, floor>>

None == -1
Keys == {Key[r] : r \in Request}

Answered == {"ok", "error"}

TypeOK ==
    /\ redis \in {{}, Keys}
    /\ cache \in [Keys -> None..version] /\ \A k \in Keys \ redis : cache[k] = None
    /\ version \in 0..MaxVersion
    /\ pc \in [Request -> {"new", "acquire", "check", "lock", "recheck", "query",
                           "fallback", "store", "ok", "error"}]
    /\ value \in [Request -> None..version]
    /\ floor \in [Request -> None..version]
    /\ locked \subseteq Request
    /\ \A r, s \in locked : Kind[r] = Kind[s] => r = s
    /\ conns \subseteq Request /\ Cardinality(conns) <= PoolSize

Init ==
    /\ redis \in {{}, Keys}
    /\ cache = [k \in Keys |-> None]
    /\ version = 0
    /\ pc = [r \in Request |-> "new"]
    /\ value = [r \in Request |-> None]
    /\ locked = {}
    /\ conns = {}
    /\ floor = [r \in Request |-> None]

-----------------------------------------------------------------------------
Goto(r, l) == pc' = [pc EXCEPT ![r] = l]

(* The request is over: its lock and its connection are given back.        *)
Leave(r, outcome, v) ==
    /\ Goto(r, outcome)
    /\ value' = [value EXCEPT ![r] = v]
    /\ locked' = locked \ {r}
    /\ conns' = conns \ {r}

(* Redis, the query or the conversion of its result raises: the service    *)
(* makes it a DatabaseFetchError, the handler of that a status 500.        *)
Fail(r) ==
    /\ pc[r] \notin {"new", "acquire", "lock"} \cup Answered
    /\ Leave(r, "error", None)
    /\ UNCHANGED <<redis, cache, version, floor>>

Newest(k) ==
    LET known == {value[s] : s \in {s \in Request : Key[s] = k /\ pc[s] = "ok"}} \cup {None}
    IN  CHOOSE v \in known : \A w \in known : w <= v

Arrive(r) ==
    /\ pc[r] = "new"
    /\ Goto(r, IF Kind[r] = "gas" THEN "check" ELSE "acquire")
    /\ floor' = [floor EXCEPT ![r] = Newest(Key[r])]
    /\ UNCHANGED <<redis, cache, version, value, locked, conns>>

(* get_db: pool.acquire() waits without a limit.                           *)
Acquire(r) ==
    /\ pc[r] = "acquire" /\ Cardinality(conns) < PoolSize
    /\ conns' = conns \cup {r}
    /\ Goto(r, IF Kind[r] = "plain" THEN "query" ELSE "check")
    /\ UNCHANGED <<redis, cache, version, value, locked, floor>>

(* redis.get: on a hit the request is over.                                *)
Look(r, at, miss) ==
    /\ pc[r] = at
    /\ IF cache[Key[r]] # None
       THEN Leave(r, "ok", cache[Key[r]])
       ELSE Goto(r, miss) /\ UNCHANGED <<value, locked, conns>>
    /\ UNCHANGED <<redis, cache, version, floor>>

Check(r) == Look(r, "check", "lock")

(* Mutant: every service instance makes a lock of its own.                 *)
TakeOwnLock(r) ==
    /\ pc[r] = "lock"
    /\ locked' = locked \cup {r}
    /\ Goto(r, "recheck")
    /\ UNCHANGED <<redis, cache, version, value, conns, floor>>

(* _gas_metrics_lock, or TokenService._trending_lock, whatever the key.    *)
TakeLock(r) ==
    /\ pc[r] = "lock" /\ \A s \in locked : Kind[s] # Kind[r]
    /\ locked' = locked \cup {r}
    /\ Goto(r, "recheck")
    /\ UNCHANGED <<redis, cache, version, value, conns, floor>>

(* Mutant: the cache is not looked at again under the lock.                *)
RecheckNothing(r) ==
    /\ pc[r] = "recheck" /\ Goto(r, "query")
    /\ UNCHANGED <<redis, cache, version, value, locked, conns, floor>>

Recheck(r) == Look(r, "recheck", "query")

(* Mutant: trending tokens ask the pool for a second connection.           *)
MayQueryTwice(r) == Cardinality(conns) < PoolSize

(* A repository on a connection may query at once, one on the pool has to  *)
(* wait for a free connection (held for that query only).                  *)
MayQuery(r) == r \in conns \/ Cardinality(conns) < PoolSize

(* Mutant: the lock is given back before the result is stored.             *)
UseUnlocked(r, v) ==
    IF Kind[r] = "plain"
    THEN Leave(r, "ok", v)
    ELSE /\ Goto(r, "store") /\ value' = [value EXCEPT ![r] = v]
         /\ locked' = locked \ {r}
         /\ UNCHANGED conns

(* After its query a request stores the result, a plain one answers.       *)
Use(r, v) ==
    IF Kind[r] = "plain"
    THEN Leave(r, "ok", v)
    ELSE /\ Goto(r, "store") /\ value' = [value EXCEPT ![r] = v]
         /\ UNCHANGED <<locked, conns>>

Query(r) ==
    /\ pc[r] = "query" /\ MayQuery(r)
    /\ Use(r, version)
    /\ UNCHANGED <<redis, cache, version, floor>>

(* No transaction in the last five minutes: a second query fetches the     *)
(* last known price.                                                       *)
QueryEmpty(r) ==
    /\ pc[r] = "query" /\ Kind[r] = "gas" /\ MayQuery(r)
    /\ Goto(r, "fallback")
    /\ UNCHANGED <<redis, cache, version, value, locked, conns, floor>>

Fallback(r) ==
    /\ pc[r] = "fallback" /\ MayQuery(r)
    /\ Use(r, version)
    /\ UNCHANGED <<redis, cache, version, floor>>

(* redis.set with a life of sixty seconds, if there is a Redis.            *)
Store(r) ==
    /\ pc[r] = "store"
    /\ cache' = IF Key[r] \in redis THEN [cache EXCEPT ![Key[r]] = value[r]] ELSE cache
    /\ Leave(r, "ok", value[r])
    /\ UNCHANGED <<redis, version, floor>>

-----------------------------------------------------------------------------
(* Redis drops an entry at the end of its life, or when it restarts.       *)
Expire(k) ==
    /\ cache[k] # None
    /\ cache' = [cache EXCEPT ![k] = None]
    /\ UNCHANGED <<redis, version, pc, value, locked, conns, floor>>

(* The consumer writes.                                                    *)
Write ==
    /\ version < MaxVersion /\ version' = version + 1
    /\ UNCHANGED <<redis, cache, pc, value, locked, conns, floor>>

Advance(r) ==
    \/ Acquire(r) \/ Check(r) \/ TakeLock(r) \/ Recheck(r)
    \/ Query(r) \/ QueryEmpty(r) \/ Fallback(r) \/ Store(r)

Next ==
    \/ \E r \in Request : Arrive(r) \/ Advance(r) \/ Fail(r)
    \/ \E k \in Keys : Expire(k)
    \/ Write

(* A request that may go on does; Redis and the database answer or raise.  *)
Spec == Init /\ [][Next]_vars /\ \A r \in Request : WF_vars(Advance(r))

-----------------------------------------------------------------------------
(* Double-checked locking: whoever is about to run the heavy query, or has *)
(* run it and not yet stored its result, does so for a key that is not in  *)
(* the cache.  No request repeats a query whose result is there, however   *)
(* requests, expiries and failures interleave.                             *)
NoStampede ==
    \A r \in Request :
        Kind[r] # "plain" /\ pc[r] \in {"query", "fallback", "store"} => cache[Key[r]] = None

(* Time does not run backwards for a client: a request answers with a      *)
(* version no older than any answered for the same key before it arrived,  *)
(* although an answer may come from the cache or from the database.        *)
MonotoneAnswers == \A r \in Request : pc[r] = "ok" => value[r] >= floor[r]

(* However many requests wait for a lock with a connection in their hands, *)
(* every request that arrives is answered, and in the end the pool has all *)
(* its connections and the locks are free.                                 *)
EveryRequestAnswered ==
    <>[](/\ \A r \in Request : pc[r] \in {"new"} \cup Answered
         /\ conns = {} /\ locked = {})
=============================================================================
