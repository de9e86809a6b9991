-------------------------- MODULE CachedMetricProofs --------------------------
(* Theorems about CachedMetric, for every number of requests, keys and     *)
(* connections.                                                            *)
EXTENDS CachedMetric, FiniteSetTheorems, TLAPS

(* A nonempty set of versions has a newest: the order on the distances     *)
(* from the upper bound is well founded.                                   *)
LEMMA NewestExists ==
    ASSUME NEW n \in Nat, NEW T \in SUBSET (None..n), T # {}
    PROVE  \E v \in T : \A w \in T : w <= v
<1>. DEFINE R == {ss \in Nat \X Nat : ss[1] < ss[2]}
            D == {n - v : v \in T}
<1>1. IsWellFoundedOn(R, Nat)
  BY NatLessThanWellFounded DEF OpToRel
<1>2. D \subseteq Nat /\ D # {}
  <2>1. \A v \in T : n - v \in Nat
    BY DEF None
  <2>. QED  BY <2>1
<1>3. PICK x \in D : \A y \in D : ~(<<y, x>> \in R)
  <2>. HIDE DEF D, R
  <2>. QED  BY <1>1, <1>2, WFMin
<1>4. PICK v \in T : x = n - v
  BY <1>3
<1>5. ASSUME NEW w \in T PROVE w <= v
  <2>1. n - w \in D /\ n - w \in Nat /\ x \in Nat
    BY <1>2, <1>3
  <2>2. ~(n - w < x)
    BY <1>3, <2>1
  <2>. QED  BY <1>4, <2>2 DEF None
<1>. QED  BY <1>5

(* The answer a client may have seen last is None or one that was given.   *)
LEMMA NewestIsAnswered ==
    ASSUME TypeOK, NEW k \in Keys
    PROVE  \/ Newest(k) = None
           \/ \E s \in Request : Key[s] = k /\ pc[s] = "ok" /\ value[s] = Newest(k)
<1>. DEFINE known == {value[s] : s \in {s \in Request : Key[s] = k /\ pc[s] = "ok"}} \cup {None}
<1>1. known \in SUBSET (None..version) /\ known # {} /\ version \in Nat
  BY DEF TypeOK, None
<1>2. \E v \in known : \A w \in known : w <= v
  <2>. HIDE DEF known
  <2>. QED  BY <1>1, NewestExists
<1>3. Newest(k) \in known
  BY <1>2 DEF Newest
<1>. QED  BY <1>3

-----------------------------------------------------------------------------
(* The inductive invariant.                                                *)

(* Who is past the lock has it.                                            *)
LockHeld ==
    \A r \in Request :
        Kind[r] # "plain" /\ pc[r] \in {"recheck", "query", "fallback", "store"} => r \in locked

(* Only the two metrics have to do with the cache.                         *)
CacheIsOfMetrics ==
    \A r \in Request :
        /\ pc[r] \in {"check", "lock", "recheck", "fallback", "store"} => Kind[r] # "plain"
        /\ cache[Key[r]] # None => Kind[r] # "plain"

(* What the cache holds, or is about to hold, is no older than any answer  *)
(* given for its key.                                                      *)
NewestInCache ==
    \A r, s \in Request :
        pc[s] = "ok" /\ Key[r] = Key[s] =>
            /\ cache[Key[r]] # None => value[s] <= cache[Key[r]]
            /\ pc[r] = "store" => value[s] <= value[r]

(* A floor is an answer that was given.                                    *)
FloorWasAnswered ==
    \A r \in Request :
        \/ floor[r] = None
        \/ \E s \in Request : Key[s] = Key[r] /\ pc[s] = "ok" /\ value[s] = floor[r]

IInv ==
    /\ TypeOK /\ LockHeld /\ CacheIsOfMetrics /\ NewestInCache /\ FloorWasAnswered
    /\ NoStampede /\ MonotoneAnswers

-----------------------------------------------------------------------------
(* Initially no request has begun.                                         *)
LEMMA InvInit == Init => IInv
<1>. SUFFICES ASSUME Init PROVE IInv
  OBVIOUS
<1>1. TypeOK
  BY CacheAssumption, FS_EmptySet DEF Init, TypeOK, Keys, None
<1>. QED
  BY <1>1 DEF Init, IInv, LockHeld, CacheIsOfMetrics, NewestInCache, FloorWasAnswered,
              NoStampede, MonotoneAnswers, Keys

(* The pool's bound is kept by those who return a connection, and by those *)
(* who take one when there is one.                                         *)
LEMMA PoolBound ==
    ASSUME TypeOK, NEW r \in Request
    PROVE  /\ Cardinality(conns \ {r}) <= PoolSize
           /\ Cardinality(conns) < PoolSize => Cardinality(conns \cup {r}) <= PoolSize
<1>1. IsFiniteSet(conns) /\ Cardinality(conns) \in Nat /\ Cardinality(conns) <= PoolSize
  BY CacheAssumption, FS_Subset, FS_CardinalityType DEF TypeOK
<1>2. Cardinality(conns \ {r}) \in {Cardinality(conns), Cardinality(conns) - 1}
  BY <1>1, FS_RemoveElement
<1>3. Cardinality(conns \cup {r}) \in {Cardinality(conns), Cardinality(conns) + 1}
  BY <1>1, FS_AddElement
<1>. QED
  BY <1>1, <1>2, <1>3, CacheAssumption

-----------------------------------------------------------------------------
(* Every step keeps the types.                                             *)
LEMMA TypeStep == TypeOK /\ [Next]_vars => TypeOK'
<1>. SUFFICES ASSUME TypeOK, [Next]_vars PROVE TypeOK'
  OBVIOUS
<1>. USE CacheAssumption
<1>. DEFINE Version == None..version
<1>0. None \in Version /\ version \in Version /\ version \in Nat
  BY DEF TypeOK, None
<1>1. ASSUME NEW r \in Request, Arrive(r) PROVE TypeOK'
  <2>1. Key[r] \in Keys
    BY DEF Keys
  <2>2. Newest(Key[r]) \in Version
    BY <1>0, <2>1, NewestIsAnswered DEF TypeOK
  <2>. QED  BY <1>1, <2>2 DEF Arrive, Goto, TypeOK
<1>2. ASSUME NEW r \in Request, NEW l, NEW v \in Version, Leave(r, l, v),
             l \in Answered, UNCHANGED <<redis, version, floor>>,
             cache' = cache \/ (Key[r] \in redis /\ cache' = [cache EXCEPT ![Key[r]] = v])
      PROVE  TypeOK'
  <2>1. Cardinality(conns') <= PoolSize
    BY <1>2, PoolBound DEF Leave
  <2>2. cache' \in [Keys -> Version] /\ \A k \in Keys \ redis : cache'[k] = None
    BY <1>2 DEF TypeOK
  <2>. QED  BY <1>2, <2>1, <2>2 DEF Leave, Goto, TypeOK, Answered
<1>3. ASSUME NEW r \in Request, Fail(r) PROVE TypeOK'
  BY <1>0, <1>2, <1>3 DEF Fail, Answered
<1>4. ASSUME NEW r \in Request, Acquire(r) PROVE TypeOK'
  BY <1>4, PoolBound DEF Acquire, Goto, TypeOK
<1>5. ASSUME NEW r \in Request, Check(r) \/ Recheck(r) PROVE TypeOK'
  <2>1. Key[r] \in Keys /\ cache[Key[r]] \in Version
    BY DEF Keys, TypeOK
  <2>2. CASE cache[Key[r]] # None
    BY <1>2, <1>5, <2>1, <2>2 DEF Check, Recheck, Look, Answered
  <2>3. CASE cache[Key[r]] = None
    BY <1>5, <2>3 DEF Check, Recheck, Look, Goto, TypeOK
  <2>. QED  BY <2>2, <2>3
<1>6. ASSUME NEW r \in Request, TakeLock(r) PROVE TypeOK'
  BY <1>6 DEF TakeLock, Goto, TypeOK
<1>7. ASSUME NEW r \in Request, Query(r) \/ Fallback(r) PROVE TypeOK'
  <2>1. CASE Kind[r] = "plain"
    BY <1>0, <1>2, <1>7, <2>1 DEF Query, Fallback, Use, Answered
  <2>2. CASE Kind[r] # "plain"
    BY <1>0, <1>7, <2>2 DEF Query, Fallback, Use, Goto, TypeOK
  <2>. QED  BY <2>1, <2>2
<1>8. ASSUME NEW r \in Request, QueryEmpty(r) PROVE TypeOK'
  BY <1>8 DEF QueryEmpty, Goto, TypeOK
<1>9. ASSUME NEW r \in Request, Store(r) PROVE TypeOK'
  <2>1. value[r] \in Version
    BY DEF TypeOK
  <2>. QED  BY <1>2, <1>9, <2>1 DEF Store, Answered
<1>10. ASSUME NEW k \in Keys, Expire(k) PROVE TypeOK'
  BY <1>0, <1>10 DEF Expire, TypeOK
<1>11. CASE Write
  BY <1>0, <1>11 DEF Write, TypeOK
<1>12. CASE UNCHANGED vars
  BY <1>12 DEF vars, TypeOK
<1>. QED
  BY <1>1, <1>3, <1>4, <1>5, <1>6, <1>7, <1>8, <1>9, <1>10, <1>11, <1>12
  DEF Next, Advance

-----------------------------------------------------------------------------
(* What a step does to the answers, the cache and the locks: the lemmas up *)
(* to HIDE go through the disjuncts of Next, so every action is expanded   *)
(* for them, and only for them.                                            *)
USE CacheAssumption
    DEF Next, vars, Advance, Arrive, Acquire, Check, Recheck, Look, TakeLock, Query, QueryEmpty,
        Fallback, Store, Fail, Expire, Write, Leave, Use, Goto

(* An answer is final.                                                     *)
LEMMA AnswerStep ==
    ASSUME TypeOK, [Next]_vars, NEW s \in Request, pc[s] = "ok"
    PROVE  pc'[s] = "ok" /\ value'[s] = value[s]
BY DEF TypeOK, Answered

(* A new answer is the cached version, or a metric about to be stored, or  *)
(* that of a plain request.                                                *)
LEMMA NewAnswerStep ==
    ASSUME TypeOK, [Next]_vars, NEW s \in Request, pc'[s] = "ok", pc[s] # "ok"
    PROVE  /\ floor' = floor /\ version' = version
           /\ \/ cache[Key[s]] # None /\ value'[s] = cache[Key[s]] /\ cache' = cache
              \/ pc[s] = "store" /\ Store(s) /\ value'[s] = value[s]
              \/ Kind[s] = "plain" /\ value'[s] = version /\ cache' = cache
BY DEF TypeOK, Answered

(* The cache changes when a metric is stored, or an entry expires.         *)
LEMMA CacheStep ==
    ASSUME TypeOK, [Next]_vars, NEW r \in Request
    PROVE  \/ cache'[Key[r]] = cache[Key[r]]
           \/ cache'[Key[r]] = None
           \/ \E s \in Request : Key[s] = Key[r] /\ Store(s) /\ cache'[Key[r]] = value[s]
<1>1. Key[r] \in Keys /\ cache \in [Keys -> None..version]
  BY DEF TypeOK, Keys
<1>2. ASSUME NEW s \in Request, Store(s), cache'[Key[r]] # cache[Key[r]]
      PROVE  Key[s] = Key[r] /\ cache'[Key[r]] = value[s]
  BY <1>1, <1>2
<1>3. ASSUME NEW k \in Keys, Expire(k), cache'[Key[r]] # cache[Key[r]]
      PROVE  cache'[Key[r]] = None
  BY <1>1, <1>3
<1>4. \/ UNCHANGED cache
      \/ \E s \in Request : Store(s)
      \/ \E k \in Keys : Expire(k)
  OBVIOUS
<1>. QED
  <2>. HIDE DEF Store, Expire
  <2>. QED  BY <1>2, <1>3, <1>4

(* A request goes past the lock by taking it, and gives it back when it    *)
(* leaves.                                                                 *)
LEMMA LockStep ==
    ASSUME TypeOK, CacheIsOfMetrics, [Next]_vars, NEW r \in Request,
           Kind[r] # "plain", pc'[r] \in {"recheck", "query", "fallback", "store"}
    PROVE  \/ r \in locked'
           \/ pc[r] \in {"recheck", "query", "fallback", "store"} /\ r \notin locked
BY DEF TypeOK, CacheIsOfMetrics

(* A metric gets to its query by missing the cache, and to its result by   *)
(* reading the version of the database.                                    *)
LEMMA QueryStep ==
    ASSUME TypeOK, [Next]_vars, NEW r \in Request, Kind[r] # "plain",
           pc'[r] \in {"query", "fallback", "store"}
    PROVE  \/ pc[r] = pc'[r] /\ value'[r] = value[r]
           \/ pc[r] = "recheck" /\ cache[Key[r]] = None /\ cache' = cache /\ pc'[r] = "query"
           \/ pc[r] \in {"query", "fallback"} /\ cache' = cache
              /\ (pc'[r] = "store" => value'[r] = version)
BY DEF TypeOK

(* A floor is set on arrival, to the newest answer.                        *)
LEMMA FloorStep ==
    ASSUME TypeOK, [Next]_vars, NEW r \in Request
    PROVE  floor'[r] = floor[r] \/ (pc[r] = "new" /\ floor'[r] = Newest(Key[r]) /\ pc'[r] # "ok")
BY DEF TypeOK

(* Where the metrics go.                                                   *)
LEMMA MetricStep ==
    ASSUME TypeOK, [Next]_vars, NEW r \in Request,
           pc'[r] \in {"check", "lock", "recheck", "fallback", "store"}
    PROVE  \/ pc[r] \in {"check", "lock", "recheck", "fallback", "store"}
           \/ Kind[r] # "plain"
BY DEF TypeOK

HIDE DEF Next, vars, Advance, Arrive, Acquire, Check, Recheck, Look, TakeLock, Query, QueryEmpty,
         Fallback, Store, Fail, Expire, Write, Leave, Use, Goto

-----------------------------------------------------------------------------
(* Two requests of one key past the lock are one request.                  *)
LEMMA OneHolder ==
    ASSUME TypeOK, LockHeld, NEW r \in Request, NEW s \in Request, Key[r] = Key[s],
           Kind[r] # "plain",
           pc[r] \in {"recheck", "query", "fallback", "store"},
           pc[s] \in {"recheck", "query", "fallback", "store"}
    PROVE  r = s
BY CacheAssumption DEF TypeOK, LockHeld

(* Storing is the end of a request that was about to store.                *)
LEMMA StoreEnds ==
    ASSUME TypeOK, NEW s \in Request, Store(s)
    PROVE  /\ pc[s] = "store" /\ pc'[s] = "ok"
           /\ cache'[Key[s]] = value[s] \/ (cache' = cache /\ cache[Key[s]] = None)
<1>1. Key[s] \in Keys
  BY DEF Keys
<1>. QED  BY <1>1 DEF Store, Leave, Goto, TypeOK

(* The inductive step: one conjunct after the other, the earlier ones      *)
(* helping the later.                                                      *)
LEMMA InvStep == IInv /\ [Next]_vars => IInv'
<1>. SUFFICES ASSUME IInv, [Next]_vars PROVE IInv'
  OBVIOUS
<1>. USE CacheAssumption DEF IInv
<1>1. TypeOK'
  BY TypeStep
<1>2. LockHeld'
  BY LockStep DEF LockHeld
<1>3. CacheIsOfMetrics'
  <2>. SUFFICES ASSUME NEW r \in Request
                PROVE  /\ pc'[r] \in {"check", "lock", "recheck", "fallback", "store"}
                            => Kind[r] # "plain"
                       /\ cache'[Key[r]] # None => Kind[r] # "plain"
    BY DEF CacheIsOfMetrics
  <2>1. ASSUME NEW t \in Request, Key[t] = Key[r], Store(t) PROVE Kind[r] # "plain"
    BY <2>1, StoreEnds DEF CacheIsOfMetrics
  <2>. QED  BY <2>1, MetricStep, CacheStep DEF CacheIsOfMetrics
<1>4. NoStampede'
  <2>. SUFFICES ASSUME NEW r \in Request, Kind[r] # "plain",
                       pc'[r] \in {"query", "fallback", "store"}
                PROVE  cache'[Key[r]] = None
    BY DEF NoStampede
  <2>1. CASE pc[r] = pc'[r]
    <3>1. cache[Key[r]] = None
      BY <2>1 DEF NoStampede
    <3>2. ASSUME NEW t \in Request, Key[t] = Key[r], Store(t) PROVE FALSE
      BY <2>1, <3>2, OneHolder, StoreEnds
    <3>. QED  BY <3>1, <3>2, CacheStep
  <2>2. CASE pc[r] # pc'[r]
    BY <2>2, QueryStep DEF NoStampede
  <2>. QED  BY <2>1, <2>2, QueryStep
<1>5. NewestInCache'
  <2>. SUFFICES ASSUME NEW r \in Request, NEW s \in Request, pc'[s] = "ok", Key[r] = Key[s]
                PROVE  /\ cache'[Key[r]] # None => value'[s] <= cache'[Key[r]]
                       /\ pc'[r] = "store" => value'[s] <= value'[r]
    BY DEF NewestInCache
  <2>1. /\ cache'[Key[r]] # None => Kind[r] # "plain"
        /\ pc'[r] = "store" => Kind[r] # "plain" /\ cache'[Key[r]] = None
    BY <1>3, <1>4 DEF CacheIsOfMetrics, NoStampede
  <2>2. value[s] <= version /\ value'[s] \in Int
    BY <1>1 DEF TypeOK, None
  <2>3. CASE pc[s] = "ok"
    <3>1. value'[s] = value[s]
      BY <2>3, AnswerStep
    <3>2. ASSUME NEW t \in Request, Key[t] = Key[r], Store(t) PROVE value[s] <= value[t]
      BY <2>3, <3>2, StoreEnds DEF NewestInCache
    <3>3. cache'[Key[r]] # None => value'[s] <= cache'[Key[r]]
      BY <2>3, <3>1, <3>2, CacheStep DEF NewestInCache
    <3>4. pc'[r] = "store" => value'[s] <= value'[r]
      BY <2>1, <2>2, <2>3, <3>1, QueryStep DEF NewestInCache
    <3>. QED  BY <3>3, <3>4
  <2>4. CASE pc[s] # "ok"
    <3>1. CASE cache[Key[s]] # None /\ value'[s] = cache[Key[s]] /\ cache' = cache
      BY <2>1, <2>2, <3>1
    <3>2. CASE pc[s] = "store" /\ Store(s) /\ value'[s] = value[s]
      <4>1. value'[s] <= value[s] /\ (cache'[Key[s]] # None => cache'[Key[s]] = value[s])
        BY <2>2, <3>2, StoreEnds
      <4>2. ASSUME pc'[r] = "store" PROVE FALSE
        <5>1. pc[r] \in {"query", "fallback", "store"} /\ Kind[r] # "plain"
          BY <2>1, <4>2, QueryStep
        <5>2. r = s
          BY <3>2, <5>1, OneHolder
        <5>. QED  BY <4>2, <5>2
      <4>. QED  BY <4>1, <4>2
    <3>3. CASE Kind[s] = "plain"
      BY <2>1, <3>3
    <3>. QED  BY <2>4, <3>1, <3>2, <3>3, NewAnswerStep
  <2>. QED  BY <2>3, <2>4
<1>6. FloorWasAnswered'
  <2>. SUFFICES ASSUME NEW r \in Request
                PROVE  \/ floor'[r] = None
                       \/ \E s \in Request : Key[s] = Key[r] /\ pc'[s] = "ok" /\ value'[s] = floor'[r]
    BY DEF FloorWasAnswered
  <2>1. \/ floor'[r] = None
        \/ \E s \in Request : Key[s] = Key[r] /\ pc[s] = "ok" /\ value[s] = floor'[r]
    <3>1. CASE floor'[r] = floor[r]
      BY <3>1 DEF FloorWasAnswered
    <3>2. CASE floor'[r] = Newest(Key[r])
      BY <3>2, NewestIsAnswered DEF Keys
    <3>. QED  BY <3>1, <3>2, FloorStep
  <2>. QED  BY <2>1, AnswerStep
<1>7. MonotoneAnswers'
  <2>. SUFFICES ASSUME NEW r \in Request, pc'[r] = "ok" PROVE value'[r] >= floor'[r]
    BY DEF MonotoneAnswers
  <2>1. CASE pc[r] = "ok"
    BY <2>1, AnswerStep, FloorStep DEF MonotoneAnswers
  <2>2. CASE pc[r] # "ok"
    <3>1. floor'[r] = floor[r] /\ value'[r] \in Int /\ value'[r] >= None
      BY <1>1, <2>2, NewAnswerStep DEF TypeOK, None
    <3>2. ASSUME NEW s \in Request, Key[s] = Key[r], pc[s] = "ok", value[s] = floor[r]
          PROVE  value'[r] >= value[s]
      <4>1. value[s] \in Int /\ version \in Int /\ value[s] <= version
        BY DEF TypeOK, None
      <4>2. /\ cache[Key[r]] # None => value[s] <= cache[Key[r]]
            /\ pc[r] = "store" => value[s] <= value[r]
        BY <3>2 DEF NewestInCache
      <4>. QED  BY <2>2, <3>1, <4>1, <4>2, NewAnswerStep
    <3>. QED  BY <3>1, <3>2 DEF FloorWasAnswered
  <2>. QED  BY <2>1, <2>2
<1>. QED  BY <1>1, <1>2, <1>3, <1>4, <1>5, <1>6, <1>7

(* IInv holds in every reachable state.                                    *)
LEMMA Invariance == Spec => []IInv
BY InvInit, InvStep, PTL DEF Spec

-----------------------------------------------------------------------------
(* The pool is never overdrawn, no two requests of a kind hold its lock,   *)
(* and the cache has no version the database never had.                    *)
THEOREM TypeCorrect == Spec => []TypeOK
<1>1. IInv => TypeOK
  BY DEF IInv
<1>. QED  BY <1>1, Invariance, PTL

(* However many requests meet at a lock, and whatever expires or fails in  *)
(* between, none runs the query of a metric that is in the cache           *)
(* (services/gas_service.py, services/token_service.py).                   *)
THEOREM OneQueryPerMiss == Spec => []NoStampede
<1>1. IInv => NoStampede
  BY DEF IInv
<1>. QED  BY <1>1, Invariance, PTL

(* Answers of one endpoint never go back behind one already seen, although *)
(* some come from Redis and some from the database.                        *)
THEOREM AnswersAreMonotone == Spec => []MonotoneAnswers
<1>1. IInv => MonotoneAnswers
  BY DEF IInv
<1>. QED  BY <1>1, Invariance, PTL
=============================================================================
