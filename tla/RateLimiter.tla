---------------------------- MODULE RateLimiter ----------------------------
(***************************************************************************)
(* AdaptiveRateLimiter (backend/src/core/rateLimit/AdaptiveRateLimiter.ts) *)
(* under one policy: the per-identifier limiter states, shared by          *)
(* reference between the requests in flight, cached in a local Map and     *)
(* copied to Redis.  checkRateLimit suspends at four awaits; every         *)
(* interleaving of requests at those points is a behaviour of this module. *)
(*                                                                         *)
(* A request is also the name of the heap object it creates.  An entry     *)
(* {timestamp, count} of the code's `requests' is the set of pairs         *)
(* <<timestamp, 1>> .. <<timestamp, count>> here.  Time is counted in      *)
(* ticks; a second has Second ticks and the bucket gains RateNum tokens    *)
(* every RateDen ticks.                                                    *)
(***************************************************************************)
EXTENDS Integers, Sequences, FiniteSets, SequencesExt

CONSTANTS
  Requests,    \* the calls of checkRateLimit
  Ids,         \* request identifiers
  Nil,         \* no value
  Algorithm,   \* config.algorithm
  BaseLimit,   \* config.baseLimit
  Limits,      \* the values finalLimit takes
  Window,      \* config.timeWindowMs
  RateNum, RateDen, Second,   \* config.replenishRate
  RedisTtl,    \* the TTL of a saved state: the window plus a buffer
  CacheSize, EvictCount,      \* cacheSize, and the entries evicted at once
  MaxTime      \* bound on the clock

ASSUME LimiterAssumption ==
  /\ Algorithm \in {"token_bucket", "sliding_window", "adaptive_hybrid"}
  /\ BaseLimit \in Nat /\ Limits \subseteq Nat \ {0}
  /\ Window \in Nat \ {0} /\ RedisTtl \in Nat /\ RedisTtl > Window
  /\ RateNum \in Nat \ {0} /\ RateDen \in Nat \ {0} /\ Second \in Nat \ {0}
  /\ CacheSize \in Nat /\ EvictCount \in 0..CacheSize /\ MaxTime \in Nat
  /\ Nil \notin Requests \cup Ids

VARIABLES
  now,       \* the clock
  heap,      \* the RateLimitState object created by each request
  local,     \* localCache: identifier -> object, or Nil
  order,     \* the keys of localCache, in insertion order
  redis,     \* rate_limit_state:<identifier> -> state and expiry, or Nil
  redisUp,   \* whether RedisService reaches Redis
  pc,        \* where each request is in checkRateLimit
  rid,       \* request.identifier
  ref,       \* the state object the request works on
  orphan,    \* requests running in a limiter that was destroyed
  result,    \* the verdict of each request
  serial     \* history: identifiers never checked by two requests at once
             \* and never out of Redis's reach

vars == <<now, heap, local, order, redis, redisUp, pc, rid, ref, orphan,
          result, serial>>

-----------------------------------------------------------------------------

LimiterState ==
  [tokens : Int, lastRefill : Nat, requests : SUBSET (Nat \X Nat),
   windowStart : Nat, requestCount : Nat, lastRequest : Nat]

\* The state getState creates for an identifier found in neither cache.
NewState(t) ==
  [tokens |-> BaseLimit, lastRefill |-> t, requests |-> {},
   windowStart |-> t, requestCount |-> 0, lastRequest |-> t]

NoResult == [allowed |-> FALSE, at |-> 0, limit |-> 0, retryAt |-> 0]

Live == {"loaded", "missed", "adjusting", "checked"}

LiveOn(id) == {r \in Requests : pc[r] \in Live /\ rid[r] = id}

Ceil(a, b) == -((-a) \div b)

SmallerOf(a, b) == IF a <= b THEN a ELSE b

LargerOf(a, b) == IF a >= b THEN a ELSE b

-----------------------------------------------------------------------------
(* The three algorithms: the verdict, and the state they leave behind.     *)

\* Mutant: the fraction of a token is rounded up.
TokensToAddRoundedUp(s) == Ceil((now - s.lastRefill) * RateNum, RateDen)

\* Tokens are whole: the fraction of a token earned since lastRefill is lost
\* each time lastRefill is moved to now.
TokensToAdd(s) == ((now - s.lastRefill) * RateNum) \div RateDen

\* Mutant: the wait is rounded down.
TokenWaitRoundedDown(tokens) == ((1 - tokens) * RateDen) \div (RateNum * Second)

\* Seconds until the bucket holds a token again.
TokenWait(tokens) == Ceil((1 - tokens) * RateDen, RateNum * Second)

TokenBucket(s, limit) ==
  LET filled  == SmallerOf(limit, s.tokens + TokensToAdd(s))
      allowed == filled >= 1
      tokens  == IF allowed THEN filled - 1 ELSE filled
  IN [verdict |-> [allowed |-> allowed, at |-> now, limit |-> limit,
                   retryAt |-> IF allowed THEN now
                               ELSE now + TokenWait(tokens) * Second],
      state   |-> [s EXCEPT !.tokens = tokens,
                            !.lastRefill = now,
                            !.requestCount = IF allowed THEN @ + 1 ELSE @,
                            !.lastRequest = IF allowed THEN now ELSE @]]

\* The entries still in the window, and those of one timestamp.
Recent(reqs) == {e \in reqs : e[1] >= now - Window}

EntriesAt(reqs, t) == {e \in reqs : e[1] = t}

\* The entries after this request was counted.
WithEntry(reqs) == reqs \cup {<<now, Cardinality(EntriesAt(reqs, now)) + 1>>}

\* Seconds until the oldest entry leaves the window.
WindowWait(reqs) ==
  LET times  == {e[1] : e \in reqs}
      oldest == CHOOSE t \in times : \A u \in times : t <= u
  IN Ceil(oldest + Window - now, Second)

\* currentCount < limit
Room(reqs, limit) == Cardinality(reqs) < limit

SlidingWindow(s, limit) ==
  LET kept    == Recent(s.requests)
      allowed == Room(kept, limit)
  IN [verdict |-> [allowed |-> allowed, at |-> now, limit |-> limit,
                   retryAt |-> IF allowed THEN now
                               ELSE now + WindowWait(kept) * Second],
      state   |-> [s EXCEPT !.requests = IF allowed THEN WithEntry(kept) ELSE kept,
                            !.requestCount = IF allowed THEN @ + 1 ELSE @,
                            !.lastRequest = IF allowed THEN now ELSE @]]

\* Both algorithms run on shallow copies of the state, which are dropped.
AdaptiveHybrid(s, limit) ==
  LET t == TokenBucket(s, limit).verdict
      w == SlidingWindow(s, limit).verdict
  IN [verdict |-> [allowed |-> t.allowed /\ w.allowed, at |-> now,
                   limit |-> limit,
                   retryAt |-> LargerOf(t.retryAt, w.retryAt)],
      state   |-> s]

RunAlgorithm(s, limit) ==
  CASE Algorithm = "token_bucket"    -> TokenBucket(s, limit)
    [] Algorithm = "sliding_window"  -> SlidingWindow(s, limit)
    [] Algorithm = "adaptive_hybrid" -> AdaptiveHybrid(s, limit)

-----------------------------------------------------------------------------
(* localCache and Redis.                                                    *)

\* The keys after localCache.set(id, ...).
KeysWith(id) == IF local[id] = Nil THEN Append(order, id) ELSE order

\* localCache.set(id, obj)
CacheSet(id, obj) ==
  /\ order' = KeysWith(id)
  /\ local' = [local EXCEPT ![id] = obj]

\* localCache.set(id, obj) and then manageCacheSize().
CacheSetAndManage(id, obj) ==
  LET keys  == KeysWith(id)
      evict == Len(keys) > CacheSize
      kept  == IF evict THEN SubSeq(keys, EvictCount + 1, Len(keys)) ELSE keys
  IN /\ order' = kept
     /\ local' = [i \in Ids |-> IF i \notin Range(kept) THEN Nil
                                ELSE IF i = id THEN obj ELSE local[i]]

RedisHas(id) == redisUp /\ redis[id] # Nil /\ now < redis[id].expires

\* Mutant: the entry lives for one tick.
SavedTooShort(r) == [state |-> heap[ref[r]], expires |-> now + 1]

\* The Redis entry updateState writes for a request.
Saved(r) == [state |-> heap[ref[r]], expires |-> now + RedisTtl]

\* RedisService.set: a write while Redis is away is dropped silently.
SaveState(r) ==
  redis' = IF redisUp THEN [redis EXCEPT ![rid[r]] = Saved(r)] ELSE redis

-----------------------------------------------------------------------------

Init ==
  /\ now = 0 /\ redisUp = TRUE
  /\ heap = [r \in Requests |-> NewState(0)]
  /\ local = [i \in Ids |-> Nil] /\ order = <<>>
  /\ redis = [i \in Ids |-> Nil]
  /\ pc = [r \in Requests |-> "idle"]
  /\ rid = [r \in Requests |-> Nil]
  /\ ref = [r \in Requests |-> r]
  /\ orphan = [r \in Requests |-> FALSE]
  /\ result = [r \in Requests |-> NoResult]
  /\ serial = [i \in Ids |-> TRUE]

\* checkRateLimit starts and finds the identifier in localCache.
StartHit(r, id) ==
  /\ pc[r] = "idle" /\ local[id] # Nil
  /\ rid' = [rid EXCEPT ![r] = id]
  /\ ref' = [ref EXCEPT ![r] = local[id]]
  /\ CacheSetAndManage(id, local[id])
  /\ pc' = [pc EXCEPT ![r] = "adjusting"]
  /\ serial' = [serial EXCEPT ![id] = @ /\ LiveOn(id) = {}]
  /\ UNCHANGED <<now, heap, redis, redisUp, orphan, result>>

\* checkRateLimit starts, misses localCache and asks Redis.  Commands of the
\* one connection are answered in order: the reply is the value at the call.
StartMiss(r, id) ==
  /\ pc[r] = "idle" /\ local[id] = Nil
  /\ rid' = [rid EXCEPT ![r] = id]
  /\ IF RedisHas(id)
       THEN /\ heap' = [heap EXCEPT ![r] = redis[id].state]
            /\ pc' = [pc EXCEPT ![r] = "loaded"]
       ELSE /\ pc' = [pc EXCEPT ![r] = "missed"]
            /\ UNCHANGED heap
  /\ serial' = [serial EXCEPT ![id] = @ /\ redisUp /\ LiveOn(id) = {}]
  /\ UNCHANGED <<now, local, order, redis, redisUp, ref, orphan, result>>

\* Redis has answered: the rest of getState.  A destroyed limiter fills a Map
\* nobody looks at any more.
Loaded(r) ==
  /\ pc[r] \in {"loaded", "missed"}
  /\ heap' = IF pc[r] = "loaded" THEN heap
             ELSE [heap EXCEPT ![r] = NewState(now)]
  /\ ref' = [ref EXCEPT ![r] = r]
  /\ pc' = [pc EXCEPT ![r] = "adjusting"]
  /\ IF orphan[r] THEN UNCHANGED <<local, order>>
     ELSE CacheSetAndManage(rid[r], r)
  /\ UNCHANGED <<now, redis, redisUp, rid, orphan, result, serial>>

\* calculateAdjustments has returned: finalLimit, and the algorithm.
Check(r) ==
  /\ pc[r] = "adjusting"
  /\ \E limit \in Limits :
       LET out == RunAlgorithm(heap[ref[r]], limit)
       IN /\ heap' = [heap EXCEPT ![ref[r]] = out.state]
          /\ result' = [result EXCEPT ![r] = out.verdict]
  /\ pc' = [pc EXCEPT ![r] = "checked"]
  /\ UNCHANGED <<now, local, order, redis, redisUp, rid, ref, orphan, serial>>

\* updateState: localCache.set without manageCacheSize, then the save.
Update(r) ==
  /\ pc[r] = "checked"
  /\ IF orphan[r] THEN UNCHANGED <<local, order>> ELSE CacheSet(rid[r], ref[r])
  /\ SaveState(r)
  /\ pc' = [pc EXCEPT ![r] = "done"]
  /\ serial' = [serial EXCEPT ![rid[r]] = @ /\ redisUp]
  /\ UNCHANGED <<now, heap, redisUp, rid, ref, orphan, result>>

-----------------------------------------------------------------------------

\* The keys cleanupExpiredEntries deletes.
Expired(id) == local[id] # Nil /\ now - heap[local[id]].lastRequest > 2 * Window

CleanupExpired ==
  /\ \E id \in Ids : Expired(id)
  /\ local' = [i \in Ids |-> IF Expired(i) THEN Nil ELSE local[i]]
  /\ order' = SelectSeq(order, LAMBDA i : ~Expired(i))
  /\ UNCHANGED <<now, heap, redis, redisUp, pc, rid, ref, orphan, result,
                 serial>>

\* destroy(), called when RateLimitManager drops its limiters; the requests
\* in flight keep running in the old one.
Destroy ==
  /\ order # <<>>
  /\ local' = [i \in Ids |-> Nil] /\ order' = <<>>
  /\ orphan' = [r \in Requests |-> orphan[r] \/ pc[r] \in Live]
  /\ UNCHANGED <<now, heap, redis, redisUp, pc, rid, ref, result, serial>>

\* The process dies and is restarted: Redis keeps what was saved.
Restart ==
  /\ \E r \in Requests : pc[r] \in Live
  /\ local' = [i \in Ids |-> Nil] /\ order' = <<>>
  /\ pc' = [r \in Requests |-> IF pc[r] \in Live THEN "dead" ELSE pc[r]]
  /\ UNCHANGED <<now, heap, redis, redisUp, rid, ref, orphan, result, serial>>

RedisToggle ==
  /\ redisUp' = ~redisUp
  /\ UNCHANGED <<now, heap, local, order, redis, pc, rid, ref, orphan, result,
                 serial>>

Tick ==
  /\ now < MaxTime
  /\ now' = now + 1
  /\ UNCHANGED <<heap, local, order, redis, redisUp, pc, rid, ref, orphan,
                 result, serial>>

Next ==
  \/ \E r \in Requests, id \in Ids : StartHit(r, id) \/ StartMiss(r, id)
  \/ \E r \in Requests : Loaded(r) \/ Check(r) \/ Update(r)
  \/ CleanupExpired \/ Destroy \/ Restart \/ RedisToggle \/ Tick

Spec == Init /\ [][Next]_vars

-----------------------------------------------------------------------------
(* Properties.                                                              *)

TypeOK ==
  /\ now \in Nat /\ redisUp \in BOOLEAN
  /\ heap \in [Requests -> LimiterState]
  /\ local \in [Ids -> Requests \cup {Nil}]
  /\ redis \in [Ids -> [state : LimiterState, expires : Nat] \cup {Nil}]
  /\ pc \in [Requests -> Live \cup {"idle", "done", "dead"}]
  /\ rid \in [Requests -> Ids \cup {Nil}]
  /\ ref \in [Requests -> Requests]
  /\ orphan \in [Requests -> BOOLEAN]
  /\ result \in [Requests -> [allowed : BOOLEAN, at : Nat, limit : Nat,
                              retryAt : Int]]
  /\ serial \in [Ids -> BOOLEAN]

\* The requests on id that were let through, and when.
Admitted(id) == {r \in Requests : pc[r] = "done" /\ rid[r] = id /\ result[r].allowed}

AdmittedBetween(id, a, b) == {r \in Admitted(id) : result[r].at \in a..b}

\* checkTokenBucket: over its whole life a bucket admits at most its initial
\* BaseLimit plus what the refill rate earned, whatever requests share the
\* object, however often it is saved, reloaded or evicted: requestCount
\* counts the admissions, and each one took a token.
Conserved(s) ==
  RateDen * (s.tokens + s.requestCount)
    <= RateDen * BaseLimit + RateNum * (s.lastRefill - s.windowStart)

BucketConservation ==
  Algorithm = "token_bucket" =>
    /\ \A r \in Requests : Conserved(heap[r]) /\ heap[r].tokens >= 0
    /\ \A id \in Ids : redis[id] # Nil => /\ Conserved(redis[id].state)
                                         /\ redis[id].state.tokens >= 0

\* checkSlidingWindow: whichever requests share a state, it never counts more
\* requests in a window than the largest limit allows.
EntriesBounded(s, bound) ==
  IsFiniteSet(s.requests) /\ Cardinality(s.requests) <= bound

WindowEntriesBounded ==
  \A bound \in Limits : (\A l \in Limits : l <= bound) =>
    /\ \A r \in Requests : EntriesBounded(heap[r], bound)
    /\ \A id \in Ids : redis[id] # Nil => EntriesBounded(redis[id].state, bound)

\* checkSlidingWindow with getState/updateState: an identifier whose requests
\* never overlap and whose state Redis always could keep is held to the limit
\* in every window, through evictions, cleanups, TTL expiry, destroyed
\* limiters and restarts.
WindowHeld(id) ==
  \A r \in Admitted(id) :
    LET t == result[r].at
    IN \E q \in AdmittedBetween(id, t, t) :
         Cardinality(AdmittedBetween(id, t - Window, t)) <= result[q].limit

SequentialWindowLimit == \A id \in Ids : serial[id] => WindowHeld(id)

\* checkTokenBucket with getState/updateState: under the same conditions the
\* admissions of any interval fit the burst plus the refill of the interval.
Burst == CHOOSE b \in Limits \cup {BaseLimit} : \A l \in Limits \cup {BaseLimit} : l <= b

SequentialBurstLimit ==
  \A id \in Ids : serial[id] =>
    \A r, q \in Admitted(id) :
      LET a == result[r].at
          b == result[q].at
      IN a <= b => RateDen * Cardinality(AdmittedBetween(id, a, b))
                     <= RateDen * Burst + RateNum * (b - a)

\* types/rateLimit.d.ts:83, retryAfter is "Seconds until next request allowed":
\* on an identifier whose requests never overlap, one that waits that long
\* after a denial, with no other request meanwhile, is let through.
RetryAfterHonoured ==
  \A d, r \in Requests :
    LET done == {q \in Requests : pc[q] = "done" /\ rid[q] = rid[d]}
        D == result[d]
        R == result[r]
    IN /\ d # r /\ {d, r} \subseteq done /\ serial[rid[d]]
       /\ ~D.allowed /\ R.limit >= D.limit /\ R.at >= D.retryAt
       /\ \A q \in done \ {d, r} : result[q].at < D.at
       => R.allowed
=============================================================================
