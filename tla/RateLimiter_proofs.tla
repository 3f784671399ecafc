------------------------- MODULE RateLimiter_proofs -------------------------
(* Type correctness of the limiter, and the conservation law of its token   *)
(* bucket, for every number of requests and identifiers and every setting.  *)
EXTENDS RateLimiter, FiniteSetTheorems, WellFoundedInduction, TLAPS

USE LimiterAssumption

-----------------------------------------------------------------------------
(* Arithmetic.                                                              *)

\* Rounding a division down never earns more than the dividend.
LEMMA DivBound ==
  ASSUME NEW a \in Nat, NEW b \in Nat \ {0}
  PROVE  /\ a \div b \in Nat
         /\ b * (a \div b) <= a
  BY SMT

\* The ceiling of an integer quotient is an integer.
LEMMA CeilType ==
  ASSUME NEW a \in Int, NEW b \in Nat \ {0}
  PROVE  Ceil(a, b) \in Int
  BY SMT DEF Ceil

\* A product of natural numbers is one.
LEMMA TimesType ==
  ASSUME NEW a \in Nat, NEW b \in Nat
  PROVE  a * b \in Nat
  BY SMT

-----------------------------------------------------------------------------
(* What the algorithms return.                                              *)

Verdict == [allowed : BOOLEAN, at : Nat, limit : Nat, retryAt : Int]

\* checkTokenBucket returns a verdict and a well-formed state.
LEMMA TokenBucketType ==
  ASSUME NEW s \in LimiterState, NEW limit \in Limits, now \in Nat
  PROVE  /\ TokenBucket(s, limit).verdict \in Verdict
         /\ TokenBucket(s, limit).state \in LimiterState
<1> DEFINE filled  == SmallerOf(limit, s.tokens + TokensToAdd(s))
           allowed == filled >= 1
           tokens  == IF allowed THEN filled - 1 ELSE filled
<1>1. TokensToAdd(s) \in Int
  <2>1. (now - s.lastRefill) * RateNum \in Int
    BY SMT DEF LimiterState
  <2> QED  BY <2>1, SMTT(60) DEF TokensToAdd
<1>2. filled \in Int /\ allowed \in BOOLEAN /\ tokens \in Int
  BY <1>1, SMTT(60) DEF SmallerOf, LimiterState
<1>3. TokenWait(tokens) * Second \in Int
  <2>1. (1 - tokens) * RateDen \in Int  BY <1>2, SMTT(60)
  <2>2. RateNum * Second \in Nat \ {0}  BY SMT
  <2>3. TokenWait(tokens) \in Int
    BY <2>1, <2>2, CeilType, ZenonT(60) DEF TokenWait
  <2> QED  BY <2>3, SMTT(60)
<1> HIDE DEF filled, allowed, tokens
<1> DEFINE retry == IF allowed THEN now ELSE now + TokenWait(tokens) * Second
           count == IF allowed THEN s.requestCount + 1 ELSE s.requestCount
           last  == IF allowed THEN now ELSE s.lastRequest
<1>4. retry \in Int /\ count \in Nat /\ last \in Nat
  BY <1>3, SMT DEF LimiterState
<1>5. /\ TokenBucket(s, limit).verdict =
           [allowed |-> allowed, at |-> now, limit |-> limit, retryAt |-> retry]
      /\ TokenBucket(s, limit).state =
           [s EXCEPT !.tokens = tokens, !.lastRefill = now,
                     !.requestCount = count, !.lastRequest = last]
  BY DEF TokenBucket, filled, allowed, tokens
<1> HIDE DEF retry, count, last
<1>6. TokenBucket(s, limit).verdict \in Verdict
  BY <1>2, <1>4, <1>5 DEF Verdict
<1>7. TokenBucket(s, limit).state \in LimiterState
  BY <1>2, <1>4, <1>5, ZenonT(60) DEF LimiterState
<1> QED  BY <1>6, <1>7, SMTT(60)

\* A nonempty set of natural numbers has a least element.
LEMMA LeastNat ==
  ASSUME NEW T, T \subseteq Nat, T # {}
  PROVE  \E t \in T : \A u \in T : t <= u
<1>1. \E x \in T : \A y \in T : ~ (<<y, x>> \in OpToRel(<, Nat))
  BY NatLessThanWellFounded, WFMin
<1>2. PICK x \in T : \A y \in T : ~ (<<y, x>> \in OpToRel(<, Nat))
  BY <1>1
<1>3. ASSUME NEW y \in T PROVE x <= y
  <2>1. x \in Nat /\ y \in Nat  OBVIOUS
  <2>2. ~(y < x)
    BY <1>2, <2>1, Zenon DEF OpToRel
  <2> QED  BY <2>1, <2>2, SMT
<1> QED  BY <1>3

\* Counting one more request: the entries stay a finite set of pairs.
LEMMA WithEntryProperties ==
  ASSUME NEW reqs \in SUBSET (Nat \X Nat), IsFiniteSet(reqs), now \in Nat
  PROVE  /\ WithEntry(reqs) \in SUBSET (Nat \X Nat)
         /\ IsFiniteSet(WithEntry(reqs))
         /\ Cardinality(WithEntry(reqs)) <= Cardinality(reqs) + 1
<1> DEFINE e == <<now, Cardinality(EntriesAt(reqs, now)) + 1>>
<1>1. IsFiniteSet(EntriesAt(reqs, now))
  BY FS_Subset DEF EntriesAt
<1>2. Cardinality(EntriesAt(reqs, now)) \in Nat
  BY <1>1, FS_CardinalityType, SMTT(60)
<1>3. e \in Nat \X Nat
  BY <1>2, SMTT(60)
<1>4. Cardinality(reqs) \in Nat
  BY FS_CardinalityType, SMTT(60)
<1>5. /\ IsFiniteSet(reqs \cup {e})
      /\ Cardinality(reqs \cup {e}) \in {Cardinality(reqs), Cardinality(reqs) + 1}
  BY FS_AddElement, SMTT(60)
<1> HIDE DEF e
<1>6. WithEntry(reqs) = reqs \cup {e}
  BY DEF WithEntry, e
<1> QED  BY <1>3, <1>4, <1>5, <1>6, SMTT(60)

\* checkSlidingWindow returns a verdict and a well-formed state.
LEMMA SlidingWindowType ==
  ASSUME NEW s \in LimiterState, NEW limit \in Limits, now \in Nat,
         IsFiniteSet(s.requests)
  PROVE  /\ SlidingWindow(s, limit).verdict \in Verdict
         /\ SlidingWindow(s, limit).state \in LimiterState
         /\ IsFiniteSet(SlidingWindow(s, limit).state.requests)
<1> DEFINE kept    == Recent(s.requests)
           allowed == Room(kept, limit)
           reqs    == IF allowed THEN WithEntry(kept) ELSE kept
<1>1. kept \in SUBSET (Nat \X Nat) /\ IsFiniteSet(kept)
  BY FS_Subset, SMTT(60) DEF Recent, LimiterState
<1>2. Cardinality(kept) \in Nat
  BY <1>1, FS_CardinalityType, SMTT(60)
<1>3. allowed \in BOOLEAN
  BY DEF Room
<1>4. ~allowed => WindowWait(kept) * Second \in Int
  <2> SUFFICES ASSUME ~allowed PROVE WindowWait(kept) * Second \in Int
    OBVIOUS
  <2> DEFINE times  == {e[1] : e \in kept}
             oldest == CHOOSE t \in times : \A u \in times : t <= u
  <2>1. kept # {}
    <3>1. limit \in Nat \ {0}  OBVIOUS
    <3>2. Cardinality(kept) # 0  BY <1>2, <3>1, SMTT(60) DEF Room
    <3> QED  BY <3>2, FS_EmptySet, SMTT(60)
  <2>2. times \subseteq Nat /\ times # {}
    BY <1>1, <2>1, SMTT(60)
  <2>3. oldest \in Nat
    <3>1. \E t \in times : \A u \in times : t <= u
      BY <2>2, LeastNat, ZenonT(60)
    <3> QED  BY <2>2, <3>1, SMTT(60)
  <2> HIDE DEF oldest
  <2>4. oldest + Window - now \in Int
    BY <2>3, SMT
  <2>5. WindowWait(kept) = Ceil(oldest + Window - now, Second)
    BY DEF WindowWait, oldest
  <2> QED  BY <2>4, <2>5, CeilType, SMTT(60)
<1>5. reqs \in SUBSET (Nat \X Nat) /\ IsFiniteSet(reqs)
  BY <1>1, WithEntryProperties
<1> HIDE DEF kept, allowed, reqs
<1> DEFINE retry == IF allowed THEN now ELSE now + WindowWait(kept) * Second
           count == IF allowed THEN s.requestCount + 1 ELSE s.requestCount
           last  == IF allowed THEN now ELSE s.lastRequest
<1>6. retry \in Int /\ count \in Nat /\ last \in Nat
  BY <1>4, SMT DEF LimiterState
<1>7. /\ SlidingWindow(s, limit).verdict =
           [allowed |-> allowed, at |-> now, limit |-> limit, retryAt |-> retry]
      /\ SlidingWindow(s, limit).state =
           [s EXCEPT !.requests = reqs, !.requestCount = count,
                     !.lastRequest = last]
  BY DEF SlidingWindow, kept, allowed, reqs
<1> HIDE DEF retry, count, last
<1>8. SlidingWindow(s, limit).verdict \in Verdict
  BY <1>3, <1>6, <1>7, SMTT(60) DEF Verdict
<1>9. SlidingWindow(s, limit).state \in LimiterState
  BY <1>5, <1>6, <1>7, ZenonT(60) DEF LimiterState
<1>10. SlidingWindow(s, limit).state.requests = reqs
  BY <1>7 DEF LimiterState
<1> QED  BY <1>5, <1>8, <1>9, <1>10, SMTT(60)

-----------------------------------------------------------------------------
(* The inductive invariant: what holds of every state, in memory and saved. *)
(* Beyond the two invariants it says that a state was refilled no later     *)
(* than now, without which a refill might take tokens away.                 *)

LargestLimit(bound) == bound \in Limits /\ \A l \in Limits : l <= bound

Sound(s) ==
  /\ s.windowStart <= s.lastRefill /\ s.lastRefill <= now
  /\ IsFiniteSet(s.requests)
  /\ Algorithm = "token_bucket" => Conserved(s) /\ s.tokens >= 0
  /\ \A bound : LargestLimit(bound) => Cardinality(s.requests) <= bound

IInv ==
  /\ TypeOK
  /\ \A r \in Requests : Sound(heap[r])
  /\ \A id \in Ids : redis[id] # Nil => Sound(redis[id].state)

\* The state getState creates is sound.
LEMMA NewStateSound ==
  ASSUME now \in Nat
  PROVE  NewState(now) \in LimiterState /\ Sound(NewState(now))
<1>1. NewState(now) \in LimiterState
  BY DEF NewState, LimiterState
<1>2. Conserved(NewState(now))
  BY SMT DEF NewState, Conserved
<1>3. \A bound : LargestLimit(bound) => Cardinality({}) <= bound
  BY FS_EmptySet, SMTT(60) DEF LargestLimit
<1>4. IsFiniteSet({})
  BY FS_EmptySet, SMTT(60)
<1> QED  BY <1>1, <1>2, <1>3, <1>4, SMT DEF Sound, NewState

\* checkTokenBucket: the refill earns no more than the rate allows and an
\* admission turns a token into a counted request.
LEMMA TokenBucketConserves ==
  ASSUME NEW s \in LimiterState, NEW limit \in Limits, now \in Nat,
         Algorithm = "token_bucket", Sound(s)
  PROVE  Sound(TokenBucket(s, limit).state)
<1> DEFINE t == TokenBucket(s, limit).state
           add == TokensToAdd(s)
           filled == SmallerOf(limit, s.tokens + add)
           dt == now - s.lastRefill
<1>1. dt \in Nat
  BY SMTT(60) DEF Sound, LimiterState
<1>2. dt * RateNum \in Nat
  BY <1>1, TimesType, SMTT(60)
<1>3. add \in Nat /\ RateDen * add <= dt * RateNum
  BY <1>2, DivBound, SMTT(60) DEF TokensToAdd
<1>4. filled \in Nat /\ filled <= s.tokens + add
  BY <1>3, SMT DEF SmallerOf, Sound, LimiterState
<1> DEFINE tokens == IF filled >= 1 THEN filled - 1 ELSE filled
           count  == IF filled >= 1 THEN s.requestCount + 1 ELSE s.requestCount
           last   == IF filled >= 1 THEN now ELSE s.lastRequest
<1>a. t = [s EXCEPT !.tokens = tokens, !.lastRefill = now,
                    !.requestCount = count, !.lastRequest = last]
  BY DEF TokenBucket
<1>b. t \in LimiterState
  BY TokenBucketType, SMTT(60)
<1> HIDE DEF tokens, count, last, filled, add, t
<1>c. /\ t.windowStart = s.windowStart /\ t.lastRefill = now
      /\ t.requests = s.requests /\ t.tokens = tokens /\ t.requestCount = count
  BY <1>a, SMTT(60) DEF LimiterState
<1>5. /\ t \in LimiterState
      /\ t.windowStart = s.windowStart /\ t.lastRefill = now
      /\ t.requests = s.requests
      /\ t.tokens = IF filled >= 1 THEN filled - 1 ELSE filled
      /\ t.requestCount = IF filled >= 1 THEN s.requestCount + 1
                                         ELSE s.requestCount
  BY <1>b, <1>c, SMTT(60) DEF tokens, count
<1>6. t.tokens >= 0 /\ t.tokens + t.requestCount <= s.tokens + add + s.requestCount
  BY <1>3, <1>4, <1>5, SMTT(60) DEF LimiterState
<1>7. RateDen * (t.tokens + t.requestCount)
        <= RateDen * (s.tokens + s.requestCount) + RateDen * add
  <2> DEFINE a == t.tokens + t.requestCount
             b == s.tokens + s.requestCount + add
  <2>1. a \in Int /\ b \in Int /\ a <= b
    BY <1>3, <1>5, <1>6, SMTT(60) DEF LimiterState
  <2>2. RateDen * a <= RateDen * b
    BY <2>1, SMTT(60)
  <2>3. RateDen * b = RateDen * (s.tokens + s.requestCount) + RateDen * add
    BY <1>3, SMTT(60) DEF LimiterState
  <2> QED  BY <2>2, <2>3, SMTT(60)
<1>8. RateNum * (now - s.windowStart)
        = RateNum * (s.lastRefill - s.windowStart) + dt * RateNum
  BY SMTT(60) DEF LimiterState
<1>9. Conserved(t)
  <2>1. RateDen * (s.tokens + s.requestCount)
          <= RateDen * BaseLimit + RateNum * (s.lastRefill - s.windowStart)
    BY DEF Sound, Conserved
  <2> DEFINE A == RateDen * (t.tokens + t.requestCount)
             B == RateDen * (s.tokens + s.requestCount)
             C == RateDen * BaseLimit
             D == RateNum * (s.lastRefill - s.windowStart)
             E == RateDen * add
             F == dt * RateNum
  <2>2. A \in Int /\ B \in Int /\ C \in Int /\ D \in Int /\ E \in Int /\ F \in Int
    BY <1>2, <1>3, <1>5, SMTT(60) DEF LimiterState
  <2>3. A <= B + E /\ B <= C + D /\ E <= F
    BY <1>3, <1>7, <2>1, SMTT(60)
  <2>4. RateNum * (t.lastRefill - t.windowStart) = D + F
    BY <1>5, <1>8, SMTT(60)
  <2> HIDE DEF A, B, C, D, E, F
  <2>5. A <= C + (D + F)
    BY <2>2, <2>3, SMTT(60)
  <2> QED  BY <2>4, <2>5, SMTT(60) DEF Conserved, A, C
<1> QED
  BY <1>1, <1>5, <1>6, <1>9, SMTT(60) DEF Sound, LimiterState, t

\* checkSlidingWindow: an entry is added only while there are fewer than the
\* limit of this request.
LEMMA SlidingWindowBounds ==
  ASSUME NEW s \in LimiterState, NEW limit \in Limits, now \in Nat,
         Algorithm # "token_bucket", Sound(s)
  PROVE  Sound(SlidingWindow(s, limit).state)
<1> DEFINE t    == SlidingWindow(s, limit).state
           kept == Recent(s.requests)
<1>1. /\ t.windowStart = s.windowStart /\ t.lastRefill = s.lastRefill
      /\ t.requests = IF Room(kept, limit) THEN WithEntry(kept) ELSE kept
  BY ZenonT(60) DEF SlidingWindow, LimiterState
<1>2. IsFiniteSet(t.requests)
  BY SlidingWindowType DEF Sound
<1>3. /\ kept \in SUBSET (Nat \X Nat) /\ IsFiniteSet(kept)
      /\ Cardinality(kept) <= Cardinality(s.requests)
  BY FS_Subset DEF Recent, LimiterState, Sound
<1>4. /\ Cardinality(kept) \in Nat /\ Cardinality(s.requests) \in Nat
      /\ Cardinality(WithEntry(kept)) \in Nat
      /\ Cardinality(WithEntry(kept)) <= Cardinality(kept) + 1
  BY <1>3, FS_CardinalityType, WithEntryProperties DEF Sound
<1>5. ASSUME NEW bound, LargestLimit(bound)
      PROVE  Cardinality(t.requests) <= bound
  <2>1. bound \in Nat /\ limit \in Nat /\ limit <= bound
    BY <1>5 DEF LargestLimit
  <2>2. Cardinality(s.requests) <= bound
    BY <1>5 DEF Sound
  <2>3. CASE Room(kept, limit)
    <3>1. Cardinality(kept) < limit  BY <2>3, SMTT(60) DEF Room
    <3>2. t.requests = WithEntry(kept)  BY <1>1, <2>3, SMTT(60)
    <3> HIDE DEF t, kept
    <3> QED  BY <1>4, <2>1, <3>1, <3>2, SMTT(60)
  <2>4. CASE ~Room(kept, limit)
    <3>1. t.requests = kept  BY <1>1, <2>4, SMTT(60)
    <3> HIDE DEF t, kept
    <3> QED  BY <1>3, <1>4, <2>1, <2>2, <3>1, SMTT(60)
  <2> QED  BY <2>3, <2>4, SMTT(60)
<1> HIDE DEF t
<1> QED  BY <1>1, <1>2, <1>5, SMTT(60) DEF Sound, t

\* Whatever the algorithm, a check yields a verdict and a sound state.
LEMMA RunAlgorithmSound ==
  ASSUME NEW s \in LimiterState, NEW limit \in Limits, now \in Nat, Sound(s)
  PROVE  /\ RunAlgorithm(s, limit).verdict \in Verdict
         /\ RunAlgorithm(s, limit).state \in LimiterState
         /\ Sound(RunAlgorithm(s, limit).state)
<1>0. IsFiniteSet(s.requests)
  BY DEF Sound
<1>1. CASE Algorithm = "token_bucket"
  <2>1. RunAlgorithm(s, limit) = TokenBucket(s, limit)
    BY <1>1, SMTT(60) DEF RunAlgorithm
  <2> QED  BY <1>1, <2>1, TokenBucketType, TokenBucketConserves, SMTT(60)
<1>2. CASE Algorithm = "sliding_window"
  <2>1. RunAlgorithm(s, limit) = SlidingWindow(s, limit)
    BY <1>2, SMTT(60) DEF RunAlgorithm
  <2> QED  BY <1>0, <1>2, <2>1, SlidingWindowType, SlidingWindowBounds, SMTT(60)
<1>3. CASE Algorithm = "adaptive_hybrid"
  <2>1. RunAlgorithm(s, limit) = AdaptiveHybrid(s, limit)
    BY <1>3, SMTT(60) DEF RunAlgorithm
  <2> DEFINE t == TokenBucket(s, limit).verdict
             w == SlidingWindow(s, limit).verdict
  <2>2. t \in Verdict /\ w \in Verdict
    BY <1>0, TokenBucketType, SlidingWindowType, ZenonT(60)
  <2> HIDE DEF t, w
  <2>3. LargerOf(t.retryAt, w.retryAt) \in Int
    BY <2>2 DEF LargerOf, Verdict
  <2>4. (t.allowed /\ w.allowed) \in BOOLEAN
    OBVIOUS
  <2>5. /\ AdaptiveHybrid(s, limit).state = s
        /\ AdaptiveHybrid(s, limit).verdict =
             [allowed |-> t.allowed /\ w.allowed, at |-> now, limit |-> limit,
              retryAt |-> LargerOf(t.retryAt, w.retryAt)]
    BY DEF AdaptiveHybrid, t, w
  <2>6. AdaptiveHybrid(s, limit).verdict \in Verdict
    BY <2>3, <2>4, <2>5 DEF Verdict
  <2> QED  BY <2>1, <2>5, <2>6, SMTT(60)
<1> QED  BY <1>1, <1>2, <1>3, SMTT(60)

-----------------------------------------------------------------------------
(* Every step keeps the invariant.                                          *)

\* The limiter starts with nothing saved and no object shared.
LEMMA InitIInv == Init => IInv
<1> SUFFICES ASSUME Init PROVE IInv
  OBVIOUS
<1>1. now \in Nat /\ now = 0
  BY DEF Init
<1>2. NewState(0) \in LimiterState /\ Sound(NewState(0))
  BY <1>1, NewStateSound, SMTT(60)
<1>3. TypeOK
  <2>1. heap \in [Requests -> LimiterState]
    BY <1>2, SMTT(60) DEF Init
  <2> QED  BY <2>1, SMTT(60) DEF Init, TypeOK, NoResult, Live
<1> QED  BY <1>2, <1>3, SMTT(60) DEF Init, IInv

\* The local cache only ever holds references to objects.
LEMMA CacheTyped ==
  ASSUME TypeOK, NEW id, NEW o \in Requests,
         CacheSetAndManage(id, o) \/ CacheSet(id, o)
  PROVE  local' \in [Ids -> Requests \cup {Nil}]
<1>1. CASE CacheSetAndManage(id, o)
  BY <1>1, SMTT(60) DEF TypeOK, CacheSetAndManage
<1>2. CASE CacheSet(id, o)
  BY <1>2, ZenonT(60) DEF TypeOK, CacheSet
<1> QED  BY <1>1, <1>2, SMTT(60)

\* Steps that change neither an object, a saved state nor the clock keep the
\* states sound.
LEMMA SoundUnchanged ==
  ASSUME IInv, TypeOK', UNCHANGED <<now, heap, redis>>
  PROVE  IInv'
  BY DEF IInv, Sound, Conserved, LargestLimit

\* Every step of the limiter keeps the inductive invariant.
LEMMA NextIInv == IInv /\ [Next]_vars => IInv'
<1>i. SUFFICES ASSUME IInv, [Next]_vars PROVE IInv'
  BY SMTT(60)
<1>0. TypeOK /\ now \in Nat
  BY <1>i, SMTT(60) DEF IInv, TypeOK
<1>s. /\ \A q \in Requests : Sound(heap[q])
      /\ \A id \in Ids : redis[id] # Nil => Sound(redis[id].state)
  BY <1>i, SMTT(60) DEF IInv
<1>1. ASSUME NEW r \in Requests, NEW id \in Ids, StartHit(r, id) PROVE IInv'
  <2>1. local[id] \in Requests
    BY <1>0, <1>1, SMTT(60) DEF TypeOK, StartHit
  <2>2. local' \in [Ids -> Requests \cup {Nil}]
    BY <1>0, <1>1, <2>1, CacheTyped, SMTT(60) DEF StartHit
  <2>3. TypeOK'
    BY <1>0, <1>1, <2>1, <2>2, ZenonT(60) DEF TypeOK, StartHit, Live
  <2> QED  BY <1>i, <1>1, <2>3, SoundUnchanged, SMTT(60) DEF StartHit
<1>2. ASSUME NEW r \in Requests, NEW id \in Ids, StartMiss(r, id) PROVE IInv'
  <2>1. CASE RedisHas(id)
    <3>1. redis[id] # Nil /\ redis[id].state \in LimiterState
      BY <1>0, <2>1, SMTT(60) DEF RedisHas, TypeOK
    <3>2. heap' = [heap EXCEPT ![r] = redis[id].state]
      BY <1>2, <2>1, SMTT(60) DEF StartMiss
    <3>3. TypeOK'
      BY <1>0, <1>2, <2>1, <3>1, <3>2, SMTT(60) DEF TypeOK, StartMiss, Live
    <3>4. \A q \in Requests : Sound(heap'[q])
      BY <1>0, <1>s, <3>1, <3>2, SMTT(60) DEF TypeOK
    <3>5. now' = now /\ redis' = redis
      BY <1>2, SMTT(60) DEF StartMiss
    <3> QED  BY <1>s, <3>3, <3>4, <3>5, SMTT(60) DEF IInv, Sound, Conserved, LargestLimit
  <2>2. CASE ~RedisHas(id)
    <3>1. TypeOK'
      BY <1>0, <1>2, <2>2, ZenonT(60) DEF TypeOK, StartMiss, Live
    <3> QED  BY <1>i, <1>2, <2>2, <3>1, SoundUnchanged, SMTT(60) DEF StartMiss
  <2> QED  BY <2>1, <2>2
<1>3. ASSUME NEW r \in Requests, Loaded(r) PROVE IInv'
  <2>1. NewState(now) \in LimiterState /\ Sound(NewState(now))
    BY <1>0, NewStateSound, SMTT(60)
  <2>2. local' \in [Ids -> Requests \cup {Nil}]
    <3>1. CASE orphan[r]
      BY <1>0, <1>3, <3>1, SMTT(60) DEF TypeOK, Loaded
    <3>2. CASE ~orphan[r]
      BY <1>0, <1>3, <3>2, CacheTyped, SMTT(60) DEF Loaded
    <3> QED  BY <3>1, <3>2, SMTT(60)
  <2>3. heap' = heap \/ heap' = [heap EXCEPT ![r] = NewState(now)]
    BY <1>3, SMTT(60) DEF Loaded
  <2>4. TypeOK'
    BY <1>0, <1>3, <2>1, <2>2, <2>3, SMTT(60) DEF TypeOK, Loaded, Live
  <2>5. \A q \in Requests : Sound(heap'[q])
    BY <1>0, <1>s, <2>1, <2>3, SMTT(60) DEF TypeOK
  <2>6. now' = now /\ redis' = redis
    BY <1>3, SMTT(60) DEF Loaded
  <2> QED  BY <1>s, <2>4, <2>5, <2>6 DEF IInv, Sound, Conserved, LargestLimit
<1>4. ASSUME NEW r \in Requests, Check(r) PROVE IInv'
  <2> DEFINE s == heap[ref[r]]
  <2>1. ref[r] \in Requests /\ s \in LimiterState /\ Sound(s)
    BY <1>0, <1>s, SMTT(60) DEF TypeOK
  <2>2. PICK limit \in Limits :
          /\ heap' = [heap EXCEPT ![ref[r]] = RunAlgorithm(s, limit).state]
          /\ result' = [result EXCEPT ![r] = RunAlgorithm(s, limit).verdict]
    BY <1>4, ZenonT(60) DEF Check
  <2>3. /\ RunAlgorithm(s, limit).verdict \in Verdict
        /\ RunAlgorithm(s, limit).state \in LimiterState
        /\ Sound(RunAlgorithm(s, limit).state)
    BY <1>0, <2>1, RunAlgorithmSound
  <2> HIDE DEF s
  <2>4. TypeOK'
    BY <1>0, <1>4, <2>1, <2>2, <2>3 DEF TypeOK, Check, Live, Verdict
  <2>5. \A q \in Requests : Sound(heap'[q])
    BY <1>0, <1>s, <2>1, <2>2, <2>3, SMTT(60) DEF TypeOK
  <2>6. now' = now /\ redis' = redis
    BY <1>4, SMTT(60) DEF Check
  <2> QED  BY <1>s, <2>4, <2>5, <2>6, SMTT(60) DEF IInv, Sound, Conserved, LargestLimit
<1>5. ASSUME NEW r \in Requests, Update(r) PROVE IInv'
  <2>1. ref[r] \in Requests /\ heap[ref[r]] \in LimiterState /\ Sound(heap[ref[r]])
    BY <1>0, <1>s, SMTT(60) DEF TypeOK
  <2>2. local' \in [Ids -> Requests \cup {Nil}]
    <3>1. CASE orphan[r]
      BY <1>0, <1>5, <3>1, SMTT(60) DEF TypeOK, Update
    <3>2. CASE ~orphan[r]
      BY <1>0, <1>5, <2>1, <3>2, CacheTyped, SMTT(60) DEF Update
    <3> QED  BY <3>1, <3>2
  <2>3. redis' = redis \/ redis' = [redis EXCEPT ![rid[r]] = Saved(r)]
    BY <1>5, SMTT(60) DEF Update, SaveState
  <2>4. Saved(r) \in [state : LimiterState, expires : Nat]
        /\ Saved(r).state = heap[ref[r]]
    BY <1>0, <2>1, SMTT(60) DEF Saved
  <2>5. TypeOK'
    <3>1. redis' \in [Ids -> [state : LimiterState, expires : Nat] \cup {Nil}]
      BY <1>0, <2>3, <2>4, SMTT(60) DEF TypeOK
    <3>2. serial' \in [Ids -> BOOLEAN]
      BY <1>0, <1>5, ZenonT(60) DEF TypeOK, Update
    <3>3. pc' \in [Requests -> Live \cup {"idle", "done", "dead"}]
      BY <1>0, <1>5 DEF TypeOK, Update
    <3> QED  BY <1>0, <1>5, <2>2, <3>1, <3>2, <3>3, SMTT(60) DEF TypeOK, Update
  <2>6. \A id \in Ids : redis'[id] # Nil => Sound(redis'[id].state)
    BY <1>0, <1>s, <2>1, <2>3, <2>4 DEF TypeOK
  <2>7. now' = now /\ heap' = heap
    BY <1>5, SMTT(60) DEF Update
  <2> QED  BY <1>s, <2>5, <2>6, <2>7, SMTT(60) DEF IInv, Sound, Conserved, LargestLimit
<1>6. CASE CleanupExpired
  <2>1. TypeOK'  BY <1>0, <1>6, SMTT(60) DEF TypeOK, CleanupExpired
  <2> QED  BY <1>i, <1>6, <2>1, SoundUnchanged, SMTT(60) DEF CleanupExpired
<1>7. CASE Destroy
  <2>1. TypeOK'  BY <1>0, <1>7, SMTT(60) DEF TypeOK, Destroy
  <2> QED  BY <1>i, <1>7, <2>1, SoundUnchanged, SMTT(60) DEF Destroy
<1>8. CASE Restart
  <2>1. TypeOK'  BY <1>0, <1>8, SMTT(60) DEF TypeOK, Restart
  <2> QED  BY <1>i, <1>8, <2>1, SoundUnchanged, SMTT(60) DEF Restart
<1>9. CASE RedisToggle
  <2>1. TypeOK'  BY <1>0, <1>9, SMTT(60) DEF TypeOK, RedisToggle
  <2> QED  BY <1>i, <1>9, <2>1, SoundUnchanged, SMTT(60) DEF RedisToggle
<1>10. CASE Tick
  <2>1. TypeOK'  BY <1>0, <1>10, SMTT(60) DEF TypeOK, Tick
  <2>2. now' \in Nat /\ now <= now'
    BY <1>0, <1>10, SMTT(60) DEF Tick
  <2>3. heap' = heap /\ redis' = redis
    BY <1>10, SMTT(60) DEF Tick
  <2>4. ASSUME NEW q \in Requests PROVE Sound(heap[q])'
    <3>1. heap[q] \in LimiterState /\ Sound(heap[q])
      BY <1>0, <1>s, SMTT(60) DEF TypeOK
    <3>2. heap[q].lastRefill <= now'
      BY <1>0, <2>2, <3>1, SMTT(60) DEF Sound, LimiterState
    <3> QED  BY <2>3, <3>1, <3>2, SMTT(60) DEF Sound, Conserved, LargestLimit
  <2>5. ASSUME NEW id \in Ids, redis[id] # Nil PROVE Sound(redis[id].state)'
    <3>1. redis[id].state \in LimiterState /\ Sound(redis[id].state)
      BY <1>0, <1>s, <2>5, SMTT(60) DEF TypeOK
    <3>2. redis[id].state.lastRefill <= now'
      BY <1>0, <2>2, <3>1, SMTT(60) DEF Sound, LimiterState
    <3> QED  BY <2>3, <3>1, <3>2, SMTT(60) DEF Sound, Conserved, LargestLimit
  <2> QED  BY <2>1, <2>3, <2>4, <2>5, SMTT(60) DEF IInv
<1>11. CASE UNCHANGED vars
  <2>1. TypeOK'  BY <1>0, <1>11, SMTT(60) DEF TypeOK, vars
  <2> QED  BY <1>i, <1>11, <2>1, SoundUnchanged, SMTT(60) DEF vars
<1> QED
  BY <1>i, <1>1, <1>2, <1>3, <1>4, <1>5, <1>6, <1>7, <1>8, <1>9, <1>10, <1>11
  DEF Next

-----------------------------------------------------------------------------

\* The inductive invariant holds of every behaviour.
LEMMA IInvHolds == Spec => []IInv
  BY InitIInv, NextIInv, PTL DEF Spec

\* AdaptiveRateLimiter keeps the types of its state under every interleaving
\* of checks, evictions, restarts and Redis outages.
THEOREM TypeCorrect == Spec => []TypeOK
<1>1. IInv => TypeOK  BY SMTT(60) DEF IInv
<1> QED  BY <1>1, IInvHolds, PTL

\* checkTokenBucket never admits more than the initial bucket plus the refill,
\* for any number of requests, any limits and any refill rate.
THEOREM BucketConserved == Spec => []BucketConservation
<1>1. IInv => BucketConservation  BY SMTT(60) DEF IInv, Sound, BucketConservation
<1> QED  BY <1>1, IInvHolds, PTL

\* checkSlidingWindow never counts more requests than the largest limit.
THEOREM EntriesStayBounded == Spec => []WindowEntriesBounded
<1>1. IInv => WindowEntriesBounded
  BY DEF IInv, Sound, WindowEntriesBounded, EntriesBounded, LargestLimit
<1> QED  BY <1>1, IInvHolds, PTL
=============================================================================
