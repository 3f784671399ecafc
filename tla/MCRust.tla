------------------------------- MODULE MCRust -------------------------------
(* The cache, the worker pool, the pattern matcher and the compressor of    *)
(* the Rust engine for TLC.  They share nothing, so one of them moves in    *)
(* each behaviour.                                                          *)
EXTENDS CacheStore, WorkerPool, PatternMatcher, RunLength

CONSTANTS p1, p2, x1, x2
VARIABLE part

\* One text that both patterns match, and one that only the second does.
FewMatches == {<<p1, x1>>, <<p2, x1>>, <<p2, x2>>}

Init ==
  /\ part \in {"cache", "pool", "matcher", "compressor"}
  /\ CacheInit /\ PoolInit /\ MatcherInit /\ InputInit
  /\ part # "cache" => config = CHOOSE p \in Policies : TRUE

Next ==
  \/ part = "cache" /\ CacheNext /\ UNCHANGED <<part, poolVars, matcherVars, input>>
  \/ part = "pool" /\ PoolNext /\ UNCHANGED <<part, cacheVars, matcherVars, input>>
  \/ part = "matcher" /\ MatcherNext /\ UNCHANGED <<part, cacheVars, poolVars, input>>
  \/ part = "compressor" /\ InputNext /\ UNCHANGED <<part, cacheVars, poolVars, matcherVars>>

Spec ==
  /\ Init /\ [][Next]_<<part, cacheVars, poolVars, matcherVars, input>>
  /\ part = "pool" => PoolFairness
=============================================================================
