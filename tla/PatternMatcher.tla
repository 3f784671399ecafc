--------------------------- MODULE PatternMatcher ---------------------------
(***************************************************************************)
(* The pattern matcher of src/analysis/pattern_matcher.rs: threads match   *)
(* texts against the patterns, under two read-write locks, and share a     *)
(* cache of results, while patterns are added, enabled and disabled.       *)
(* Which pattern matches which text is a constant.                         *)
(***************************************************************************)
EXTENDS Null, Naturals, FiniteSets

CONSTANTS
  Patterns, Texts,
  Matches,            \* the pairs <<pattern, text>> whose regex finds something
  Matchers,
  CacheSize,
  MaxChanges          \* bound

ASSUME MatcherAssumption == Matches \subseteq Patterns \X Texts /\ CacheSize \in Nat

VARIABLES
  patterns,           \* pattern -> Nil, "enabled" or "disabled"
  cache,              \* text -> Nil or [found, version]
  matcher,            \* match_text: step, text and the result so far
  changes,            \* edits of the patterns so far: their version
  newest              \* history: text -> version of the newest result cached

matcherVars == <<patterns, cache, matcher, changes, newest>>

NoMatch == [pc |-> "none", text |-> Nil, found |-> {}, version |-> 0]

MatcherInit ==
  /\ patterns = [p \in Patterns |-> Nil]
  /\ cache = [x \in Texts |-> Nil]
  /\ matcher = [t \in Matchers |-> NoMatch]
  /\ changes = 0 /\ newest = [x \in Texts |-> 0]

-----------------------------------------------------------------------------

Cached == {x \in Texts : cache[x] # Nil}

\* get_cached_matches: a hit is the answer.
GetCachedMatches(t, x) ==
  /\ matcher[t].pc = "none"
  /\ matcher' = IF x \in Cached THEN matcher
                ELSE [matcher EXCEPT ![t] = [NoMatch EXCEPT !.pc = "missed", !.text = x]]
  /\ UNCHANGED <<patterns, cache, changes, newest>>

\* The patterns are read-locked, and stay so until match_text returns.
FindPatternMatches(t) ==
  /\ matcher[t].pc = "missed"
  /\ matcher' = [matcher EXCEPT ![t].pc = "found", ![t].version = changes,
       ![t].found = {p \in Patterns : patterns[p] = "enabled" /\ <<p, matcher[t].text>> \in Matches}]
  /\ UNCHANGED <<patterns, cache, changes, newest>>

\* cache_matches: an empty result is not kept; in a full cache arbitrary keys
\* make room.
CacheMatches(t) ==
  /\ matcher[t].pc = "found"
  /\ matcher' = [matcher EXCEPT ![t] = NoMatch]
  /\ LET m == matcher[t]
     IN IF m.found = {} THEN UNCHANGED <<cache, newest>>
        ELSE \E gone \in SUBSET Cached :
               /\ Cardinality(gone) = IF Cardinality(Cached) >= CacheSize
                                      THEN Cardinality(Cached) - CacheSize + (IF CacheSize = 0 THEN 0 ELSE 1)
                                      ELSE 0
               /\ cache' = [x \in Texts |-> IF x = m.text THEN [found |-> m.found, version |-> m.version]
                                            ELSE IF x \in gone THEN Nil ELSE cache[x]]
               /\ newest' = [newest EXCEPT ![m.text] = IF m.version > @ THEN m.version ELSE @]
  /\ UNCHANGED <<patterns, changes>>

\* Mutant: the read lock ends with the search.
WriteLockAnyTime == TRUE

\* No thread holds the read lock.
WriteLock == \A t \in Matchers : matcher[t].pc # "found"

\* add_pattern, whose regex may not compile, enable_pattern and disable_pattern.
ChangePattern(p, to) ==
  /\ changes < MaxChanges
  /\ WriteLock
  /\ patterns' = [patterns EXCEPT ![p] = to]
  /\ changes' = changes + 1
  /\ UNCHANGED <<cache, matcher, newest>>

AddPattern(p, to) == ChangePattern(p, to)
EnablePattern(p) == patterns[p] # Nil /\ ChangePattern(p, "enabled")
DisablePattern(p) == patterns[p] # Nil /\ ChangePattern(p, "disabled")

MatcherNext ==
  \/ \E t \in Matchers : FindPatternMatches(t) \/ CacheMatches(t) \/ \E x \in Texts : GetCachedMatches(t, x)
  \/ \E p \in Patterns :
       EnablePattern(p) \/ DisablePattern(p) \/ \E to \in {"enabled", "disabled"} : AddPattern(p, to)

MatcherSpec == MatcherInit /\ [][MatcherNext]_matcherVars

-----------------------------------------------------------------------------

\* The lock on the patterns is held while a result is cached, so threads never
\* put an older result over a newer one: what the cache says of a text is the
\* newest result it was ever given.
NewestCached == \A x \in Cached : cache[x].version = newest[x]
=============================================================================
