--------------------------- MODULE SequenceAnalysis ---------------------------
(***************************************************************************)
(* Behavioural sequences: BehavioralStateManager turns a request into a    *)
(* state (action, context) and appends it to its session's sequence,       *)
(* MarkovChain learns the transitions of the whole sequence and validates  *)
(* it, SequenceAnalyzer scores it and keeps journeys and patterns, and     *)
(* MarkovManager counts requests, saves the counters and cleans up.        *)
(*                                                                         *)
(* A request is a shape: the marks its path matches, its method, status,   *)
(* user, agent, address, risk and gap.  Scores are in hundredths of a percent   *)
(* (0.7 is 7000), risk scores in tenths.  No await of processRequest waits *)
(* for I/O, so one request is one step.                                    *)
(***************************************************************************)
EXTENDS Integers, Sequences, FiniteSets, SequencesExt, FiniteSetsExt, Null

CONSTANTS
    BrowserSessions,       \* session ids; "unknown" stands for a request without one
    Shapes,         \* the requests that are sent, each with the gap before it
    TooFast,        \* gaps below this one are suspicious (100 ms)
    TooSlow,        \* gaps above this one are suspicious (5 min)
    Order,          \* states of context per transition
    Smoothing,      \* Laplace smoothing
    PruneBelow,     \* transitions seen less often are pruned
    MaxStates,      \* states known before the chain prunes
    ChainMemory,    \* bytes held before the chain prunes
    CompressAbove,  \* states of a sequence before it is compressed (100)
    GlobalMemory,   \* bytes held before the manager clears its analyzers
    MaxServed,      \* bound on the requests of a behaviour
    MaxBoots        \* bound on resets and restarts

VARIABLES
    sequences,      \* session -> its states and highest risk
    chain,          \* known states and the transition matrix
    patterns,       \* patternCache
    journeys,       \* journeyHistory
    last,           \* what the last request was told
    counts,         \* processedRequests, detectedAnomalies
    savedCounts,    \* markov_manager:stats in Redis
    manager,        \* "up", "closing" or "down"
    served, boots, time

sequenceVars == <<sequences, chain, patterns, journeys, last, counts, savedCounts,
                  manager, served, boots, time>>

-----------------------------------------------------------------------------
(* BehavioralStateManager *)

\* initializeActionPatterns: navigation patterns in the order they are tried.
ActionPatterns == <<"back_button", "refresh", "redirect", "scroll", "click",
                    "rate_limit_hit", "captcha_challenge", "blocked_request">>

\* The first navigation pattern the path matches, or page_view.
Navigation(r) ==
    LET hits == {i \in DOMAIN ActionPatterns : ActionPatterns[i] \in r.marks}
    IN  IF hits = {} THEN "page_view" ELSE ActionPatterns[Min(hits)]

\* determineAction.
DetermineAction(r) ==
    CASE r.status >= 400 ->
            (CASE r.status = 403 -> "error_403"
               [] r.status >= 500 -> "error_500"
               [] OTHER -> "error_404")
      [] r.status < 400 /\ "auth" \in r.marks ->
            (CASE r.method # "POST" -> "login_attempt"
               [] r.method = "POST" /\ r.status = 200 -> "login_success"
               [] OTHER -> "login_failure")
      [] OTHER ->
            IF "logout" \in r.marks THEN "logout"
            ELSE IF "api" \in r.marks THEN "api_call"
            ELSE IF "search" \in r.marks THEN "search"
            ELSE IF r.method = "POST" /\ "inner_api" \notin r.marks THEN "form_submit"
            ELSE IF "download" \in r.marks THEN "download"
            ELSE IF r.method = "POST" /\ "upload" \in r.marks THEN "upload"
            ELSE CASE r.method = "GET" -> Navigation(r)
                   [] r.method \in {"PUT", "PATCH"} -> "form_submit"
                   [] r.method = "DELETE" -> "api_call"
                   [] OTHER -> "page_view"

\* determineContext: the rules in their order, then the risk, then the user.
DetermineContext(r, s) ==
    CASE r.ip = "listed" -> "suspicious"
      [] r.ip # "listed" /\ ("admin" \in r.marks \/ r.user = "admin") -> "privileged"
      [] OTHER ->
            IF r.user = Nil /\ s = "unknown" THEN "anonymous"
            ELSE IF r.agent = "bot" THEN "suspicious"
            ELSE IF r.risk # Nil /\ r.risk > 8 THEN "suspicious"
            ELSE IF r.risk # Nil /\ r.risk > 6 THEN "restricted"
            ELSE IF r.user # Nil THEN "authenticated"
            ELSE "normal"

\* createBehavioralState.
CreateBehavioralState(r, s, now) ==
    [key |-> <<DetermineAction(r), DetermineContext(r, s)>>, at |-> now]

\* The importance compression gives an action.
Importance(action) ==
    CASE action = "login_success" -> 10
      [] action \in {"login_failure", "login_attempt"} -> 9
      [] action \in {"logout", "blocked_request"} -> 8
      [] action \in {"error_500", "rate_limit_hit"} -> 7
      [] action \in {"error_403", "form_submit", "captcha_challenge"} -> 6
      [] action \in {"error_404", "api_call", "upload"} -> 5
      [] action \in {"search", "download"} -> 4
      [] action \in {"page_view", "redirect", "back_button", "refresh"} -> 2
      [] OTHER -> 1

\* compressByHybrid's order: a step of importance outweighs any recency, the
\* later of equally important states comes first, and the sort is stable.
Before(states, i, j) ==
    LET a == Importance(states[i].key[1])
        b == Importance(states[j].key[1])
    IN  \/ a > b
        \/ a = b /\ states[i].at > states[j].at
        \/ a = b /\ states[i].at = states[j].at /\ i < j

\* compressSequence with the default configuration: keep 70 % of the states.
CompressSequence(states) ==
    LET ahead(i) == {j \in DOMAIN states : Before(states, j, i)}
        sorted == [n \in DOMAIN states |->
                     states[CHOOSE i \in DOMAIN states : Cardinality(ahead(i)) = n - 1]]
    IN  SubSeq(sorted, 1, (7 * Len(states)) \div 10)

\* addToSequence.
AddToSequence(seq, state, risk) ==
    LET grown == Append(seq.states, state)
    IN  [states |-> IF Len(grown) > CompressAbove THEN CompressSequence(grown) ELSE grown,
         risk   |-> IF risk = Nil THEN seq.risk
                    ELSE IF seq.risk = Nil THEN risk
                    ELSE Max({seq.risk, risk})]

-----------------------------------------------------------------------------
(* MarkovChain *)

KeysOf(states) == [i \in DOMAIN states |-> states[i].key]

\* buildContext and the state that followed, at each window of the sequence.
WindowsOf(states) ==
    [i \in 1 .. Max({0, Len(states) - Order}) |->
        [from |-> KeysOf(SubSeq(states, i, i + Order - 1)), to |-> states[i + Order].key]]

EmptyChain == [known |-> {}, rows |-> [c \in {} |-> {}]]

\* encodeState: a state met for the first time becomes known.
Encode(c, states) == [c EXCEPT !.known = @ \cup ToSet(KeysOf(states))]

RowOf(c, from) == IF from \in DOMAIN c.rows THEN c.rows[from] ELSE [n \in {} |-> {}]

\* updateProbabilities: Laplace smoothing over the whole row.
UpdateProbabilities(counted) ==
    LET total == MapThenSumSet(LAMBDA n : counted[n], DOMAIN counted)
    IN  [n \in DOMAIN counted |->
            [count |-> counted[n], pn |-> counted[n] + Smoothing,
             pd |-> total + Smoothing * Cardinality(DOMAIN counted)]]

\* updateTransition for every window of a sequence: the rows it touches count
\* its transitions, and the last update of a row settles its probabilities.
UpdateTransitions(c, ws) ==
    LET seen(f, n) == Cardinality({i \in DOMAIN ws : ws[i].from = f /\ ws[i].to = n})
        nexts(f) == {ws[i].to : i \in {j \in DOMAIN ws : ws[j].from = f}}
        counted(f) == LET row == RowOf(c, f)
                      IN  [n \in DOMAIN row \cup nexts(f) |->
                              (IF n \in DOMAIN row THEN row[n].count ELSE 0) + seen(f, n)]
    IN  [c EXCEPT !.rows = [f \in DOMAIN @ \cup {ws[i].from : i \in DOMAIN ws} |->
                               IF nexts(f) = {} THEN @[f] ELSE UpdateProbabilities(counted(f))]]

Transitions(c) == MapThenSumSet(LAMBDA f : Cardinality(DOMAIN c.rows[f]), DOMAIN c.rows)

\* calculateMemoryUsage.
ChainUsage(c) == 50 * Cardinality(c.known) + 200 * Transitions(c)

\* shouldPrune.
ShouldPrune(c) == Cardinality(c.known) > MaxStates \/ ChainUsage(c) > ChainMemory

\* pruneTransitions: rare transitions go, and rows left empty; the other
\* probabilities and the known states stay as they are.
PruneTransitions(c) ==
    LET kept(f) == {n \in DOMAIN c.rows[f] : c.rows[f][n].count >= PruneBelow}
    IN  [c EXCEPT !.rows = [f \in {g \in DOMAIN @ : kept(g) # {}} |->
                               [n \in kept(f) |-> @[f][n]]]]

\* The chain after learnSequence, before it prunes.
Learnt(c, states) == UpdateTransitions(Encode(c, states), WindowsOf(states))

\* Mutant: only the newest transition is learnt.
LearnNewest(c, states) ==
    IF Len(states) < Order + 1 THEN c
    ELSE Learnt(Encode(c, states), SubSeq(states, Len(states) - Order, Len(states)))

\* learnSequence.
LearnSequence(c, states) ==
    IF Len(states) < Order + 1 THEN c
    ELSE IF ShouldPrune(Learnt(c, states)) THEN PruneTransitions(Learnt(c, states))
    ELSE Learnt(c, states)

\* predictNext: the most probable successors of the last states.
PredictNext(c, states) ==
    LET row == RowOf(c, KeysOf(SubSeq(states, Len(states) - Order + 1, Len(states))))
    IN  IF Len(states) < Order THEN {}
        ELSE {n \in DOMAIN row : \A m \in DOMAIN row :
                 row[n].pn * row[m].pd >= row[m].pn * row[n].pd}

\* validateSequence: transitions the chain does not know, and those it finds
\* improbable or too fast.
Missing(c, w) == w.to \notin DOMAIN RowOf(c, w.from)
Improbable(c, w) ==
    ~Missing(c, w) /\ 10 * c.rows[w.from][w.to].pn < c.rows[w.from][w.to].pd

ValidateSequence(c, states) ==
    LET ws == WindowsOf(states)
        high == {i \in DOMAIN ws : Missing(c, ws[i])}
        low == {i \in DOMAIN ws : Improbable(c, ws[i])}
        fast == {i \in DOMAIN ws : i > 1 /\ states[i + 1].at - states[i].at < TooFast}
    IN  [high |-> Cardinality(high),
         all  |-> Cardinality(high) + Cardinality(low) + Cardinality(fast)]

-----------------------------------------------------------------------------
(* SequenceAnalyzer *)

\* calculateSequenceAnomalyScore.
SequenceScore(cache, states) ==
    LET text == KeysOf(states)
    IN  IF text \notin DOMAIN cache THEN 80
        ELSE IF cache[text].frequency < 5 THEN 60
        ELSE IF cache[text].anomalous THEN 90
        ELSE 20

\* calculateTransitionAnomalyScore.
TransitionScore(v) == Min({100, 30 * v.high})

\* calculateTimingAnomalyScore.
TimingScore(states) ==
    Min({100, 20 * Cardinality({i \in 2 .. Len(states) :
                LET gap == states[i].at - states[i - 1].at
                IN  gap < TooFast \/ gap > TooSlow})})

\* hasContextMismatch.
ContextMismatch(states) ==
    {"suspicious", "normal"} \subseteq {states[i].key[2] : i \in DOMAIN states}

\* The kind detectSequenceAnomaly names.
AnomalyType(transition, timing, states) ==
    IF transition > 80 THEN "impossible_transition"
    ELSE IF timing > 60 THEN "timing_anomaly"
    ELSE IF ContextMismatch(states) THEN "context_mismatch"
    ELSE "rare_sequence"

\* determineSeverity.
Severity(score, type) ==
    IF score > 9000 \/ type = "impossible_transition" THEN "critical"
    ELSE IF score > 7000 THEN "high"
    ELSE IF score > 5000 THEN "medium"
    ELSE "low"

\* detectSequenceAnomaly, over the chain it is given.
DetectSequenceAnomaly(c, cache, states) ==
    LET v == ValidateSequence(c, states)
        transition == TransitionScore(v)
        timing == TimingScore(states)
        score == 40 * SequenceScore(cache, states) + 40 * transition + 20 * timing
        type == AnomalyType(transition, timing, states)
    IN  IF Len(states) < 2
        THEN [flagged |-> FALSE, score |-> 5000, type |-> "rare_sequence",
              severity |-> "low", confidence |-> 5]
        ELSE [flagged |-> score > 7000, score |-> score, type |-> type,
              severity |-> Severity(score, type),
              confidence |-> Max({0, 10 - 2 * v.all})]

\* The states a prediction and a validation encode as well.
Consulted(c, states) == IF Len(states) < 2 THEN c ELSE Encode(c, states)

\* createUserJourney and updateUserJourney.
UpdateUserJourney(journey, seq, state, result) ==
    IF journey = Nil
    THEN [path |-> KeysOf(seq.states), anomalous |-> FALSE,
          risk |-> IF seq.risk = Nil THEN 0 ELSE 1000 * seq.risk]
    ELSE [path |-> Append(journey.path, state.key),
          anomalous |-> journey.anomalous \/ result.flagged,
          risk |-> Max({journey.risk, result.score})]

\* discoverPatterns: every run of two to five states of every session.
Occurrences(h) ==
    {o \in BrowserSessions \X (1 .. CompressAbove) \X (2 .. 5) :
        o[2] + o[3] - 1 <= Len(h[o[1]].states)}
Texts(h) ==
    [o \in Occurrences(h) |-> KeysOf(SubSeq(h[o[1]].states, o[2], o[2] + o[3] - 1))]

\* A pattern is anomalous when the average risk of its sequences exceeds 0.7.
Pattern(h, found) ==
    LET rated == {o \in found : h[o[1]].risk # Nil}
    IN  [frequency |-> Cardinality(found),
         anomalous |-> MapThenSumSet(LAMBDA o : h[o[1]].risk, rated) > 7 * Cardinality(rated)]

DiscoverPatterns(cache, h, atLeast) ==
    LET texts == Texts(h)
        places == [t \in Range(texts) |-> {o \in DOMAIN texts : texts[o] = t}]
        found == {t \in DOMAIN places : Cardinality(places[t]) >= atLeast}
    IN  [t \in DOMAIN cache \cup found |->
            IF t \in found THEN Pattern(h, places[t]) ELSE cache[t]]

-----------------------------------------------------------------------------
(* MarkovManager *)

NoHistory == [s \in BrowserSessions |-> [states |-> << >>, risk |-> Nil]]
NoJourneys == [s \in BrowserSessions |-> Nil]
NoCounts == [processed |-> 0, detected |-> 0]

\* SequenceAnalyzer.clear: sequences stay.
ClearAnalyzer ==
    /\ chain' = EmptyChain
    /\ journeys' = NoJourneys
    /\ patterns' = [t \in {} |-> {}]

SequenceInit ==
    /\ sequences = NoHistory
    /\ chain = EmptyChain
    /\ patterns = [t \in {} |-> {}]
    /\ journeys = NoJourneys
    /\ last = Nil
    /\ counts = NoCounts
    /\ savedCounts = Nil
    /\ manager = "up"
    /\ served = 0 /\ boots = 0 /\ time = 0

\* SequenceAnalyzer.processRequest: the state is added, the sequence learnt, and
\* only then judged.
Analyze(s, r, now) ==
    LET state == CreateBehavioralState(r, s, now)
        seq == AddToSequence(sequences[s], state, r.risk)
        learnt == Consulted(LearnSequence(chain, seq.states), seq.states)
        result == DetectSequenceAnomaly(learnt, patterns, seq.states)
    IN  [seq |-> seq, chain |-> learnt, result |-> result,
         journey |-> UpdateUserJourney(journeys[s], seq, state, result)]

\* MarkovManager.processRequest; the insights it generates discover patterns
\* after the request was judged.
ProcessSequence(s, r) ==
    LET a == Analyze(s, r, time + r.gap)
        h == [sequences EXCEPT ![s] = a.seq]
    IN  /\ manager # "down" /\ served < MaxServed
        /\ sequences' = h
        /\ chain' = a.chain
        /\ journeys' = [journeys EXCEPT ![s] = a.journey]
        /\ patterns' = DiscoverPatterns(patterns, h, 3)
        /\ last' = [result |-> a.result, next |-> PredictNext(a.chain, a.seq.states),
                    pruned |-> Len(a.seq.states) > Order
                               /\ ShouldPrune(Learnt(chain, a.seq.states))]
        /\ counts' = [processed |-> counts.processed + 1,
                      detected |-> counts.detected + (IF a.result.flagged THEN 1 ELSE 0)]
        /\ time' = time + r.gap
        /\ served' = served + 1
        /\ UNCHANGED <<savedCounts, manager, boots>>

\* getTotalMemoryUsage and isMemoryUsageHealthy.
TotalMemory ==
    ChainUsage(chain)
    + MapThenSumSet(LAMBDA s : IF sequences[s].states = << >> THEN 0
                               ELSE 200 + 500 * Len(sequences[s].states), BrowserSessions)

\* performCleanup.
PerformMarkovCleanup ==
    /\ manager = "up"
    /\ TotalMemory > GlobalMemory
    /\ ClearAnalyzer
    /\ UNCHANGED <<sequences, last, counts, savedCounts, manager, served, boots, time>>

\* persistToStorage: the counters as they are when the third key is written.
PersistMarkov ==
    /\ manager = "up"
    /\ savedCounts' = counts
    /\ UNCHANGED <<sequences, chain, patterns, journeys, last, counts, manager, served, boots, time>>

\* reset.
ResetMarkov ==
    /\ manager = "up" /\ boots < MaxBoots
    /\ ClearAnalyzer
    /\ counts' = NoCounts
    /\ boots' = boots + 1
    /\ UNCHANGED <<sequences, last, savedCounts, manager, served, time>>

\* shutdown: the timers stop and the counters are saved ...
CloseMarkov ==
    /\ manager = "up"
    /\ manager' = "closing"
    /\ savedCounts' = counts
    /\ UNCHANGED <<sequences, chain, patterns, journeys, last, counts, served, boots, time>>

\* ... and once they are, the analyzers are cleared; a crash ends here too.
StopMarkov ==
    /\ manager # "down"
    /\ manager' = "down"
    /\ ClearAnalyzer
    /\ sequences' = NoHistory /\ last' = Nil /\ counts' = NoCounts
    /\ UNCHANGED <<savedCounts, served, boots, time>>

LoadFromPersistence == counts' = IF savedCounts = Nil THEN NoCounts ELSE savedCounts

\* initialize.
StartMarkov ==
    /\ manager = "down" /\ boots < MaxBoots
    /\ manager' = "up"
    /\ boots' = boots + 1
    /\ LoadFromPersistence
    /\ UNCHANGED <<sequences, chain, patterns, journeys, last, savedCounts, served, time>>

\* The hour the saved counters live passes.
MarkovExpire ==
    /\ savedCounts # Nil
    /\ savedCounts' = Nil
    /\ UNCHANGED <<sequences, chain, patterns, journeys, last, counts, manager, served, boots, time>>

SequenceNext ==
    \/ \E s \in BrowserSessions, r \in Shapes : ProcessSequence(s, r)
    \/ PerformMarkovCleanup
    \/ PersistMarkov
    \/ ResetMarkov
    \/ CloseMarkov
    \/ StopMarkov
    \/ StartMarkov
    \/ MarkovExpire

SequenceSpec == SequenceInit /\ [][SequenceNext]_sequenceVars

-----------------------------------------------------------------------------
\* A request is called anomalous only when learning it pruned the chain:
\* processRequest learns a sequence before it validates it, so a sequence
\* misses transitions only if pruneTransitions has just dropped them, and
\* without two missing ones no pattern, context or timing reaches 0.7.
FlaggedOnlyWhenPruned == last # Nil /\ last.result.flagged => last.pruned
=============================================================================
