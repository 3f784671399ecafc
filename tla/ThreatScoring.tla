---------------------------- MODULE ThreatScoring ----------------------------
(***************************************************************************)
(* How detectThreats (core/ThreatDetectionEngine.ts) scores a request:     *)
(* core/BehavioralAnalyzer.ts, then the statistical analyzer (module       *)
(* TrafficStatistics; here any of its answers), then                       *)
(* core/RelationshipAnalyzer.ts and core/RiskScoringEngine.ts with the     *)
(* context of the request.                                                 *)
(*                                                                         *)
(* A request suspends in the first two analyzers.  A failed read is a miss *)
(* and a failed write is not noticed (RedisService.safeOperation), and the *)
(* keys of a session are not read again, so failures change nothing here.  *)
(*                                                                         *)
(* Analyzer scores are in thousandths, cluster threat levels in            *)
(* hundredths, final scores in units of 10^-8.                             *)
(***************************************************************************)
EXTENDS Null, Integers, Sequences, FiniteSets, FiniteSetsExt, SequencesExt

CONSTANTS
  Visits,              \* the requests; each has a fresh session id
  Addresses,           \* their addresses
  PlaceOf,             \* address -> country, region and city, or Nil: not found
  HighRiskPlaces,      \* the places in a country of calculateGeographicRisk
  PrivateAddresses,    \* those isSuspiciousIP matches
  Gone,                \* an address that is undefined: the client has left
  Agents, BotAgents,   \* user agents, and those isSuspiciousUserAgent matches
  MouseMoves,          \* the random numbers drawn: 0..9
  StatisticalScores,   \* what StatisticalAnalyzer.analyze may return
  Hours,               \* when requests come: "business", "evening", "night", "weekend" or
                       \* "weekend night"
  DenseAbove,          \* addresses of a cluster above which its threat grows (10)
  DensityStep,         \* by how much (0.05)
  ContextCap           \* contexts kept (1000)

VARIABLES
  visit,           \* the requests in progress
  latest,          \* the assessment the last step made, if it made one
  behaviorCache,   \* sessions whose pattern is cached
  clusters,        \* place -> its addresses and threat level
  contextCache,    \* sessions in insertion order
  detection        \* detectionMetrics

scoringVars == <<visit, latest, behaviorCache, clusters, contextCache, detection>>

Places == {PlaceOf[a] : a \in Addresses} \ {Nil}

NoVisit == [pc |-> "new", address |-> Nil, behavioral |-> 0, throws |-> FALSE, statistical |-> 0]

ScoringInit ==
  /\ visit = [r \in Visits |-> NoVisit] /\ latest = Nil
  /\ behaviorCache = {} /\ contextCache = <<>>
  /\ clusters = [p \in Places |-> [members |-> {}, threat |-> 0]]
  /\ detection = [total |-> 0, threats |-> 0]

-----------------------------------------------------------------------------
(* The behaviour of the session.                                           *)

\* createNewBehaviorPattern and updateBehaviorPattern.  The session id is new,
\* so the pattern has one request; its timestamp is set before the timing is
\* computed, so no time has passed.  Mouse movements are a random number.
UpdateBehaviorPattern(mouse) ==
  [requests |-> 1, paths |-> 1, bursts |-> 1, direct |-> 1, mouse |-> mouse, minutes |-> 0]

\* calculateRiskIndicators, each with its score and its weight, in tenths of a
\* thousandth together.
CalculateRiskIndicators(p) ==
  LET rate == p.requests \div Max({p.minutes, 1})
  IN (IF rate > 60 THEN {<<"request_frequency", 8 * Min({10 * rate, 1000})>>} ELSE {})
     \cup (IF p.bursts > 10 THEN {<<"timing_anomaly", 7 * Min({50 * p.bursts, 1000})>>} ELSE {})
     \cup (IF p.direct > 5 THEN {<<"navigation_suspicious", 6 * Min({100 * p.direct, 1000})>>} ELSE {})
     \cup (IF p.mouse < 2 * p.paths THEN {<<"interaction_robotic", 9 * 900>>} ELSE {})
     \cup (IF p.minutes > 60 THEN {<<"session_anomaly", 7 * 750>>} ELSE {})

\* calculateBehavioralRisk; 100 is also the answer of the catch.
CalculateBehavioralRisk(p, agent, address) ==
  LET indicators == CalculateRiskIndicators(p)
      average == MapThenSumSet(LAMBDA i : i[2], indicators) \div Cardinality(indicators)
      young == IF p.paths < 5 THEN 12 ELSE 10
      bot == IF agent \in BotAgents THEN 13 ELSE 10
      private == IF address \in PrivateAddresses THEN 14 ELSE 10
  IN IF indicators = {} \/ address = Gone THEN 100
     ELSE Min({(((average * young) * bot) * private) \div 10000, 1000})

Throws(p, address) == CalculateRiskIndicators(p) # {} /\ address = Gone

\* analyze up to its last await: the read of behavior:session finds nothing,
\* the pattern is made and rated, and written for an hour.  No other request
\* has this session, and nothing reads the pattern again.
BeginVisit(r, address, agent, mouse) ==
  LET p == UpdateBehaviorPattern(mouse)
  IN /\ visit[r].pc = "new"
     /\ visit' = [visit EXCEPT ![r] = [@ EXCEPT !.pc = "stored", !.address = address,
                    !.behavioral = CalculateBehavioralRisk(p, agent, address),
                    !.throws = Throws(p, address)]]
     /\ latest' = Nil /\ UNCHANGED <<behaviorCache, clusters, contextCache, detection>>

\* The pattern is written and cached, unless rating it threw, and the
\* statistical analyzer begins.  Nothing takes a pattern out of the cache.
BehaviorAnalyzed(r) ==
  /\ visit[r].pc = "stored"
  /\ behaviorCache' = IF visit[r].throws THEN behaviorCache ELSE behaviorCache \cup {r}
  /\ visit' = [visit EXCEPT ![r].pc = "counting"]
  /\ latest' = Nil /\ UNCHANGED <<clusters, contextCache, detection>>

-----------------------------------------------------------------------------
(* Relationships, and the score in its context.                            *)

\* updateGeographicClusters.  The threat level of a cluster only grows.
UpdateClusters(address) ==
  LET p == PlaceOf[address]
      members == clusters[p].members \cup {address}
      grown == IF Cardinality(members) > DenseAbove THEN clusters[p].threat + DensityStep
               ELSE clusters[p].threat
  IN IF p = Nil THEN clusters
     ELSE [clusters EXCEPT ![p] = [members |-> members, threat |-> Min({grown, 100})]]

\* calculateRelationshipRisk.  getRecentRequests finds no request, so the graph
\* stays empty, no attack is detected and only the cluster counts.
CalculateRelationshipRisk(cs, address) ==
  LET p == PlaceOf[address]
  IN IF p # Nil /\ cs[p].threat > 50 THEN 2 * cs[p].threat ELSE 0

\* analyze: the place of the address joins its cluster before the risk is taken.
RelationshipRisk(address) == CalculateRelationshipRisk(UpdateClusters(address), address)

\* calculateBaseScore, in units of 10^-4.
CalculateBaseScore(b, s, r) == 4 * b + 3 * s + 3 * r

\* Each request is of a new user, unauthenticated and of a session that has just
\* begun; none is known to be frequent, bot-like or of poor reputation.
SessionMultipliers == <<11, 12, 11>>

\* extractGeographicContext, in hundredths.  No address is found to be a VPN, a
\* proxy or Tor.
GeographicRisk(p) == IF p = Nil THEN 50 ELSE IF p \in HighRiskPlaces THEN 80 ELSE 20

\* The multipliers of a context whose condition holds, in tenths.
Multipliers(hour, address) ==
  << IF hour # "business" THEN 12 ELSE 10,
     IF hour \in {"weekend", "weekend night"} THEN 11 ELSE 10,
     IF hour \in {"night", "weekend night"} THEN 13 ELSE 10,
     IF GeographicRisk(PlaceOf[address]) > 70 THEN 14 ELSE 10 >>
  \o SessionMultipliers

\* In units of 10^-7, in which every product is exact.
Product(ms) == FoldLeft(LAMBDA x, m : (x * m) \div 10, 10000000, ms)

\* Mutant: the context counts in full.
InsensitiveMultiplier(ms) == Product(ms) \div 1000

\* 1 + (multiplier - 1) * contextSensitivity, in units of 10^-4.
SensitizedMultiplier(ms) == (30000000 + 7 * Product(ms)) \div 10000

ApplyContextualMultipliers(base, hour, address) ==
  Min({base * SensitizedMultiplier(Multipliers(hour, address)), 100000000})

DetermineRiskLevel(score) ==
  CASE score >= 85000000 -> "critical"
    [] score >= 70000000 /\ score < 85000000 -> "high"
    [] score >= 50000000 /\ score < 70000000 -> "medium"
    [] score < 50000000 -> "low"

IdentifyThreatTypes(score) ==
  {t \in {<<8, "malicious_behavior">>, <<6, "suspicious_pattern">>, <<4, "anomaly_detected">>} :
     score > 10000000 * t[1]}

IdentifyContributingFactors(b, hour) ==
  {f \in {"behavioral_anomaly", "off_hours_access"} :
     IF f = "behavioral_anomaly" THEN b > 700 ELSE hour # "business"}

\* calculateConfidence, in hundredths.
CalculateConfidence(address) == IF PlaceOf[address] = Nil THEN 40 ELSE 60

\* calculateContextualRisk.
ContextualRisk(v, relationship, hour) ==
  LET base == CalculateBaseScore(v.behavioral, v.statistical, relationship)
      score == ApplyContextualMultipliers(base, hour, v.address)
  IN [base |-> base, score |-> score, level |-> DetermineRiskLevel(score),
      confidence |-> CalculateConfidence(v.address),
      factors |-> IdentifyContributingFactors(v.behavioral, hour)]

\* The catch of calculateContextualRisk.
FallbackRisk(v, relationship) ==
  LET base == CalculateBaseScore(v.behavioral, v.statistical, relationship)
  IN [base |-> base, score |-> base * 10000, level |-> "medium", confidence |-> 50, factors |-> {}]

\* generateEnhancedThreatAssessment.
Assessment(risk) ==
  [score |-> risk.score, level |-> risk.level, confidence |-> risk.confidence, factors |-> risk.factors,
   types |-> IdentifyThreatTypes(risk.score)]

UpdateDetection(a) ==
  [total |-> detection.total + 1,
   threats |-> IF a.score > 70000000 THEN detection.threats + 1 ELSE detection.threats]

\* cacheContext drops the entry that was inserted first.
CacheContext(r) ==
  LET grown == Append(contextCache, r)
  IN IF Len(grown) > ContextCap THEN Tail(grown) ELSE grown

\* StatisticalAnalyzer.analyze returns: the rest of detectThreats up to
\* executeResponse.
Assess(r, statistical, hour, fails) ==
  LET v == [visit[r] EXCEPT !.statistical = statistical]
      relationship == RelationshipRisk(v.address)
      a == Assessment(IF fails THEN FallbackRisk(v, relationship) ELSE ContextualRisk(v, relationship, hour))
  IN /\ v.pc = "counting"
     /\ clusters' = UpdateClusters(v.address)
     /\ contextCache' = IF fails THEN contextCache ELSE CacheContext(r)
     /\ visit' = [visit EXCEPT ![r] = [NoVisit EXCEPT !.pc = "assessed"]]
     /\ latest' = [behavioral |-> v.behavioral, assessment |-> a]
     /\ detection' = UpdateDetection(a)
     /\ UNCHANGED behaviorCache

ScoringNext ==
  \/ \E r \in Visits :
       \/ \E a \in Addresses, u \in Agents, m \in MouseMoves : BeginVisit(r, a, u, m)
       \/ BehaviorAnalyzed(r)
       \/ \E s \in StatisticalScores, hour \in Hours, fails \in BOOLEAN : Assess(r, s, hour, fails)

ScoringSpec == ScoringInit /\ [][ScoringNext]_scoringVars

-----------------------------------------------------------------------------

\* The level of a request is decided by its behavioural score: neither the
\* traffic, the cluster nor the worst context makes a request critical whose
\* behaviour is unremarkable, and one that looks robotic is never low, at the
\* quietest time (the weights and thresholds of getDefaultRiskScoringConfig).
LevelFollowsBehaviour ==
  latest # Nil =>
    /\ latest.assessment.level = "critical" => latest.behavioral >= 900
    /\ latest.behavioral >= 900 => latest.assessment.level # "low"
=============================================================================
