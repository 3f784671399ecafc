---------------------------- MODULE PolicyManager ----------------------------
(***************************************************************************)
(* The rate limiting policies and the limiters made from them:             *)
(* core/rateLimit/RateLimitPolicies.ts, services/RateLimitManager.ts and   *)
(* the emergency mode of services/RateLimitIntegration.ts.  A request is   *)
(* given a policy and its limiter in one synchronous stretch and awaits    *)
(* the limiter after it; policies change while it waits.                   *)
(***************************************************************************)
EXTENDS Null, Integers, Sequences, FiniteSets, SequencesExt, TLC

CONSTANTS
  Checks, Conditions,
  Added, Updates,       \* policies for addPolicy, partial policies for updatePolicy
  EditableIds,          \* the policies the management operations are used on
  Levels,               \* the threat levels that are reported
  MaxEdits, MaxReports

VARIABLES
  order,         \* policies: the keys in insertion order
  policies,      \* policies: id -> policy, or Nil
  priorityIndex,
  limiters,      \* limiters: id -> the limits the limiter was made with, or Nil
  memory,        \* currentMemoryUsage, in limiters
  check,         \* the checks in progress
  isEmergencyMode, timers, level,
  performance,   \* performanceMetrics
  edits, reports

policyVars == <<order, policies, priorityIndex, limiters, memory, check, isEmergencyMode, timers,
          level, performance, edits, reports>>

-----------------------------------------------------------------------------
(* The default policies: where they apply, in which order, with which base *)
(* limit.                                                                  *)

Threats == {"low", "medium", "high", "critical"}
Zones == {"safe", "moderate", "high_risk", "blocked"}
Profiles == {"new", "trusted", "suspicious", "vip", "blocked"}
Patterns == {"peak_hours", "off_hours", "weekend", "holiday", "emergency"}
Endpoints == {"auth", "api", "other"}
Methods == {"GET", "POST", "PUT", "DELETE", "PATCH"}

Anywhere == [endpoint |-> Endpoints, method |-> Methods, threat |-> Threats,
             profile |-> Profiles, zone |-> Zones, pattern |-> Patterns]

Policy(enabled, priority, conditions, limit) ==
  [enabled |-> enabled, priority |-> priority, conditions |-> conditions, limit |-> limit]

GeneralAPI == Policy(TRUE, 1,
  [Anywhere EXCEPT !.endpoint = {"auth", "api"}, !.method = {"GET", "POST", "PUT", "DELETE"},
                   !.threat = {"low", "medium"}, !.profile = {"new", "trusted"},
                   !.zone = {"safe", "moderate"}, !.pattern = {"peak_hours", "off_hours"}], 1000)

Authentication == Policy(TRUE, 10,
  [Anywhere EXCEPT !.endpoint = {"auth"}, !.method = {"POST"},
                   !.profile = {"new", "trusted", "suspicious", "blocked"}], 5)

HighRiskGeographic == Policy(TRUE, 8,
  [Anywhere EXCEPT !.zone = {"high_risk", "blocked"}, !.threat = {"medium", "high", "critical"}], 100)

EmergencyResponse == Policy(FALSE, 15,
  [Anywhere EXCEPT !.pattern = {"emergency"}, !.threat = {"high", "critical"}], 50)

VIPUser == Policy(TRUE, 5,
  [Anywhere EXCEPT !.profile = {"vip"}, !.threat = {"low", "medium"}], 5000)

SuspiciousActivity == Policy(TRUE, 12,
  [Anywhere EXCEPT !.profile = {"suspicious", "blocked"}, !.threat = {"medium", "high", "critical"}], 20)

DefaultPolicy == Policy(TRUE, 1, Anywhere, 1000)

Defaults == << <<"general-api", GeneralAPI>>, <<"authentication", Authentication>>,
               <<"high-risk-geographic", HighRiskGeographic>>,
               <<"emergency-response", EmergencyResponse>>,
               <<"vip-users", VIPUser>>, <<"suspicious-activity", SuspiciousActivity>> >>

DefaultIds == {Defaults[k][1] : k \in DOMAIN Defaults}
Ids == DefaultIds \cup EditableIds
LimiterIds == Ids \cup {"default-policy"}

\* validatePolicy: what addPolicy accepts.
Valid(p) == p.priority \in 0..20 /\ p.limit > 0

\* rebuildPriorityIndex: higher priority first, ties in insertion order.
Rebuilt(keys, ps) ==
  LET Before(a, b) == \/ ps[a].priority > ps[b].priority
                      \/ ps[a].priority = ps[b].priority
                         /\ IndexFirstSubSeq(<<a>>, keys) < IndexFirstSubSeq(<<b>>, keys)
  IN SortSeq(keys, Before)

NoLimiters == [i \in LimiterIds |-> Nil]
Cached(ls) == {i \in LimiterIds : ls[i] # Nil}

PolicyInit ==
  /\ order = [k \in DOMAIN Defaults |-> Defaults[k][1]]
  /\ policies = [i \in Ids |-> IF i \in DefaultIds
                               THEN (CHOOSE d \in Range(Defaults) : d[1] = i)[2] ELSE Nil]
  /\ priorityIndex = Rebuilt(order, policies)
  /\ limiters = NoLimiters /\ memory = 0
  /\ check = [r \in Checks |-> [pc |-> "new", policy |-> Nil, limit |-> Nil, conditions |-> Nil]]
  /\ isEmergencyMode = FALSE /\ timers = 0 /\ level = "low"
  /\ performance = [total |-> 0, blocked |-> 0]
  /\ edits = 0 /\ reports = 0

-----------------------------------------------------------------------------
(* Managing policies.                                                      *)

emergencyVars == <<isEmergencyMode, timers, level, reports>>

Edit == edits < MaxEdits /\ edits' = edits + 1

KeepCache == UNCHANGED <<limiters, memory>>

\* clearLimiterCache
ClearCache == limiters' = NoLimiters /\ memory' = 0

SetPolicies(keys, ps) ==
  /\ order' = keys /\ policies' = ps /\ priorityIndex' = Rebuilt(keys, ps)

\* A policy of the same id keeps its place among the keys.
AddPolicy(i, p) ==
  /\ Edit /\ Valid(p)
  /\ SetPolicies(IF policies[i] = Nil THEN Append(order, i) ELSE order,
                 [policies EXCEPT ![i] = p])
  /\ ClearCache
  /\ UNCHANGED <<check, performance, emergencyVars>>

\* Mutant: the cached limiters are kept.
UpdatePolicyCached(i, u) ==
  /\ Edit /\ policies[i] # Nil
  /\ SetPolicies(order, [policies EXCEPT ![i] = u @@ @])
  /\ KeepCache
  /\ UNCHANGED <<check, performance, emergencyVars>>

\* The updates overwrite the policy unchecked.
UpdatePolicy(i, u) ==
  /\ Edit /\ policies[i] # Nil
  /\ SetPolicies(order, [policies EXCEPT ![i] = u @@ @])
  /\ ClearCache
  /\ UNCHANGED <<check, performance, emergencyVars>>

RemovePolicy(i) ==
  /\ Edit /\ policies[i] # Nil
  /\ SetPolicies(SelectSeq(order, LAMBDA j : j # i), [policies EXCEPT ![i] = Nil])
  /\ ClearCache
  /\ UNCHANGED <<check, performance, emergencyVars>>

\* togglePolicy: the policy is changed in place, so the index sees it.
Toggled(i, enabled) ==
  IF policies[i] = Nil THEN policies ELSE [policies EXCEPT ![i].enabled = enabled]

\* The manager's togglePolicy leaves the limiters alone.
TogglePolicy(i, enabled) ==
  /\ Edit /\ policies[i] # Nil
  /\ policies' = Toggled(i, enabled)
  /\ KeepCache
  /\ UNCHANGED <<order, priorityIndex, check, performance, emergencyVars>>

-----------------------------------------------------------------------------
(* Checking requests.                                                      *)

\* The conditions extractConditions can produce: the profile is always "new",
\* the zone comes from a country that is local or unknown, and the pattern
\* from the time of day.
Extracted ==
  [endpoint : Endpoints, method : Methods, threat : Threats \cup {Nil}, profile : {"new"},
   zone : {"safe", "moderate"}, pattern : {"peak_hours", "weekend", "off_hours"}]

Matches(p, c) == \A f \in DOMAIN c : c[f] = Nil \/ c[f] \in p.conditions[f]

FindApplicablePolicies(c) ==
  SelectSeq(priorityIndex, LAMBDA i : policies[i].enabled /\ Matches(policies[i], c))

PolicyOf(i) == IF i = "default-policy" THEN DefaultPolicy ELSE policies[i]

\* Up to the limiter's first await: conditions, policy and limiter.
Select(r, c) ==
  LET found == FindApplicablePolicies(c)
      i == IF found = <<>> THEN "default-policy" ELSE found[1]
  IN
  /\ check[r].pc = "new"
  /\ limiters' = IF limiters[i] # Nil THEN limiters
                 ELSE [limiters EXCEPT ![i] = PolicyOf(i).limit]
  /\ memory' = IF limiters[i] # Nil THEN memory ELSE memory + 1
  /\ check' = [check EXCEPT ![r] = [pc |-> "checking", policy |-> i, limit |-> limiters'[i],
                                conditions |-> c]]
  /\ UNCHANGED <<order, policies, priorityIndex, performance, edits, emergencyVars>>

Finish(r, outcome) == check[r].pc = "checking" /\ check' = [check EXCEPT ![r].pc = outcome]

\* The limiter admits the request, or fails and the manager admits it.
Admit(r) ==
  /\ Finish(r, "allowed")
  /\ UNCHANGED <<order, policies, priorityIndex, limiters, memory, performance, edits, emergencyVars>>

\* A refused request ends in onLimitReached, the only caller of
\* updatePerformanceMetrics.
Refuse(r) ==
  /\ Finish(r, "blocked")
  /\ performance' = [total |-> performance.total + 1, blocked |-> performance.blocked + 1]
  /\ UNCHANGED <<order, policies, priorityIndex, limiters, memory, edits, emergencyVars>>

\* Limiters of no stored policy are dropped: the default policy's is one.
PerformCleanup ==
  /\ limiters' = [i \in LimiterIds |-> IF i \in Range(order) THEN limiters[i] ELSE Nil]
  /\ memory' = Cardinality(Cached(limiters'))
  /\ UNCHANGED <<order, policies, priorityIndex, check, performance, edits, emergencyVars>>

-----------------------------------------------------------------------------
(* Emergency mode.                                                         *)

SetEmergency(on) ==
  /\ isEmergencyMode' = on
  /\ policies' = Toggled("emergency-response", on)
  /\ ClearCache

KeepEmergency == UNCHANGED <<isEmergencyMode, policies, limiters, memory>>

\* handleEmergencyThreatLevel
Report(l) ==
  /\ reports < MaxReports /\ reports' = reports + 1
  /\ level' = l
  /\ IF l = "critical" /\ ~isEmergencyMode THEN SetEmergency(TRUE) ELSE KeepEmergency
  /\ timers' = IF l # "critical" /\ isEmergencyMode THEN timers + 1 ELSE timers
  /\ UNCHANGED <<order, priorityIndex, check, performance, edits>>

\* calculateEffectiveness: 0.9 less the blocking rate is above 0.8.
EffectiveAboveBound == performance.blocked * 10 < performance.total \/ performance.total = 0

\* considerDeactivatingEmergencyMode, five minutes after a report.
ConsiderDeactivating ==
  /\ timers > 0 /\ timers' = timers - 1
  /\ IF EffectiveAboveBound /\ isEmergencyMode THEN SetEmergency(FALSE) ELSE KeepEmergency
  /\ UNCHANGED <<order, priorityIndex, check, performance, edits, level, reports>>

PolicyNext ==
  \/ \E i \in EditableIds : \/ \E p \in Added : AddPolicy(i, p)
                            \/ \E u \in Updates : UpdatePolicy(i, u)
                            \/ RemovePolicy(i)
                            \/ \E b \in BOOLEAN : TogglePolicy(i, b)
  \/ \E r \in Checks : \/ \E c \in Conditions : Select(r, c)
                       \/ Admit(r) \/ Refuse(r)
  \/ PerformCleanup
  \/ \E l \in Levels : Report(l)
  \/ ConsiderDeactivating

PolicySpec == PolicyInit /\ [][PolicyNext]_policyVars

-----------------------------------------------------------------------------

\* A limiter in the cache was made with the limits its policy has now, however
\* policies were changed since, so no request meets limits that were replaced.
LimitersAreCurrent ==
  \A i \in Cached(limiters) : /\ i = "default-policy" \/ policies[i] # Nil
                              /\ limiters[i] = PolicyOf(i).limit

\* RateLimitIntegration.ts:534, "Check if threat level has reduced": emergency
\* mode is not left while the last level reported is critical.
LeftWhenReduced ==
  [][isEmergencyMode /\ ~isEmergencyMode' => level # "critical"]_policyVars
=============================================================================
