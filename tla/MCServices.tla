----------------------------- MODULE MCServices -----------------------------
(* Services of the backend, and the frontend's session with it, for TLC.     *)
(* They share no state that is modelled, so one of them moves in each        *)
(* behaviour, and the calls of each have the same names.                     *)
EXTENDS ResponseEngine, ThreatScoring, TrafficStatistics, LimitAnalytics, AdaptiveLearning,
        Deception, ServerLifecycle, Sessions, ThreatGraph, TLC

CONSTANTS a1, a2, a3
VARIABLE part

\* No liveness is checked here, and the calls and the sessions are interchangeable
\* in every component.
Symmetry == Permutations(Calls) \cup Permutations(Sessions)

OneRequest == [t \in RateTiers |-> 1]
ShortBlocks == 4 :> 1 @@ 5 :> 2

\* Two addresses at one place, and one that is not found.
SamePlace == a1 :> "x" @@ a2 :> "x" @@ a3 :> Nil
TwoWindows == <<1, 2>>

\* The graph is explored in two parts.  In one queries and the connection are lost
\* while time stands still, for a known user on a known device and a stranger.  In
\* the other time passes and only reads are lost, for a user once at rest and once
\* at the worst.
FourForms ==
  {[user |-> "u", ip |-> "i", device |-> "d", path |-> "p", score |-> 60],
   [user |-> Nil, ip |-> "i", device |-> Nil, path |-> "p", score |-> 90],
   [user |-> "u", ip |-> "i", device |-> Nil, path |-> "p", score |-> 20],
   [user |-> "u", ip |-> "i", device |-> Nil, path |-> "p", score |-> 90]}
Arrived == {arrival'[c] : c \in {x \in Arrivals : arrival'[x] # Nil}}
WithDevice == {f \in Arrived : f.device # Nil}
Score(c) == IF arrival'[c] = Nil THEN Nil ELSE arrival'[c].score
Strangers == {f \in Arrived : f.user = Nil}

serviceVars == <<vars, scoringVars, trafficVars, analyticsVars, learningVars, deceptionVars, lifeVars, sessionVars,
                 graphVars>>

MCInit ==
  /\ part \in {"response", "scoring", "traffic", "analytics", "learning", "deception", "life", "session", "graph", "reputation"}
  /\ Init /\ ScoringInit /\ TrafficInit /\ AnalyticsInit /\ LearningInit /\ DeceptionInit
  /\ LifeInit /\ SessionInit /\ GraphInit
  /\ part # "response" => enabled
  /\ part # "life" => environment.development /\ environment.skipNeo4j
  /\ part # "session" => memoryStore

MCNext ==
  \/ /\ part = "response" /\ Next
     /\ UNCHANGED <<part, scoringVars, trafficVars, analyticsVars, learningVars, deceptionVars, lifeVars, sessionVars, graphVars>>
  \/ /\ part = "scoring" /\ ScoringNext
     /\ UNCHANGED <<part, vars, trafficVars, analyticsVars, learningVars, deceptionVars, lifeVars, sessionVars, graphVars>>
  \/ /\ part = "traffic" /\ TrafficNext
     /\ UNCHANGED <<part, vars, scoringVars, analyticsVars, learningVars, deceptionVars, lifeVars, sessionVars, graphVars>>
  \/ /\ part = "analytics" /\ AnalyticsNext
     /\ UNCHANGED <<part, vars, scoringVars, trafficVars, learningVars, deceptionVars, lifeVars, sessionVars, graphVars>>
  \/ /\ part = "learning" /\ LearningNext
     /\ UNCHANGED <<part, vars, scoringVars, trafficVars, analyticsVars, deceptionVars, lifeVars, sessionVars, graphVars>>
  \/ /\ part = "deception" /\ DeceptionNext
     /\ UNCHANGED <<part, vars, scoringVars, trafficVars, analyticsVars, learningVars, lifeVars, sessionVars, graphVars>>
  \/ /\ part = "life" /\ LifeNext
     /\ UNCHANGED <<part, vars, scoringVars, trafficVars, analyticsVars, learningVars, deceptionVars, sessionVars, graphVars>>
  \/ /\ part = "session" /\ SessionNext
     /\ UNCHANGED <<part, vars, scoringVars, trafficVars, analyticsVars, learningVars, deceptionVars, lifeVars, graphVars>>
  \/ /\ part \in {"graph", "reputation"} /\ GraphNext
     /\ part = "graph" => moment' = 0 /\ Arrived = WithDevice \cup Strangers
     /\ part = "reputation" =>
          /\ connected' /\ WithDevice \cup Strangers = {}
          /\ \A c \in Arrivals : clean[c] => clean'[c]
          /\ \A c, d \in Arrivals : c # d => Score(c) # Score(d) \/ Score(c) = Nil
     /\ UNCHANGED <<part, vars, scoringVars, trafficVars, analyticsVars, learningVars, deceptionVars, lifeVars, sessionVars>>

MCSpec == MCInit /\ [][MCNext]_<<part, serviceVars>>
=============================================================================
