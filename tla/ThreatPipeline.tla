--------------------------- MODULE ThreatPipeline ---------------------------
(***************************************************************************)
(* The threat detection middleware of backend/src/index.ts around          *)
(* detectThreats (core/ThreatDetectionEngine.ts), the response engine, the *)
(* redirection of critical requests, the bandit's decision (services/      *)
(* AdaptiveDecisionEngine.ts, which index.ts builds without a response     *)
(* engine) and the route handler that next() reaches.  A call of           *)
(* executeResponse is named after its request.                             *)
(***************************************************************************)
EXTENDS ResponseEngine

ASSUME PipelineAssumption == Sessions = Calls

VARIABLES
  stage,        \* where the middleware is with each request
  critical,     \* assessment.riskLevel = 'critical'
  bandit,       \* decideAndExecute: not started, waiting for the reputation, over
  answer        \* what answered the request outside the response engine

pipeline == <<stage, critical, bandit, answer>>
allVars == <<vars, pipeline>>

PipelineInit ==
  /\ Init
  /\ stage = [r \in Calls |-> "idle"]
  /\ critical = [r \in Calls |-> FALSE]
  /\ bandit = [r \in Calls |-> "none"]
  /\ answer = [r \in Calls |-> Nil]

HeadersSent(r) == call[r].sent # Nil \/ answer[r] # Nil

\* A fresh random session for every request.
GenerateSessionId(r) == r

\* The risk level follows the score, except that it is 'medium' when the
\* contextual scoring failed.
RiskLevels(score) == {score >= Bounds[5], FALSE}

\* detectThreats after its analyzers: it calls executeResponse.
DetectThreats(r, score) ==
  /\ stage[r] = "idle"
  /\ Enter(r, GenerateSessionId(r), score)
  /\ stage' = [stage EXCEPT ![r] = "responding"]
  /\ \E level \in RiskLevels(score) : critical' = [critical EXCEPT ![r] = level]
  /\ UNCHANGED <<bandit, answer>>

\* An analyzer throws: the default assessment, and no response.
DetectionFails(r) ==
  /\ stage[r] = "idle"
  /\ stage' = [stage EXCEPT ![r] = "assessed"]
  /\ UNCHANGED <<vars, critical, bandit, answer>>

Assessed(r) ==
  /\ stage[r] = "responding" /\ call[r].pc = "done"
  /\ stage' = [stage EXCEPT ![r] = "assessed"]
  /\ UNCHANGED <<vars, critical, bandit, answer>>

\* A critical request waits for its deception environment.
CreateDeceptionEnvironment(r) ==
  /\ stage[r] = "assessed" /\ critical[r]
  /\ stage' = [stage EXCEPT ![r] = "deceiving"]
  /\ UNCHANGED <<vars, critical, bandit, answer>>

\* redirect throws when an answer was sent, and the catch calls next().
Redirect(r) ==
  /\ stage[r] = "deceiving"
  /\ IF HeadersSent(r)
     THEN stage' = [stage EXCEPT ![r] = "next"] /\ UNCHANGED answer
     ELSE /\ stage' = [stage EXCEPT ![r] = "redirected"]
          /\ answer' = [answer EXCEPT ![r] = "redirect"]
  /\ UNCHANGED <<vars, critical, bandit>>

\* Mutant: next() is forgotten for a request that was not answered.
ContinueOnlyAnswered(r) ==
  /\ stage[r] = "assessed" /\ ~critical[r]
  /\ stage' = [stage EXCEPT ![r] = IF HeadersSent(r) THEN "next" ELSE "redirected"]
  /\ bandit' = [bandit EXCEPT ![r] = "reputation"]
  /\ UNCHANGED <<vars, critical, answer>>

\* Any other request starts the bandit, which nobody waits for, and goes on.
Continue(r) ==
  /\ stage[r] = "assessed" /\ ~critical[r]
  /\ stage' = [stage EXCEPT ![r] = "next"]
  /\ bandit' = [bandit EXCEPT ![r] = "reputation"]
  /\ UNCHANGED <<vars, critical, answer>>

\* decideAndExecute after getReputation: too little data or an error, an
\* action that sends nothing, or a diversion unless an answer was sent.
BanditDecides(r) ==
  /\ bandit[r] = "reputation"
  /\ bandit' = [bandit EXCEPT ![r] = "over"]
  /\ \/ UNCHANGED answer
     \/ ~HeadersSent(r) /\ answer' = [answer EXCEPT ![r] = "divert"]
  /\ UNCHANGED <<vars, stage, critical>>

\* The handler after next() answers, or fails because an answer was sent.
RouteHandler(r) ==
  /\ stage[r] = "next"
  /\ stage' = [stage EXCEPT ![r] = "handled"]
  /\ answer' = [answer EXCEPT ![r] = IF HeadersSent(r) THEN @ ELSE "route"]
  /\ UNCHANGED <<vars, critical, bandit>>

Respond(r) == Step(r) /\ UNCHANGED pipeline

Middleware(r) ==
  \/ Assessed(r) \/ CreateDeceptionEnvironment(r) \/ Redirect(r) \/ Continue(r) \/ RouteHandler(r)

Environment == (Tick \/ UpdateConfiguration) /\ UNCHANGED pipeline

PipelineNext ==
  \/ \E r \in Calls :
       \/ Respond(r) \/ Middleware(r) \/ BanditDecides(r)
       \/ DetectionFails(r) \/ \E score \in Scores : DetectThreats(r, score)
  \/ Environment

\* The event loop runs every resolved continuation of a request.
PipelineFairness ==
  \A r \in Calls : WF_allVars(Respond(r)) /\ WF_allVars(Middleware(r))

PipelineSpec == PipelineInit /\ [][PipelineNext]_allVars /\ PipelineFairness

-----------------------------------------------------------------------------

\* Every request that reaches the middleware is answered in the end, whatever
\* fails on the way (the catch of index.ts:319 hands it on).
EveryRequestAnswered == \A r \in Calls : stage[r] # "idle" ~> HeadersSent(r)

\* docs/ALGORITHMS.md:300: the block tier blocks the request, so a request that
\* the engine answered 403 does not reach its handler.
RefusedNotHandled == \A r \in Calls : call[r].sent = 403 => stage[r] # "handled"
=============================================================================
