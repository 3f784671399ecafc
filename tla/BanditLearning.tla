--------------------------- MODULE BanditLearning ---------------------------
(***************************************************************************)
(* The adaptive response bandit: the posteriors of core/bandit/            *)
(* ThompsonSampling.ts, the decisions of services/                         *)
(* AdaptiveDecisionEngine.ts, the feedback of services/                    *)
(* FeedbackCollector.ts and their persistence by services/                 *)
(* BanditPersistence.ts (all under backend/src), with failing writes,      *)
(* crashes and restarts.  A context is its threat bucket and an action its *)
(* place in BANDIT_ACTIONS; which action sampling prefers is free.         *)
(***************************************************************************)
EXTENDS Null, Integers, Sequences, FiniteSets, FiniteSetsExt

CONSTANTS
  Contexts, Actions, Prior, MinSamples,
  OperatorSignals,            \* what feedback may be submitted: sequences of signals
  Decisions,                  \* names of decideAndExecute calls in progress
  Development, WritesFail,    \* whether the process runs so, and may meet this
  Torn,                       \* a file that does not parse
  MaxUpdates, MaxRestarts     \* bounds

Keys == Contexts \X Actions

ASSUME BanditAssumption ==
  /\ Contexts \subseteq {"low", "medium", "high"} /\ Actions \subseteq 0..6
  /\ Prior \in [Actions -> [alpha : Nat, beta : Nat]]
  /\ MinSamples \in Nat /\ MaxUpdates \in Nat /\ MaxRestarts \in Nat
  /\ Development \in BOOLEAN /\ WritesFail \in BOOLEAN /\ Nil # Torn
  /\ Nil \notin Contexts /\ Nil \notin Actions

VARIABLES
  state,            \* (context, action) -> Beta parameters
  selectionCounts,
  dirty,
  file,             \* bandit_state.json: Nil, Torn or a state
  process,          \* "up", "stopping", "exited", "crashed"
  decision,         \* decideAndExecute calls: what they wait for
  updates, restarts,
  loaded, fed,      \* history: state at start or reset, good feedback since
  unsaved           \* history: the posteriors were reset and not saved since

banditVars == <<state, selectionCounts, dirty, file, process, decision, updates, restarts,
          loaded, fed, unsaved>>

-----------------------------------------------------------------------------

Priors == [k \in Keys |-> Prior[k[2]]]
Zeros == [k \in Keys |-> 0]
NoDecision == [pc |-> "none", context |-> Nil, action |-> Nil]

BanditInit ==
  /\ state = Priors /\ loaded = Priors
  /\ selectionCounts = Zeros /\ fed = Zeros
  /\ dirty = FALSE /\ file = Nil /\ process = "up"
  /\ decision = [d \in Decisions |-> NoDecision]
  /\ updates = 0 /\ restarts = 0 /\ unsaved = FALSE

Serving == process \in {"up", "stopping"}

\* updateReward; good: the reward is at least one half.
UpdateReward(k, good) ==
  /\ state' = IF good THEN [state EXCEPT ![k].alpha = @ + 1]
                      ELSE [state EXCEPT ![k].beta = @ + 1]
  /\ selectionCounts' = [selectionCounts EXCEPT ![k] = @ + 1]
  /\ updates < MaxUpdates /\ updates' = updates + 1

\* What a signal adds to the reward, in thousandths (rewardWeights).
SignalValue ==
  [true_positive |-> 300, false_positive |-> -250, user_satisfied |-> 150, user_unsatisfied |-> -75,
   cost_low |-> 100, cost_high |-> -50, threat_reduced |-> 200, threat_persisted |-> -100]

ComputeReward(signals) ==
  Max({0, Min({1000, MapThenSumSet(LAMBDA i : SignalValue[signals[i]], DOMAIN signals)})})

\* The checks of POST /api/bandit/feedback.
ValidFeedback(signals) == signals # <<>> /\ \A i \in DOMAIN signals : signals[i] \in DOMAIN SignalValue

\* processFeedback.
ProcessFeedback(k, good) ==
  /\ Serving
  /\ UpdateReward(k, good)
  /\ fed' = IF good THEN [fed EXCEPT ![k] = @ + 1] ELSE fed
  /\ dirty' = TRUE
  /\ UNCHANGED <<file, process, decision, restarts, loaded, unsaved>>

SubmitFeedback(k, signals) ==
  /\ ValidFeedback(signals)
  /\ ProcessFeedback(k, ComputeReward(signals) >= 500)

-----------------------------------------------------------------------------
(* decideAndExecute: it waits for the reputation, then for the action. *)

Decide(d, c) ==
  /\ Serving /\ decision[d].pc = "none"
  /\ decision' = [decision EXCEPT ![d] = [pc |-> "reputation", context |-> c, action |-> Nil]]
  /\ UNCHANGED <<state, selectionCounts, dirty, file, process, updates, restarts, loaded, fed, unsaved>>

HasSufficientData(c) == \A a \in Actions : selectionCounts[<<c, a>>] >= MinSamples

\* The reputation is there: fall back to the tiers, or pick an action.
SelectAction(d) ==
  /\ Serving /\ decision[d].pc = "reputation"
  /\ \/ ~HasSufficientData(decision[d].context) /\ decision' = [decision EXCEPT ![d] = NoDecision]
     \/ /\ HasSufficientData(decision[d].context)
        /\ \E a \in Actions :
             decision' = [decision EXCEPT ![d].pc = "execute", ![d].action = a]
  /\ UNCHANGED <<state, selectionCounts, dirty, file, process, updates, restarts, loaded, fed, unsaved>>

\* Mutant: the severity term is left out of the reward.
FlatReward(c, a) ==
  (IF c = "high" /\ a >= 3 THEN 180 ELSE 0)
  + (IF c = "low" /\ a = 0 THEN 90 ELSE 0)
  + (IF a = 0 THEN 60 ELSE 0)
  + 120

\* computeImmediateReward of an executed action, in six hundredths.
ImmediateReward(c, a) ==
  (IF c = "high" /\ a >= 3 THEN 180 ELSE 0)
  + (IF c = "low" /\ a = 0 THEN 90 ELSE 0)
  + (IF a = 0 THEN 60 ELSE 0)
  + 20 * (6 - a)

\* The action was executed or not; the persistence is not told.
ActionExecuted(d, done) ==
  /\ Serving /\ decision[d].pc = "execute"
  /\ LET c == decision[d].context
         a == decision[d].action
     IN UpdateReward(<<c, a>>, done /\ ImmediateReward(c, a) >= 300)
  /\ decision' = [decision EXCEPT ![d] = NoDecision]
  /\ UNCHANGED <<dirty, file, process, restarts, loaded, fed, unsaved>>

-----------------------------------------------------------------------------
(* BanditPersistence *)

\* Mutant: the mark is cleared whether or not the write succeeds.
SaveAlwaysClean == file' \in {state, file} /\ dirty' = FALSE /\ UNCHANGED unsaved

\* save: a failed write may leave a part of the file, and dirty stays set.
Save ==
  \/ file' = state /\ dirty' = FALSE /\ unsaved' = FALSE
  \/ WritesFail /\ file' \in {file, Torn} /\ UNCHANGED <<dirty, unsaved>>

AutoSave ==
  /\ process = "up" /\ dirty
  /\ Save
  /\ UNCHANGED <<state, selectionCounts, process, decision, updates, restarts, loaded, fed>>

\* The timer is cleared and a dirty state is saved; the server still serves
\* while its other connections are closed.
Shutdown ==
  /\ process = "up"
  /\ process' = "stopping"
  /\ IF dirty THEN Save ELSE UNCHANGED <<file, dirty, unsaved>>
  /\ UNCHANGED <<state, selectionCounts, decision, updates, restarts, loaded, fed>>

Exit ==
  /\ process = "stopping"
  /\ process' = "exited"
  /\ UNCHANGED <<state, selectionCounts, dirty, file, decision, updates, restarts, loaded, fed, unsaved>>

\* The process dies, possibly while it writes the file.
Crash ==
  /\ Serving
  /\ process' = "crashed"
  /\ file' \in IF process = "up" /\ dirty THEN {file, Torn} ELSE {file}
  /\ UNCHANGED <<state, selectionCounts, dirty, decision, updates, restarts, loaded, fed, unsaved>>

\* load and loadState: the parameters of every key, or none of them.
LoadState == IF file \in {Nil, Torn} THEN Priors ELSE file

Start ==
  /\ process \in {"exited", "crashed"} /\ restarts < MaxRestarts
  /\ state' = LoadState /\ loaded' = state'
  /\ selectionCounts' = Zeros /\ fed' = Zeros
  /\ dirty' = FALSE /\ process' = "up"
  /\ decision' = [d \in Decisions |-> NoDecision]
  /\ restarts' = restarts + 1 /\ unsaved' = FALSE
  /\ UNCHANGED <<file, updates>>

\* The reset route, in development only: the file is not touched.
Reset ==
  /\ Development /\ Serving
  /\ state' = Priors /\ loaded' = Priors
  /\ selectionCounts' = Zeros /\ fed' = Zeros /\ unsaved' = TRUE
  /\ UNCHANGED <<dirty, file, process, decision, updates, restarts>>

BanditNext ==
  \/ \E k \in Keys, signals \in OperatorSignals : SubmitFeedback(k, signals)
  \/ \E d \in Decisions, c \in Contexts : Decide(d, c)
  \/ \E d \in Decisions : SelectAction(d)
  \/ \E d \in Decisions, done \in BOOLEAN : ActionExecuted(d, done)
  \/ AutoSave \/ Shutdown \/ Exit \/ Crash \/ Start \/ Reset

BanditSpec == BanditInit /\ [][BanditNext]_banditVars

-----------------------------------------------------------------------------

Betas == [alpha : Nat, beta : Nat]

\* Every observation since the start (or the last reset) is in the posterior
\* exactly once, and successes come from feedback alone: the reward a decision
\* computes for itself (computeImmediateReward) never reaches one half.
EvidenceAccounted ==
  \A k \in Keys :
    /\ state[k].alpha + state[k].beta = loaded[k].alpha + loaded[k].beta + selectionCounts[k]
    /\ state[k].alpha = loaded[k].alpha + fed[k]

\* Unless a reset of the posteriors is still to be saved, good feedback is in
\* the file as soon as nothing is marked dirty, whatever writes failed before:
\* the file and the memory agree on the successes (BanditPersistence.save
\* clears the mark after the write).
CleanMeansSaved ==
  (Serving /\ ~dirty /\ ~unsaved /\ file \notin {Nil, Torn})
    => \A k \in Keys : state[k].alpha = file[k].alpha
=============================================================================
