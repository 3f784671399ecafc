----------------------- MODULE BanditLearning_proofs -----------------------
(***************************************************************************)
(* The posteriors of the bandit hold every observation exactly once, for   *)
(* any contexts, actions, priors and numbers of concurrent decisions.  The *)
(* invariant is inductive together with the types of the maps it speaks    *)
(* of; the other parts of the state matter only through the file, which    *)
(* holds a whole state when it parses.                                     *)
(***************************************************************************)
EXTENDS BanditLearning, TLAPS

\* No reward that a decision computes for itself reaches one half: the largest
\* one is 270 six hundredths, for allowing a request of the low bucket.
LEMMA ImmediateRewardBelowHalf ==
  ASSUME NEW c \in Contexts, NEW a \in Actions
  PROVE  ImmediateReward(c, a) \in Int /\ ImmediateReward(c, a) < 300
<1>1. a \in 0..6 BY BanditAssumption
<1>2. CASE a >= 3
  <2>1. 20 * (6 - a) <= 60 BY <1>1, <1>2
  <2>2. a # 0 BY <1>2, <1>1
  <2> QED BY <1>1, <2>1, <2>2 DEF ImmediateReward
<1>3. CASE a < 3
  <2>1. 20 * (6 - a) <= 120 /\ 20 * (6 - a) \in Nat BY <1>1, <1>3
  <2>2. ~(a >= 3) BY <1>1, <1>3
  <2> QED BY <1>1, <2>1, <2>2 DEF ImmediateReward
<1> QED BY <1>1, <1>2, <1>3

Maps ==
  /\ state \in [Keys -> Betas] /\ loaded \in [Keys -> Betas]
  /\ selectionCounts \in [Keys -> Nat] /\ fed \in [Keys -> Nat]
  /\ file \in {Nil, Torn} \cup [Keys -> Betas]
  /\ decision \in [Decisions -> [pc : {"none", "reputation", "execute"},
                                 context : Contexts \cup {Nil}, action : Actions \cup {Nil}]]
  /\ \A d \in Decisions : /\ decision[d].pc # "none" => decision[d].context \in Contexts
                          /\ decision[d].pc = "execute" => decision[d].action \in Actions

IInv == Maps /\ EvidenceAccounted

LEMMA PriorsTyped == Priors \in [Keys -> Betas]
<1>1. \A k \in Keys : k[2] \in Actions BY DEF Keys
<1> QED BY <1>1, BanditAssumption, ZenonT(60) DEF Priors, Betas

LEMMA ZerosTyped == Zeros \in [Keys -> Nat]
BY DEF Zeros

\* One observation moves the posterior, the count and the good feedback alike.
LEMMA UpdateKeepsEvidence ==
  ASSUME IInv, NEW k \in Keys, NEW good \in BOOLEAN, UpdateReward(k, good),
         loaded' = loaded, fed' = IF good THEN [fed EXCEPT ![k] = @ + 1] ELSE fed
  PROVE  /\ state' \in [Keys -> Betas] /\ selectionCounts' \in [Keys -> Nat]
         /\ fed' \in [Keys -> Nat] /\ EvidenceAccounted'
<1>1. \A j \in Keys : state[j] \in Betas /\ loaded[j] \in Betas
                       /\ selectionCounts[j] \in Nat /\ fed[j] \in Nat
  BY DEF IInv, Maps
<1>2. CASE good
  <2>1. /\ state' = [state EXCEPT ![k] = [state[k] EXCEPT !.alpha = @ + 1]]
        /\ selectionCounts' = [selectionCounts EXCEPT ![k] = @ + 1]
        /\ fed' = [fed EXCEPT ![k] = @ + 1]
    BY <1>2 DEF UpdateReward
  <2>2. /\ [state[k] EXCEPT !.alpha = @ + 1].alpha = state[k].alpha + 1
        /\ [state[k] EXCEPT !.alpha = @ + 1].beta = state[k].beta
        /\ [state[k] EXCEPT !.alpha = @ + 1] \in Betas
    BY <1>1 DEF Betas
  <2>3. /\ state' \in [Keys -> Betas] /\ selectionCounts' \in [Keys -> Nat]
        /\ fed' \in [Keys -> Nat]
    BY <1>1, <2>1, <2>2 DEF IInv, Maps
  <2>4. ASSUME NEW j \in Keys
        PROVE  /\ state'[j].alpha + state'[j].beta
                    = loaded'[j].alpha + loaded'[j].beta + selectionCounts'[j]
               /\ state'[j].alpha = loaded'[j].alpha + fed'[j]
    <3>1. /\ state[j].alpha \in Nat /\ state[j].beta \in Nat /\ loaded[j].alpha \in Nat
          /\ loaded[j].beta \in Nat /\ selectionCounts[j] \in Nat /\ fed[j] \in Nat
      BY <1>1, <2>4 DEF Betas
    <3>2. /\ state[j].alpha + state[j].beta
               = loaded[j].alpha + loaded[j].beta + selectionCounts[j]
          /\ state[j].alpha = loaded[j].alpha + fed[j]
      BY DEF IInv, EvidenceAccounted
    <3>3. CASE j = k
      <4>1. state'[k] = [state[k] EXCEPT !.alpha = @ + 1] BY <2>1 DEF IInv, Maps
      <4>2. selectionCounts'[k] = selectionCounts[k] + 1 /\ fed'[k] = fed[k] + 1
        BY <2>1 DEF IInv, Maps
      <4>3. state'[k].alpha = state[k].alpha + 1 /\ state'[k].beta = state[k].beta
        BY <4>1, <2>2
      <4> QED BY <4>2, <4>3, <3>1, <3>2, <3>3
    <3>4. CASE j # k BY <2>1, <3>1, <3>2, <3>4 DEF IInv, Maps
    <3> QED BY <3>3, <3>4
  <2> QED BY <2>3, <2>4 DEF EvidenceAccounted
<1>3. CASE ~good
  <2>1. /\ state' = [state EXCEPT ![k] = [state[k] EXCEPT !.beta = @ + 1]]
        /\ selectionCounts' = [selectionCounts EXCEPT ![k] = @ + 1]
        /\ fed' = fed
    BY <1>3 DEF UpdateReward
  <2>2. /\ [state[k] EXCEPT !.beta = @ + 1].beta = state[k].beta + 1
        /\ [state[k] EXCEPT !.beta = @ + 1].alpha = state[k].alpha
        /\ [state[k] EXCEPT !.beta = @ + 1] \in Betas
    BY <1>1 DEF Betas
  <2>3. /\ state' \in [Keys -> Betas] /\ selectionCounts' \in [Keys -> Nat]
        /\ fed' \in [Keys -> Nat]
    BY <1>1, <2>1, <2>2 DEF IInv, Maps
  <2>4. ASSUME NEW j \in Keys
        PROVE  /\ state'[j].alpha + state'[j].beta
                    = loaded'[j].alpha + loaded'[j].beta + selectionCounts'[j]
               /\ state'[j].alpha = loaded'[j].alpha + fed'[j]
    <3>1. /\ state[j].alpha \in Nat /\ state[j].beta \in Nat /\ loaded[j].alpha \in Nat
          /\ loaded[j].beta \in Nat /\ selectionCounts[j] \in Nat /\ fed[j] \in Nat
      BY <1>1, <2>4 DEF Betas
    <3>2. /\ state[j].alpha + state[j].beta
               = loaded[j].alpha + loaded[j].beta + selectionCounts[j]
          /\ state[j].alpha = loaded[j].alpha + fed[j]
      BY DEF IInv, EvidenceAccounted
    <3>3. CASE j = k
      <4>1. state'[k] = [state[k] EXCEPT !.beta = @ + 1] BY <2>1 DEF IInv, Maps
      <4>2. selectionCounts'[k] = selectionCounts[k] + 1 /\ fed'[k] = fed[k]
        BY <2>1 DEF IInv, Maps
      <4>3. state'[k].beta = state[k].beta + 1 /\ state'[k].alpha = state[k].alpha
        BY <4>1, <2>2
      <4> QED BY <4>2, <4>3, <3>1, <3>2, <3>3
    <3>4. CASE j # k BY <2>1, <3>1, <3>2, <3>4 DEF IInv, Maps
    <3> QED BY <3>3, <3>4
  <2> QED BY <2>3, <2>4 DEF EvidenceAccounted
<1> QED BY <1>2, <1>3

\* A state that is loaded or reset with its counts at zero accounts for itself.
LEMMA FreshStateAccounted ==
  ASSUME state' \in [Keys -> Betas], loaded' = state',
         selectionCounts' = Zeros, fed' = Zeros
  PROVE  EvidenceAccounted'
BY DEF EvidenceAccounted, Zeros, Betas

LEMMA NoDecisionTyped ==
  NoDecision \in [pc : {"none", "reputation", "execute"},
                  context : Contexts \cup {Nil}, action : Actions \cup {Nil}]
BY DEF NoDecision

\* In every reachable state each observation is in the posterior exactly once
\* and successes come from feedback alone (ThompsonSampling.updateReward,
\* AdaptiveDecisionEngine.computeImmediateReward).
THEOREM EvidenceIsAccounted == BanditSpec => []EvidenceAccounted
<1>1. BanditInit => IInv
  <2> SUFFICES ASSUME BanditInit PROVE IInv OBVIOUS
  <2>1. Maps BY PriorsTyped, ZerosTyped, NoDecisionTyped DEF BanditInit, Maps, NoDecision
  <2>2. EvidenceAccounted BY PriorsTyped DEF BanditInit, EvidenceAccounted, Zeros, Betas
  <2> QED BY <2>1, <2>2 DEF IInv
<1>2. IInv /\ [BanditNext]_banditVars => IInv'
  <2> SUFFICES ASSUME IInv, [BanditNext]_banditVars PROVE IInv' OBVIOUS
  <2>1. ASSUME NEW k \in Keys, NEW signals \in OperatorSignals, SubmitFeedback(k, signals) PROVE IInv'
    <3> DEFINE good == ComputeReward(signals) >= 500
    <3>0. ProcessFeedback(k, good) /\ good \in BOOLEAN BY <2>1 DEF SubmitFeedback
    <3> HIDE DEF good
    <3>1. UNCHANGED <<file, decision, loaded>> BY <3>0 DEF ProcessFeedback
    <3>2. UpdateReward(k, good) /\ fed' = IF good THEN [fed EXCEPT ![k] = @ + 1] ELSE fed
      BY <3>0 DEF ProcessFeedback
    <3>3. /\ state' \in [Keys -> Betas] /\ selectionCounts' \in [Keys -> Nat]
          /\ fed' \in [Keys -> Nat] /\ EvidenceAccounted'
      BY <3>0, <3>1, <3>2, UpdateKeepsEvidence
    <3> QED BY <3>1, <3>3 DEF IInv, Maps
  <2>2. ASSUME NEW d \in Decisions, NEW c \in Contexts, Decide(d, c) PROVE IInv'
    BY <2>2 DEF Decide, IInv, Maps, EvidenceAccounted
  <2>3. ASSUME NEW d \in Decisions, SelectAction(d) PROVE IInv'
    <3>1. UNCHANGED <<state, selectionCounts, file, loaded, fed>> BY <2>3 DEF SelectAction
    <3>2. decision[d].context \in Contexts BY <2>3 DEF SelectAction, IInv, Maps
    <3>3. CASE decision' = [decision EXCEPT ![d] = NoDecision]
      BY <3>1, <3>3, NoDecisionTyped DEF IInv, Maps, EvidenceAccounted, NoDecision
    <3>4. ASSUME NEW a \in Actions,
                 decision' = [decision EXCEPT ![d].pc = "execute", ![d].action = a]
          PROVE  IInv'
      BY <3>1, <3>2, <3>4, ZenonT(60) DEF IInv, Maps, EvidenceAccounted
    <3> QED BY <2>3, <3>3, <3>4 DEF SelectAction
  <2>4. ASSUME NEW d \in Decisions, NEW done \in BOOLEAN, ActionExecuted(d, done) PROVE IInv'
    <3> DEFINE c == decision[d].context
               a == decision[d].action
    <3>1. c \in Contexts /\ a \in Actions BY <2>4 DEF ActionExecuted, IInv, Maps
    <3>2. ~(done /\ ImmediateReward(c, a) >= 300)
      <4> HIDE DEF c, a
      <4>1. ImmediateReward(c, a) \in Int /\ ImmediateReward(c, a) < 300
        BY <3>1, ImmediateRewardBelowHalf
      <4> QED BY <4>1
    <3>3. UpdateReward(<<c, a>>, FALSE)
      <4>1. UpdateReward(<<c, a>>, done /\ ImmediateReward(c, a) >= 300) BY <2>4 DEF ActionExecuted
      <4> QED BY <4>1, <3>2 DEF UpdateReward
    <3>4. UNCHANGED <<file, loaded, fed>> /\ decision' = [decision EXCEPT ![d] = NoDecision]
      BY <2>4 DEF ActionExecuted
    <3>5. <<c, a>> \in Keys BY <3>1 DEF Keys
    <3>6. fed' = IF FALSE THEN [fed EXCEPT ![<<c, a>>] = @ + 1] ELSE fed BY <3>4
    <3>7. /\ state' \in [Keys -> Betas] /\ selectionCounts' \in [Keys -> Nat]
          /\ fed' \in [Keys -> Nat] /\ EvidenceAccounted'
      <4> HIDE DEF c, a
      <4> QED BY <3>3, <3>4, <3>5, <3>6, UpdateKeepsEvidence, ZenonT(60)
    <3>8. Maps'
      BY <3>4, <3>7, NoDecisionTyped DEF IInv, Maps, NoDecision
    <3> QED BY <3>7, <3>8 DEF IInv
  <2>5. ASSUME AutoSave \/ Shutdown \/ Crash PROVE IInv'
    <3>1. UNCHANGED <<state, selectionCounts, decision, loaded, fed>>
      BY <2>5 DEF AutoSave, Shutdown, Crash
    <3>2. file' \in {file, Torn, state} BY <2>5 DEF AutoSave, Shutdown, Crash, Save
    <3>3. file' \in {Nil, Torn} \cup [Keys -> Betas] BY <3>2 DEF IInv, Maps
    <3> QED BY <3>1, <3>3 DEF IInv, Maps, EvidenceAccounted
  <2>6. ASSUME Exit PROVE IInv'
    BY <2>6 DEF Exit, IInv, Maps, EvidenceAccounted
  <2>7. ASSUME Start PROVE IInv'
    <3>1. LoadState \in [Keys -> Betas] BY PriorsTyped DEF LoadState, IInv, Maps
    <3>2. /\ state' \in [Keys -> Betas] /\ loaded' = state' /\ selectionCounts' = Zeros
          /\ fed' = Zeros /\ UNCHANGED file /\ decision' = [d \in Decisions |-> NoDecision]
      BY <2>7, <3>1 DEF Start
    <3>3. EvidenceAccounted' BY <3>2, FreshStateAccounted
    <3> QED BY <3>2, <3>3, ZerosTyped, NoDecisionTyped DEF IInv, Maps, NoDecision
  <2>8. ASSUME Reset PROVE IInv'
    <3>1. /\ state' \in [Keys -> Betas] /\ loaded' = state' /\ selectionCounts' = Zeros
          /\ fed' = Zeros /\ UNCHANGED <<file, decision>>
      BY <2>8, PriorsTyped DEF Reset
    <3>2. EvidenceAccounted' BY <3>1, FreshStateAccounted
    <3> QED BY <3>1, <3>2, ZerosTyped DEF IInv, Maps
  <2>9. CASE UNCHANGED banditVars
    BY <2>9 DEF banditVars, IInv, Maps, EvidenceAccounted
  <2> QED BY <2>1, <2>2, <2>3, <2>4, <2>5, <2>6, <2>7, <2>8, <2>9 DEF BanditNext
<1>3. IInv => EvidenceAccounted BY DEF IInv
<1> QED BY <1>1, <1>2, <1>3, PTL DEF BanditSpec
=============================================================================
