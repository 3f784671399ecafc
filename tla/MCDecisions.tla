---------------------------- MODULE MCDecisions ----------------------------
(* What is decided about a request, for TLC: the middleware with the        *)
(* response engine, the bandit, and the playbooks.  They share nothing that *)
(* is modelled, so one of them moves in each behaviour.                     *)
EXTENDS ThreatPipeline, BanditLearning, PlaybookExecutor, TLC

VARIABLE part

OneRequest == [t \in RateTiers |-> 1]
ShortBlocks == 4 :> 1 @@ 5 :> 2

FlatPrior == [a \in Actions |-> [alpha |-> 1, beta |-> 1]]

\* A reward of one half exactly, and one just below.
TwoFeedbacks == {<<"true_positive", "threat_reduced">>, <<"true_positive", "user_satisfied">>}

\* One retry is the default, two and none are what a playbook may ask for.
TwoBooks == {[retries |-> <<1, 2, 1>>, rollback |-> 2], [retries |-> <<2, 0>>, rollback |-> 0]}

Parts == {"middleware", "bandit", "playbook"}

MCInit ==
  /\ part \in Parts
  /\ PipelineInit /\ BanditInit /\ PlaybookInit
  /\ part # "middleware" => enabled
  /\ part # "playbook" => mongo /\ \A i \in Ids : store[i] = Nil

MCNext ==
  \/ part = "middleware" /\ PipelineNext /\ UNCHANGED <<part, banditVars, playbookVars>>
  \/ part = "bandit" /\ BanditNext /\ UNCHANGED <<part, allVars, playbookVars>>
  \/ part = "playbook" /\ PlaybookNext /\ UNCHANGED <<part, allVars, banditVars>>

MCSpec ==
  /\ MCInit /\ [][MCNext]_<<part, allVars, banditVars, playbookVars>>
  /\ part = "middleware" => PipelineFairness
  /\ part = "playbook" => PlaybookFairness
=============================================================================
