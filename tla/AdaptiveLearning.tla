-------------------------- MODULE AdaptiveLearning --------------------------
(***************************************************************************)
(* AdaptiveLearningService.ts (backend/src/services): training data kept   *)
(* in memory and in Redis, and the retraining of the model, which awaits   *)
(* the fit, the predictions and two saves while points are added, timers   *)
(* fire and the server shuts down.  The model itself is left out.          *)
(***************************************************************************)
EXTENDS Null, Naturals, Sequences, FiniteSetsExt

CONSTANTS
  Points,            \* training data points, each under a key of its own
  Trainings,         \* names of retrainModel calls in progress
  MinDataPoints, RetrainInterval,
  DataCap,           \* keys that training:data_list keeps
  MaxMinute, MaxStops, MaxDropped     \* bounds

VARIABLES
  trainingData,      \* the array: how often it holds a point
  adding,            \* addTrainingData: the command whose answer it awaits
  dataKeys, dataList,           \* Redis
  loader,            \* start: what it awaits and the keys still to be read
  training,          \* retrainModel: what it awaits
  isTraining, lastRetrain, timer,
  minute, stops, dropped

learningVars == <<trainingData, adding, dataKeys, dataList, loader, training, isTraining,
                  lastRetrain, timer, minute, stops, dropped>>

LearningInit ==
  /\ trainingData = [p \in Points |-> 0]
  /\ adding = [p \in Points |-> "none"]
  /\ dataKeys = {} /\ dataList = <<>>
  /\ loader = [pc |-> "none", keys |-> <<>>]
  /\ training = [t \in Trainings |-> "none"]
  /\ isTraining = FALSE /\ lastRetrain = Nil /\ timer = FALSE
  /\ minute = 0 /\ stops = 0 /\ dropped = 0

-----------------------------------------------------------------------------

Size(data) == MapThenSumSet(LAMBDA p : data[p], Points)

\* A command that fails does nothing; safeOperation hides it.
Dropping(fails) == IF fails THEN dropped < MaxDropped /\ dropped' = dropped + 1
                            ELSE UNCHANGED dropped

\* The names of trainings mean nothing: a new one takes any that is free.
FreeName == CHOOSE t \in Trainings : training[t] = "none"

\* Mutant: a training that is under way is not looked at.
RetrainAnyway ==
  IF Size(trainingData') < MinDataPoints
  THEN UNCHANGED <<training, isTraining>>
  ELSE /\ \E t \in Trainings : training[t] = "none"
       /\ training' = [training EXCEPT ![FreeName] = "fit"]
       /\ isTraining' = TRUE

\* retrainModel up to the fit.
RetrainModel ==
  IF isTraining \/ Size(trainingData') < MinDataPoints
  THEN UNCHANGED <<training, isTraining>>
  ELSE /\ \E t \in Trainings : training[t] = "none"
       /\ training' = [training EXCEPT ![FreeName] = "fit"]
       /\ isTraining' = TRUE

CheckRetrainNeeded ==
  IF ~isTraining /\ (lastRetrain = Nil \/ minute - lastRetrain >= RetrainInterval)
  THEN RetrainModel
  ELSE UNCHANGED <<training, isTraining>>

\* addTrainingData: the point is pushed and its key is set.
AddTrainingData(p, fails) ==
  /\ adding[p] = "none" /\ trainingData[p] = 0 /\ p \notin dataKeys
  /\ trainingData' = [trainingData EXCEPT ![p] = @ + 1]
  /\ Dropping(fails)
  /\ dataKeys' = IF fails THEN dataKeys ELSE dataKeys \cup {p}
  /\ adding' = [adding EXCEPT ![p] = "set"]
  /\ UNCHANGED <<dataList, loader, training, isTraining, lastRetrain, timer, minute, stops>>

KeyStored(p, fails) ==
  /\ adding[p] = "set"
  /\ Dropping(fails)
  /\ dataList' = IF fails THEN dataList ELSE <<p>> \o dataList
  /\ adding' = [adding EXCEPT ![p] = "lpush"]
  /\ UNCHANGED <<trainingData, dataKeys, loader, training, isTraining, lastRetrain, timer, minute, stops>>

KeyListed(p, fails) ==
  /\ adding[p] = "lpush"
  /\ Dropping(fails)
  /\ dataList' = IF fails \/ Len(dataList) <= DataCap THEN dataList ELSE SubSeq(dataList, 1, DataCap)
  /\ adding' = [adding EXCEPT ![p] = "ltrim"]
  /\ UNCHANGED <<trainingData, dataKeys, loader, training, isTraining, lastRetrain, timer, minute, stops>>

\* The list is trimmed; with enough points a training may be due.
PointAdded(p) ==
  /\ adding[p] = "ltrim"
  /\ adding' = [adding EXCEPT ![p] = "added"]
  /\ UNCHANGED trainingData
  /\ IF Size(trainingData) >= MinDataPoints
     THEN CheckRetrainNeeded
     ELSE UNCHANGED <<training, isTraining>>
  /\ UNCHANGED <<dataKeys, dataList, loader, lastRetrain, timer, minute, stops, dropped>>

-----------------------------------------------------------------------------
(* start: the keys are listed, then read one after the other. *)

Start(fails) ==
  /\ loader.pc = "none"
  /\ Dropping(fails)
  /\ loader' = [pc |-> "data", keys |-> IF fails THEN <<>> ELSE dataList]
  /\ UNCHANGED <<trainingData, adding, dataKeys, dataList, training, isTraining, lastRetrain,
                 timer, minute, stops>>

\* initialize goes on once the data and the performance are loaded.
Initialized ==
  /\ loader' = [loader EXCEPT !.pc = "done"]
  /\ timer' = TRUE

\* The answer to one get, or to that of loadModelPerformance.
LoadTrainingData(fails) ==
  /\ loader.pc = "data"
  /\ IF loader.keys = <<>>
     THEN Initialized /\ ~fails /\ UNCHANGED <<trainingData, dropped>>
     ELSE LET p == Head(loader.keys)
          IN /\ Dropping(fails)
             /\ loader' = [loader EXCEPT !.keys = Tail(@)]
             /\ trainingData' = IF fails \/ p \notin dataKeys THEN trainingData
                                ELSE [trainingData EXCEPT ![p] = @ + 1]
             /\ UNCHANGED timer
  /\ UNCHANGED <<adding, dataKeys, dataList, training, isTraining, lastRetrain, minute, stops>>

-----------------------------------------------------------------------------

\* The interval of this service, and the server's own call of retrainModels.
TimerFires ==
  /\ timer
  /\ UNCHANGED trainingData
  /\ CheckRetrainNeeded
  /\ UNCHANGED <<adding, dataKeys, dataList, loader, lastRetrain, timer, minute, stops, dropped>>

RetrainModels ==
  /\ UNCHANGED trainingData
  /\ RetrainModel
  /\ UNCHANGED <<adding, dataKeys, dataList, loader, lastRetrain, timer, minute, stops, dropped>>

NextAwait == [fit |-> "evaluate", evaluate |-> "performance", performance |-> "model"]

\* The fit, the predictions and the save of the performance.
TrainingGoesOn(t) ==
  /\ training[t] \in DOMAIN NextAwait
  /\ training' = [training EXCEPT ![t] = NextAwait[@]]
  /\ UNCHANGED <<trainingData, adding, dataKeys, dataList, loader, isTraining, lastRetrain,
                 timer, minute, stops, dropped>>

\* A fit or evaluation that throws: the finally block alone.
TrainingFails(t) ==
  /\ training[t] \in {"fit", "evaluate"}
  /\ training' = [training EXCEPT ![t] = "none"]
  /\ isTraining' = FALSE
  /\ UNCHANGED <<trainingData, adding, dataKeys, dataList, loader, lastRetrain, timer, minute, stops, dropped>>

\* The model is saved, or its save has failed.
TrainingEnds(t) ==
  /\ training[t] = "model"
  /\ training' = [training EXCEPT ![t] = "none"]
  /\ lastRetrain' = minute
  /\ isTraining' = FALSE
  /\ UNCHANGED <<trainingData, adding, dataKeys, dataList, loader, timer, minute, stops, dropped>>

\* stop clears the flag, not the timer, and ends no training.
Stop ==
  /\ stops < MaxStops
  /\ stops' = stops + 1
  /\ isTraining' = FALSE
  /\ UNCHANGED <<trainingData, adding, dataKeys, dataList, loader, training, lastRetrain, timer, minute, dropped>>

LearningTick ==
  /\ minute < MaxMinute
  /\ minute' = minute + 1
  /\ UNCHANGED <<trainingData, adding, dataKeys, dataList, loader, training, isTraining,
                 lastRetrain, timer, stops, dropped>>

LearningNext ==
  \/ \E p \in Points, fails \in BOOLEAN :
       AddTrainingData(p, fails) \/ KeyStored(p, fails) \/ KeyListed(p, fails)
  \/ \E p \in Points : PointAdded(p)
  \/ \E fails \in BOOLEAN : Start(fails) \/ LoadTrainingData(fails)
  \/ TimerFires \/ RetrainModels \/ Stop \/ LearningTick
  \/ \E t \in Trainings : TrainingGoesOn(t) \/ TrainingFails(t) \/ TrainingEnds(t)

LearningSpec == LearningInit /\ [][LearningNext]_learningVars

-----------------------------------------------------------------------------

Running == {t \in Trainings : training[t] # "none"}

\* The flag isTraining keeps trainings apart across their awaits: only a call of
\* stop, which clears the flag of a running training, lets one more run beside
\* it, and a training that ends, and clears the flag of another, never adds one.
OneTraining == Cardinality(Running) <= (IF isTraining THEN 1 ELSE 0) + stops
=============================================================================
