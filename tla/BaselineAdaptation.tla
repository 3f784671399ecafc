------------------------- MODULE BaselineAdaptation -------------------------
(***************************************************************************)
(* BaselineAdaptationService                                               *)
(* (backend/src/services/BaselineAdaptationService.ts): the baselines of   *)
(* the metrics, their adaptation to drift, the validation of an            *)
(* adaptation, its rollback, and what a shutdown saves in Redis and a      *)
(* start loads.  The value and trend of the 15 minute average are free     *)
(* choices.  No function waits for anything but Redis, so a call is one    *)
(* step; requests still run while a shutdown waits.                        *)
(***************************************************************************)
EXTENDS Null, Integers, SequencesExt

CONSTANTS
  Metrics,
  Values, Averages,              \* metric -> the values of its data points; those of the average
  ByHand,                        \* metric -> the baselines given to setBaseline, forceAdaptation
  DefaultBaselines,                      \* metric -> initial baseline
  RateN, RateD,                  \* adaptationRate
  DriftTenths, RollbackTenths,   \* driftThreshold, rollbackThreshold
  ValidationPeriod, MinValidated, MaxAdaptations, MaxSaved,
  MaxRecords, MaxClock           \* bounds

VARIABLES
  svc,       \* baselines, adaptationHistory, validationData of the process
  stance,     \* "up", "saving": shutdown has stored the baselines, or "down"
  saved,     \* the two Redis keys: baselines and history, or Nil
  clock

baselineVars == <<svc, stance, saved, clock>>

Fresh(baselines, history, records) ==
  [baselines |-> baselines, history |-> history, validation |-> <<>>, records |-> records]

\* The process is gone.
Down == svc' = Fresh(DefaultBaselines, <<>>, svc.records) /\ stance' = "down"

Distance(a, b) == IF a > b THEN a - b ELSE b - a

LastN(s, n) == IF Len(s) <= n THEN s ELSE SubSeq(s, Len(s) - n + 1, Len(s))

BaselineInit ==
  /\ svc = Fresh(DefaultBaselines, <<>>, 0)
  /\ stance = "up"
  /\ saved = [baselines |-> Nil, history |-> Nil]
  /\ clock = 0

-----------------------------------------------------------------------------
(* The steps that the operations are made of, on the state s of a process.  *)

Of(s, m) == SelectSeq(s.history, LAMBDA h : h.metric = m)

\* recordAdaptation: one history, trimmed, for all metrics.  dated: the entry
\* holds a Date; one loaded from Redis holds its text.
RecordAdaptation(s, m, old, new) ==
  [s EXCEPT !.history = LastN(Append(@, [metric |-> m, old |-> old, new |-> new,
                                         at |-> clock, dated |-> TRUE]), MaxAdaptations),
            !.records = @ + 1]

\* Map.delete, and Map.set, which keeps the place of a key that is there.
Without(v, m) == SelectSeq(v, LAMBDA x : x.metric # m)

PutValidation(v, x) ==
  IF \E i \in DOMAIN v : v[i].metric = x.metric
  THEN [i \in DOMAIN v |-> IF v[i].metric = x.metric THEN x ELSE v[i]]
  ELSE Append(v, x)

StartValidationPeriod(s, m, new) ==
  [s EXCEPT !.validation =
     PutValidation(@, [metric |-> m, baseline |-> new,
                       end |-> clock + ValidationPeriod, perf |-> <<>>, validated |-> FALSE])]

Install(s, m, old, new) ==
  StartValidationPeriod(RecordAdaptation([s EXCEPT !.baselines[m] = new], m, old, new), m, new)

\* adaptBaseline: a part of the way to the value of the data point.
AdaptBaseline(s, m, value, current) ==
  Install(s, m, current, current + (RateN * (value - current)) \div RateD)

\* The comparison that sorts the adaptations calls getTime on both dates.
CanRollback(s, m) ==
  LET own == Of(s, m)
  IN Len(own) = 1 \/ (Len(own) > 1 /\ \A i \in DOMAIN own : own[i].dated)

\* The sort is stable: of the adaptations of the latest instant, the first.
LastAdaptation(s, m) ==
  LET own == Of(s, m)
      latest == {i \in DOMAIN own : \A j \in DOMAIN own : own[j].at <= own[i].at}
  IN IF Len(own) = 1 THEN own[1]
     ELSE own[CHOOSE i \in latest : \A j \in latest : i <= j]

\* Mutant: the baseline that failed stays under validation.
RollbackKeepsValidation(s, m, current) ==
  LET back == LastAdaptation(s, m).old
  IN RecordAdaptation([s EXCEPT !.baselines[m] = back], m, current, back)

\* rollbackAdaptation, where it does not throw; it records itself as an adaptation.
RollbackAdaptation(s, m, current) ==
  LET back == LastAdaptation(s, m).old
  IN [RecordAdaptation([s EXCEPT !.baselines[m] = back], m, current, back)
        EXCEPT !.validation = Without(@, m)]

\* updateValidationData: max(0, 1 - error), times the baseline.
Performance(baseline, value) ==
  IF baseline = 0 THEN (IF value = 0 THEN 1 ELSE 0)
  ELSE LET error == Distance(value, baseline) IN IF error > baseline THEN 0 ELSE baseline - error

UpdateValidationData(s, m, value) ==
  [s EXCEPT !.validation =
     [i \in DOMAIN @ |->
        LET v == @[i]
        IN IF v.metric = m /\ ~v.validated /\ clock <= v.end
           THEN [v EXCEPT !.perf = LastN(Append(@, Performance(v.baseline, value)), MinValidated)]
           ELSE v]]

\* evaluateValidationSuccess: enough samples, and their mean above
\* 1 - rollbackThreshold.
EvaluateValidationSuccess(v) ==
  LET unit == IF v.baseline = 0 THEN 1 ELSE v.baseline
      sum == FoldLeft(LAMBDA x, y : x + y, 0, v.perf)
  IN Len(v.perf) >= MinValidated /\ 10 * sum > (10 - RollbackTenths) * unit * Len(v.perf)

\* detectConceptDrift.  A detected drift has confidence 0.65 when the trend is
\* volatile and at least 0.75 otherwise.
Recommendation(current, ewma, volatile) ==
  LET drift == 10 * Distance(ewma, current) > DriftTenths * current
  IN CASE drift /\ ~volatile -> "adapt"
       [] ~drift /\ 10 * Distance(ewma, current) > RollbackTenths * current -> "rollback"
       [] OTHER -> "monitor"

-----------------------------------------------------------------------------
(* The operations.                                                          *)

Running == stance \in {"up", "saving"}

CanRecord(n) == svc.records + n <= MaxRecords

\* get(metric) || value: a baseline of zero counts as missing.
CurrentBaseline(m, fallback) == IF svc.baselines[m] \in {Nil, 0} THEN fallback ELSE svc.baselines[m]

ProcessDataPoint(m, value, ewma, volatile) ==
  LET current == CurrentBaseline(m, value)
      advice  == Recommendation(current, ewma, volatile)
  IN /\ Running
     /\ CASE advice = "adapt" -> CanRecord(1) /\ svc' = AdaptBaseline(svc, m, value, current)
          [] advice = "rollback" -> /\ CanRollback(svc, m) /\ CanRecord(1)
                                    /\ svc' = RollbackAdaptation(svc, m, current)
          [] advice = "monitor" -> svc' = UpdateValidationData(svc, m, value)
     /\ UNCHANGED <<stance, saved, clock>>

SetBaseline(m, value) ==
  /\ Running
  /\ svc' = [svc EXCEPT !.baselines[m] = value]
  /\ UNCHANGED <<stance, saved, clock>>

ForceAdaptation(m, new) ==
  /\ Running /\ CanRecord(1)
  /\ svc' = Install(svc, m, CurrentBaseline(m, 0), new)
  /\ UNCHANGED <<stance, saved, clock>>

Over(v) == clock > v.end

Failing(v) == Over(v) /\ ~EvaluateValidationSuccess(v)

\* One turn of the loop of validateAdaptations; an exception of a rollback ends it.
ValidateOne(acc, v) ==
  CASE acc.thrown \/ ~Over(v) -> acc
    [] ~acc.thrown /\ Over(v) /\ EvaluateValidationSuccess(v) ->
         [acc EXCEPT !.s.validation = PutValidation(@, [v EXCEPT !.validated = TRUE])]
    [] ~acc.thrown /\ Failing(v) ->
         IF CanRollback(acc.s, v.metric)
         THEN [acc EXCEPT !.s = RollbackAdaptation(@, v.metric, v.baseline)]
         ELSE [acc EXCEPT !.thrown = TRUE]

ValidateAdaptations ==
  /\ Running /\ \E i \in DOMAIN svc.validation : Over(svc.validation[i])
  /\ CanRecord(Len(svc.validation))
  /\ svc' = FoldLeft(ValidateOne, [s |-> svc, thrown |-> FALSE], svc.validation).s
  /\ UNCHANGED <<stance, saved, clock>>

ResetBaselines ==
  /\ Running
  /\ svc' = Fresh(DefaultBaselines, <<>>, svc.records)
  /\ UNCHANGED <<stance, saved, clock>>

\* persistBaselines: the baselines as they are now, then, after a wait, the last
\* entries of the history as it is by then.  A set that fails is only logged.
PersistBaselines(stored) ==
  /\ stance = "up"
  /\ stance' = "saving"
  /\ saved' = IF stored THEN [saved EXCEPT !.baselines = svc.baselines] ELSE saved
  /\ UNCHANGED <<svc, clock>>

PersistHistory(stored) ==
  /\ stance = "saving"
  /\ Down
  /\ saved' = IF stored THEN [saved EXCEPT !.history = LastN(svc.history, MaxSaved)] ELSE saved
  /\ UNCHANGED clock

Crash ==
  /\ Running /\ Down
  /\ UNCHANGED <<saved, clock>>

\* loadBaselinesFromPersistence: a get that fails yields nothing, and dates stay
\* text; with no baselines, initializeDefaultBaselines.
BaselineStart(gotBaselines, gotHistory) ==
  /\ stance = "down"
  /\ stance' = "up"
  /\ svc' = Fresh(IF gotBaselines /\ saved.baselines # Nil THEN saved.baselines ELSE DefaultBaselines,
                  IF gotHistory /\ saved.history # Nil
                  THEN [i \in DOMAIN saved.history |-> [saved.history[i] EXCEPT !.dated = FALSE]]
                  ELSE <<>>,
                  svc.records)
  /\ UNCHANGED <<saved, clock>>

\* Redis drops both keys a day after they were written.
SavedExpire ==
  /\ stance = "down" /\ saved # [baselines |-> Nil, history |-> Nil]
  /\ saved' = [baselines |-> Nil, history |-> Nil]
  /\ UNCHANGED <<svc, stance, clock>>

BaselineTick ==
  /\ clock < MaxClock
  /\ clock' = clock + 1
  /\ UNCHANGED <<svc, stance, saved>>

BaselineNext ==
  \/ \E m \in Metrics, e \in Averages, t \in BOOLEAN : \E v \in Values[m] : ProcessDataPoint(m, v, e, t)
  \/ \E m \in Metrics : \E v \in ByHand[m] : SetBaseline(m, v) \/ ForceAdaptation(m, v)
  \/ ValidateAdaptations \/ ResetBaselines
  \/ \E stored \in BOOLEAN : PersistBaselines(stored) \/ PersistHistory(stored)
  \/ \E b, h \in BOOLEAN : BaselineStart(b, h)
  \/ Crash \/ SavedExpire \/ BaselineTick

BaselineSpec == BaselineInit /\ [][BaselineNext]_baselineVars

-----------------------------------------------------------------------------
(* Properties.                                                              *)

\* startValidationPeriod, rollbackAdaptation: a baseline under validation is the
\* one its metric was last adapted to, whatever the shared history forgot, a
\* rollback undid or a restart lost.
ValidatesLatest ==
  \A i \in DOMAIN svc.validation :
    LET v == svc.validation[i]
        own == Of(svc, v.metric)
    IN own # <<>> => Last(own).new = v.baseline
=============================================================================
