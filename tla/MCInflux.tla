------------------------------ MODULE MCInflux ------------------------------
(* The way of the metrics into InfluxDB, and their retention there, for TLC. *)
(* The batch, the cleanups and the updates of a policy share nothing that is *)
(* modelled, so one of them moves in each behaviour.                         *)
EXTENDS MetricsIngestion, DataRetention, TLC

CONSTANTS a1, a2, b1
VARIABLE part

\* Measurements kept for one and for two days, and one without a valid policy.
FewMeasurements == <<"raw", "bad", "threat">>
Kinds == (a1 :> "raw") @@ (a2 :> "raw") @@ (b1 :> "threat")
Kept == [m \in Range(FewMeasurements) |-> IF m = "raw" THEN 1 ELSE 2]
ByHand == {<<"raw", 0>>}

Init ==
  /\ part \in {"ingestion", "cleanup", "update"}
  /\ IngestionInit /\ RetentionInit
  /\ part # "cleanup" => archiveBeforeDelete

Next ==
  \/ part = "ingestion" /\ IngestionNext /\ UNCHANGED <<part, retentionVars>>
  \/ part = "cleanup" /\ CleanupNext /\ UNCHANGED <<part, ingestionVars>>
  \/ part = "update" /\ UpdateNext /\ UNCHANGED <<part, ingestionVars>>

Spec ==
  /\ Init /\ [][Next]_<<part, ingestionVars, retentionVars>>
  /\ part = "ingestion" => IngestionFairness
  /\ part = "cleanup" => RetentionFairness
=============================================================================
