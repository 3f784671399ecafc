--------------------------- MODULE DataRetention ---------------------------
(***************************************************************************)
(* DataRetentionService: the cleanup that counts, archives and deletes the *)
(* old points of each measurement, cleanups by hand, and the update of a   *)
(* retention policy as a drop and a create.  Every query is an await, at   *)
(* which other calls interleave; it may fail before or after it took       *)
(* effect.  The clock counts days, so a write is settled within a tick.    *)
(***************************************************************************)
EXTENDS Integers, FiniteSets, SequencesExt

CONSTANTS
  Records, MeasurementOf,    \* the points, and the measurement of each
  Measurements,             \* the measurements in the order they are cleaned
  Duration,                 \* measurement -> days its policy keeps
  Unparsable,               \* measurements whose policy has no valid duration
  ManualCalls,              \* <<measurement, olderThanDays>> of cleanups by hand
  Jobs,                     \* single calls of a cleanup
  ManualJobs,               \* those that may be cleanups by hand
  Updates,                  \* single calls of updateRetentionPolicy
  LastWrite, MaxTime         \* bounds: the last day of a write, the last day

ASSUME RetentionAssumption ==
  /\ MeasurementOf \in [Records -> Range(Measurements)]
  /\ Duration \in [Range(Measurements) -> Nat]
  /\ Unparsable \subseteq Range(Measurements) /\ ManualCalls \subseteq Range(Measurements) \X Nat
  /\ ManualJobs \subseteq Jobs /\ LastWrite \in Nat /\ MaxTime \in Nat

VARIABLES
  clock,
  time,                     \* the timestamp of each point, -1 before it is written
  kept, archived,
  gone,                     \* who deleted a point: "no", "cleanup", "manual"
  job,                      \* the cleanups
  archiveBeforeDelete,      \* config.archiveBeforeDelete
  unarchived,               \* points an archive query left out because it failed
  policy, update, told      \* the policy in the database, the updates, their results

retentionVars == <<clock, time, kept, archived, gone, job, archiveBeforeDelete, unarchived,
                   policy, update, told>>
data == <<time, kept, archived, gone, unarchived>>
policies == <<policy, update, told, archiveBeforeDelete>>

\* A cleanup works on the head of `left`; `failed` collects the measurements
\* whose queries failed, for the properties.
Idle == [pc |-> "idle", kind |-> "cleanup", left |-> <<>>, cutoff |-> 0, start |-> 0, failed |-> {}]

RetentionInit ==
  /\ clock = 0 /\ time = [p \in Records |-> -1]
  /\ kept = {} /\ archived = {} /\ gone = [p \in Records |-> "no"] /\ unarchived = {}
  /\ job = [j \in Jobs |-> Idle] /\ archiveBeforeDelete \in BOOLEAN
  /\ policy = "old" /\ update = [u \in Updates |-> "new"] /\ told = [u \in Updates |-> "nothing"]

-----------------------------------------------------------------------------
(* The environment.                                                        *)

Tick ==
  /\ clock < MaxTime /\ clock' = clock + 1
  /\ UNCHANGED <<job, data, policies>>

\* Some point of a measurement that was not written yet, whichever.
Write(m) ==
  LET fresh == {p \in Records : MeasurementOf[p] = m /\ time[p] = -1}
      new == CHOOSE p \in fresh : TRUE
  IN /\ fresh # {} /\ clock <= LastWrite
     /\ time' = [time EXCEPT ![new] = clock]
     /\ kept' = kept \cup {new}
     /\ UNCHANGED <<clock, archived, gone, unarchived, job, policies>>

\* WHERE time < cutoff, over one measurement.
Older(m, cutoff) == {p \in kept : MeasurementOf[p] = m /\ time[p] < cutoff}

-----------------------------------------------------------------------------
(* cleanupMeasurement, entered for the head of `left` in the turn the       *)
(* previous one ends in.                                                   *)

CutoffFor(m) == clock - Duration[m]

\* A duration that does not parse throws, and the measurement is passed over.
Enter(c, left) ==
  LET rest == SelectSeq(left, LAMBDA m : m \notin Unparsable)
  IN IF rest = <<>> THEN [c EXCEPT !.pc = "done", !.left = <<>>, !.cutoff = 0, !.start = 0]
     ELSE [c EXCEPT !.pc = "count", !.left = rest, !.cutoff = CutoffFor(Head(rest))]

\* performCleanup, from the schedule or called.
PerformCleanup(j) ==
  /\ job[j].pc = "idle"
  /\ job' = [job EXCEPT ![j] = Enter([Idle EXCEPT !.start = clock], Measurements)]
  /\ UNCHANGED <<clock, data, policies>>

\* cleanupOldData counts and deletes in one measurement, without an archive.
CleanupOldData(j, m, days) ==
  /\ job[j].pc = "idle"
  /\ job' = [job EXCEPT ![j] = [Idle EXCEPT !.pc = "count", !.kind = "manual", !.left = <<m>>,
                                            !.cutoff = clock - days]]
  /\ UNCHANGED <<clock, data, policies>>

\* Mutant: the first failure ends the whole cleanup.
LeaveAll(c, fails) ==
  [c EXCEPT !.pc = IF fails \/ Len(c.left) = 1 THEN "done" ELSE "count",
            !.left = IF fails THEN <<>> ELSE Tail(c.left),
            !.failed = IF fails THEN @ \cup {Head(c.left)} ELSE @,
            !.cutoff = IF fails \/ Len(c.left) = 1 THEN @ ELSE CutoffFor(c.left[2])]

\* cleanupMeasurement returns, whatever happened in it, and the loop goes on.
Leave(c, fails) ==
  Enter([c EXCEPT !.failed = IF fails THEN @ \cup {Head(c.left)} ELSE @], Tail(c.left))

AfterCount(c) == IF c.kind = "cleanup" /\ archiveBeforeDelete THEN "archive" ELSE "delete"

\* A count that fails counts as no records.
Count(j, fails) ==
  LET c == job[j]
  IN /\ c.pc = "count"
     /\ job' = [job EXCEPT ![j] = IF fails \/ Older(Head(c.left), c.cutoff) = {} THEN Leave(c, fails)
                                  ELSE [c EXCEPT !.pc = AfterCount(c)]]
     /\ UNCHANGED <<clock, data, policies>>

\* archiveData returns nothing: the deletion follows a failure as well.
Archive(j, fails) ==
  LET c == job[j]
      old == Older(Head(c.left), c.cutoff)
  IN /\ c.pc = "archive"
     /\ job' = [job EXCEPT ![j].pc = "delete"]
     /\ IF fails THEN /\ archived' \in {archived, archived \cup old}
                      /\ unarchived' = unarchived \cup (old \ archived')
        ELSE archived' = archived \cup old /\ UNCHANGED unarchived
     /\ UNCHANGED <<clock, time, kept, gone, policies>>

Deleted(kind, points) ==
  /\ kept' = kept \ points
  /\ gone' = [p \in Records |-> IF p \in points THEN kind ELSE gone[p]]

\* Mutant: the cutoff is computed again for the deletion.
DeleteAtNow(j, fails) ==
  LET c == job[j]
      old == Older(Head(c.left), IF c.kind = "cleanup" THEN CutoffFor(Head(c.left)) ELSE c.cutoff)
  IN /\ c.pc = "delete"
     /\ job' = [job EXCEPT ![j] = Leave(c, fails)]
     /\ Deleted(c.kind, old)
     /\ UNCHANGED <<clock, time, archived, unarchived, policies>>

Delete(j, fails) ==
  LET c == job[j]
      old == Older(Head(c.left), c.cutoff)
  IN /\ c.pc = "delete"
     /\ job' = [job EXCEPT ![j] = Leave(c, fails)]
     /\ \/ Deleted(c.kind, old)
        \/ fails /\ UNCHANGED <<kept, gone>>
     /\ UNCHANGED <<clock, time, archived, unarchived, policies>>

-----------------------------------------------------------------------------
(* updateRetentionPolicy: DROP, then CREATE, whose result is not looked at. *)

DropPolicy(u) ==
  /\ update[u] = "new"
  /\ policy' \in {"none", policy}
  /\ update' = [update EXCEPT ![u] = "create"]
  /\ UNCHANGED <<clock, job, data, told, archiveBeforeDelete>>

\* The database refuses to create a policy that is there.
CreatePolicy(u) ==
  /\ update[u] = "create"
  /\ policy' \in {policy, IF policy = "none" THEN u ELSE policy}
  /\ update' = [update EXCEPT ![u] = "done"]
  /\ told' = [told EXCEPT ![u] = "true"]
  /\ UNCHANGED <<clock, job, data, archiveBeforeDelete>>

\* Without a connection createRetentionPolicy answers false.
CreateUnconnected(u) ==
  /\ update[u] = "create"
  /\ update' = [update EXCEPT ![u] = "done"]
  /\ told' = [told EXCEPT ![u] = "false"]
  /\ UNCHANGED <<clock, job, data, policy, archiveBeforeDelete>>

-----------------------------------------------------------------------------
Clean(j) == \E fails \in BOOLEAN : Count(j, fails) \/ Archive(j, fails) \/ Delete(j, fails)

CleanupNext ==
  \/ Tick
  \/ \E m \in Range(Measurements) : Write(m)
  \/ \E j \in Jobs : PerformCleanup(j) \/ Clean(j)
  \/ \E j \in ManualJobs, call \in ManualCalls : CleanupOldData(j, call[1], call[2])

UpdateNext == \E u \in Updates : DropPolicy(u) \/ CreatePolicy(u) \/ CreateUnconnected(u)

RetentionNext == CleanupNext \/ UpdateNext

\* A query is answered or fails.
RetentionFairness == \A j \in Jobs : WF_retentionVars(Clean(j))

RetentionSpec == RetentionInit /\ [][RetentionNext]_retentionVars /\ RetentionFairness

-----------------------------------------------------------------------------

\* With archiving on, a point that a scheduled cleanup deleted is in the archive
\* unless its archive query failed: the archive and the deletion use one cutoff,
\* so points that grow old in between stay (cleanupMeasurement).
DeletedAreArchived ==
  archiveBeforeDelete =>
    \A p \in Records : gone[p] = "cleanup" => p \in archived \cup unarchived

\* When a scheduled cleanup ends, an old point is left only in a measurement
\* whose query failed or whose duration does not parse: a failure in one
\* measurement does not end the loop over the others (performCleanup).
Ends(j) == job[j].pc # "done" /\ job'[j].pc = "done" /\ job'[j].kind = "cleanup"
SweepComplete ==
  [][\A j \in Jobs : Ends(j) =>
       \A p \in kept' : time[p] + Duration[MeasurementOf[p]] < job[j].start =>
         MeasurementOf[p] \in job'[j].failed \cup Unparsable]_retentionVars
=============================================================================
