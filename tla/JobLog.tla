------------------------------- MODULE JobLog -------------------------------
(***************************************************************************)
(* What the worker pool promises its callers: the jobs it accepts form a   *)
(* log and are taken from it one by one, in order and once each; a job is  *)
(* refused only when Capacity jobs wait, and none is accepted any more     *)
(* once the pool is closed.  Threads, locks and counters are not seen.     *)
(***************************************************************************)
EXTENDS Naturals, Sequences

CONSTANTS Jobs, Capacity

VARIABLES
  accepted, taken,   \* the log, and how much of it has been taken
  offered, closed

logVars == <<accepted, taken, offered, closed>>

LogInit == accepted = <<>> /\ taken = 0 /\ offered = {} /\ closed = FALSE

Offer(j) ==
  /\ ~closed /\ j \notin offered
  /\ offered' = offered \cup {j}
  /\ UNCHANGED <<taken, closed>>

Accept(j) == Offer(j) /\ Len(accepted) - taken < Capacity /\ accepted' = Append(accepted, j)

Refuse(j) == Offer(j) /\ Len(accepted) - taken >= Capacity /\ UNCHANGED accepted

Take == taken < Len(accepted) /\ taken' = taken + 1 /\ UNCHANGED <<accepted, offered, closed>>

Close == ~closed /\ closed' = TRUE /\ UNCHANGED <<accepted, taken, offered>>

LogNext == (\E j \in Jobs : Accept(j) \/ Refuse(j)) \/ Take \/ Close

LogSpec == LogInit /\ [][LogNext]_logVars
=============================================================================
