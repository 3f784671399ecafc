-------------------------- MODULE PlaybookExecutor --------------------------
(***************************************************************************)
(* SOAR playbooks: the stored playbooks of backend/src/api/routes/         *)
(* playbooks.ts and their execution by backend/src/soar/executor.ts.  A    *)
(* step calls an outside system (soar/actions/...) and then writes the     *)
(* audit log (soar/auditLog.ts); both are awaited, both may fail, and the  *)
(* retry covers them together.  A call that times out may have taken       *)
(* effect.                                                                 *)
(***************************************************************************)
EXTENDS Null, Naturals, Sequences

CONSTANTS
  Ids, Books,       \* file names, and the playbooks that may be stored
  Executions, MaxTriggers

\* A playbook: the retries of each of its steps, and how many rollback steps.
ASSUME PlaybookAssumption ==
  /\ Books \subseteq [retries : Seq(Nat), rollback : Nat]
  /\ \A b \in Books : b.retries # <<>>
  /\ Nil \notin Books /\ MaxTriggers \in Nat

VARIABLES
  store,       \* playbooksDir: id -> playbook, or Nil
  mongo,       \* mongoose.connection.readyState is 1
  exec,        \* the executions
  triggers

playbookVars == <<store, mongo, exec, triggers>>

Idle == [pc |-> "idle", book |-> Nil, executed |-> 0, attempt |-> 0, rolledBack |-> 0,
         applied |-> <<>>, audited |-> <<>>]

PlaybookInit ==
  /\ store \in [Ids -> Books \cup {Nil}]
  /\ mongo \in BOOLEAN
  /\ exec = [e \in Executions |-> Idle]
  /\ triggers = 0

-----------------------------------------------------------------------------

PutPlaybook(i, b) ==
  /\ store' = [store EXCEPT ![i] = b]
  /\ UNCHANGED <<mongo, exec, triggers>>

DeletePlaybook(i) ==
  /\ store' = [store EXCEPT ![i] = Nil]
  /\ UNCHANGED <<mongo, exec, triggers>>

\* The step in progress, and the retries it is given.
StepOf(x) == x.executed + 1
Retries(x) == x.book.retries[StepOf(x)]

\* Mutant: one attempt more than the retries.
AllowsOneMore(x) ==
  IF x.executed = Len(x.book.retries) THEN [x EXCEPT !.pc = "success"]
  ELSE IF x.attempt <= Retries(x) + 1 THEN [x EXCEPT !.pc = "act"]
  ELSE [x EXCEPT !.pc = IF x.book.rollback = 0 THEN "failed" ELSE "rollback"]

\* After the last step or the last allowed attempt the execution moves on: a
\* step without retries fails without being tried.
Proceed(x) ==
  IF x.executed = Len(x.book.retries) THEN [x EXCEPT !.pc = "success"]
  ELSE IF x.attempt <= Retries(x) THEN [x EXCEPT !.pc = "act"]
  ELSE [x EXCEPT !.pc = IF x.book.rollback = 0 THEN "failed" ELSE "rollback"]

Trigger(e, i) ==
  /\ exec[e].pc \in {"idle", "success", "failed"}
  /\ store[i] # Nil /\ triggers < MaxTriggers
  /\ LET none == [k \in DOMAIN store[i].retries |-> 0]
     IN exec' = [exec EXCEPT ![e] = Proceed([Idle EXCEPT !.book = store[i], !.attempt = 1,
                                                          !.applied = none, !.audited = none])]
  /\ triggers' = triggers + 1
  /\ UNCHANGED <<store, mongo>>

NextAttempt(x) == Proceed([x EXCEPT !.attempt = @ + 1])

Applied(x) == [x EXCEPT !.applied[StepOf(x)] = @ + 1]
Audited(x) == [x EXCEPT !.audited[StepOf(x)] = @ + 1]

\* executeAction returns, and the audit log is next.
ActionSucceeds(e) ==
  /\ exec[e].pc = "act"
  /\ exec' = [exec EXCEPT ![e] = [Applied(@) EXCEPT !.pc = "audit"]]
  /\ UNCHANGED <<store, mongo, triggers>>

\* executeAction throws: refused, or timed out with or without effect.
ActionFails(e) ==
  /\ exec[e].pc = "act"
  /\ \E x \in {exec[e], Applied(exec[e])} : exec' = [exec EXCEPT ![e] = NextAttempt(x)]
  /\ UNCHANGED <<store, mongo, triggers>>

StepDone(x) == Proceed([x EXCEPT !.executed = @ + 1, !.attempt = 1])

\* Without a connection the log entry is skipped silently.
AuditSkipped(e) ==
  /\ exec[e].pc = "audit" /\ ~mongo
  /\ exec' = [exec EXCEPT ![e] = StepDone(@)]
  /\ UNCHANGED <<store, mongo, triggers>>

AuditWritten(e) ==
  /\ exec[e].pc = "audit" /\ mongo
  /\ exec' = [exec EXCEPT ![e] = StepDone(Audited(@))]
  /\ UNCHANGED <<store, mongo, triggers>>

\* A failed write, whether or not the entry was stored, sends the step around
\* again, its action included.
AuditFails(e) ==
  /\ exec[e].pc = "audit" /\ mongo
  /\ \E x \in {exec[e], Audited(exec[e])} : exec' = [exec EXCEPT ![e] = NextAttempt(x)]
  /\ UNCHANGED <<store, mongo, triggers>>

\* Mutant: a failing rollback step is tried forever.
RollbackRepeats(e) ==
  /\ exec[e].pc = "rollback"
  /\ UNCHANGED playbookVars

\* One rollback step, whether or not it fails.
Rollback(e) ==
  /\ exec[e].pc = "rollback"
  /\ LET n == exec[e].rolledBack + 1
     IN exec' = [exec EXCEPT ![e].rolledBack = n,
                             ![e].pc = IF n = exec[e].book.rollback THEN "failed" ELSE "rollback"]
  /\ UNCHANGED <<store, mongo, triggers>>

MongoToggles ==
  /\ mongo' = ~mongo
  /\ UNCHANGED <<store, exec, triggers>>

RunStep(e) ==
  \/ ActionSucceeds(e) \/ ActionFails(e)
  \/ AuditSkipped(e) \/ AuditWritten(e) \/ AuditFails(e)
  \/ Rollback(e)

PlaybookNext ==
  \/ \E i \in Ids : DeletePlaybook(i) \/ \E b \in Books : PutPlaybook(i, b)
  \/ \E e \in Executions : RunStep(e) \/ \E i \in Ids : Trigger(e, i)
  \/ MongoToggles

\* Calls of outside systems time out, so every await ends.
PlaybookFairness == \A e \in Executions : WF_playbookVars(RunStep(e))

PlaybookSpec == PlaybookInit /\ [][PlaybookNext]_playbookVars /\ PlaybookFairness

-----------------------------------------------------------------------------

Running(x) == x.pc # "idle"

\* No step takes effect more often than its retries allow, nor less often than
\* the audit log says, even when the audit log fails after the action or a timed
\* out action took effect.
EffectsWithinRetries ==
  \A e \in Executions : Running(exec[e]) =>
    \A k \in DOMAIN exec[e].applied :
      /\ exec[e].applied[k] <= exec[e].book.retries[k]
      /\ exec[e].audited[k] <= exec[e].applied[k]

\* Every triggered execution comes to a result.
ExecutionsEnd ==
  \A e \in Executions : exec[e].pc # "idle" ~> exec[e].pc \in {"success", "failed"}
=============================================================================
