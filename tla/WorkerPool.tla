----------------------------- MODULE WorkerPool -----------------------------
(***************************************************************************)
(* The worker pool of src/threading/worker_pool.rs: a bounded channel of   *)
(* jobs, worker threads that share its receiver under a mutex, a submit    *)
(* counter that is raised after the job was sent, resize, and Drop.        *)
(***************************************************************************)
EXTENDS Null, Naturals, FiniteSets, SequencesExt

CONSTANTS
  Jobs,
  MaxWorkers, InitialWorkers,   \* worker threads are 1..MaxWorkers
  Capacity,                     \* bounded(1000)
  Panics                        \* the jobs that panic

ASSUME PoolAssumption ==
  /\ MaxWorkers \in Nat /\ InitialWorkers \in 1..MaxWorkers /\ Capacity \in Nat \ {0}
  /\ Panics \subseteq Jobs

VARIABLES
  channel, open,      \* the jobs sent; whether sender is still there
  lock,               \* the worker that holds the receiver's mutex
  workers,            \* the workers in the vector, in order
  worker,             \* thread -> what it does
  submitted, completed,
  caller,             \* each job's caller: "new", "sent", "accepted", "refused"
  started, dropping   \* jobs in the order they were started; progress of Drop

poolVars == <<channel, open, lock, workers, worker, submitted, completed, caller, started, dropping>>

Members == 1..MaxWorkers
Spawned == [pc |-> "lock", job |-> Nil]
Unspawned == [pc |-> "none", job |-> Nil]

PoolInit ==
  /\ channel = <<>> /\ open = TRUE /\ lock = Nil
  /\ workers = [k \in 1..InitialWorkers |-> k]
  /\ worker = [w \in Members |-> IF w <= InitialWorkers THEN Spawned ELSE Unspawned]
  /\ submitted = 0 /\ completed = 0
  /\ caller = [j \in Jobs |-> "new"]
  /\ started = <<>> /\ dropping = "no"

-----------------------------------------------------------------------------
(* Callers.                                                                *)

\* try_send and send_timeout with room in the channel.
Send(j) ==
  /\ caller[j] = "new" /\ dropping = "no"
  /\ Len(channel) < Capacity
  /\ channel' = Append(channel, j)
  /\ caller' = [caller EXCEPT ![j] = "sent"]
  /\ UNCHANGED <<open, lock, workers, worker, submitted, completed, started, dropping>>

\* try_send finds the channel full, or send_timeout runs out of time.
Refused(j) ==
  /\ caller[j] = "new" /\ dropping = "no"
  /\ Len(channel) >= Capacity
  /\ caller' = [caller EXCEPT ![j] = "refused"]
  /\ UNCHANGED <<channel, open, lock, workers, worker, submitted, completed, started, dropping>>

\* The counter, under the lock of the statistics.
CountSubmitted(j) ==
  /\ caller[j] = "sent"
  /\ submitted' = submitted + 1
  /\ caller' = [caller EXCEPT ![j] = "accepted"]
  /\ UNCHANGED <<channel, open, lock, workers, worker, completed, started, dropping>>

\* resize takes the pool mutably: no call of execute is in progress.
Exclusive == dropping = "no" /\ \A j \in Jobs : caller[j] # "sent"

\* Shrinking forgets workers without stopping their threads.
Resize(n) ==
  /\ Exclusive /\ n # Len(workers)
  /\ IF n < Len(workers) THEN workers' = SubSeq(workers, 1, n) /\ UNCHANGED worker
     ELSE LET spare == {w \in Members : worker[w].pc = "none"}
              new == SetToSeq(spare)
          IN /\ Cardinality(spare) >= n - Len(workers)
             /\ workers' = workers \o SubSeq(new, 1, n - Len(workers))
             /\ worker' = [w \in Members |->
                             IF w \in Range(workers') /\ w \in spare THEN Spawned ELSE worker[w]]
  /\ UNCHANGED <<channel, open, lock, submitted, completed, caller, started, dropping>>

-----------------------------------------------------------------------------
(* Workers.                                                                *)

\* The mutex is held while the worker waits in recv.
Lock(w) ==
  /\ worker[w].pc = "lock" /\ lock = Nil
  /\ lock' = w
  /\ worker' = [worker EXCEPT ![w].pc = "recv"]
  /\ UNCHANGED <<channel, open, workers, submitted, completed, caller, started, dropping>>

\* Mutant: the job stays in the channel.
RecvPeeks(w) ==
  /\ worker[w].pc = "recv" /\ channel # <<>>
  /\ lock' = Nil
  /\ worker' = [worker EXCEPT ![w] = [pc |-> "run", job |-> Head(channel)]]
  /\ started' = Append(started, Head(channel))
  /\ UNCHANGED <<channel, open, workers, submitted, completed, caller, dropping>>

Recv(w) ==
  /\ worker[w].pc = "recv" /\ channel # <<>>
  /\ channel' = Tail(channel) /\ lock' = Nil
  /\ worker' = [worker EXCEPT ![w] = [pc |-> "run", job |-> Head(channel)]]
  /\ started' = Append(started, Head(channel))
  /\ UNCHANGED <<open, workers, submitted, completed, caller, dropping>>

\* Mutant: a closed channel is left with jobs in it.
RecvStopsEarly(w) ==
  /\ worker[w].pc = "recv" /\ ~open
  /\ lock' = Nil
  /\ worker' = [worker EXCEPT ![w].pc = "exited"]
  /\ UNCHANGED <<channel, open, workers, submitted, completed, caller, started, dropping>>

\* recv fails once the channel is closed and empty.
RecvClosed(w) ==
  /\ worker[w].pc = "recv" /\ channel = <<>> /\ ~open
  /\ lock' = Nil
  /\ worker' = [worker EXCEPT ![w].pc = "exited"]
  /\ UNCHANGED <<channel, open, workers, submitted, completed, caller, started, dropping>>

Run(w) ==
  /\ worker[w].pc = "run" /\ worker[w].job \notin Panics
  /\ worker' = [worker EXCEPT ![w] = Spawned]
  /\ completed' = completed + 1
  /\ UNCHANGED <<channel, open, lock, workers, submitted, caller, started, dropping>>

\* A panic ends the thread; no lock is held while a job runs.
Panic(w) ==
  /\ worker[w].pc = "run" /\ worker[w].job \in Panics
  /\ worker' = [worker EXCEPT ![w].pc = "panicked"]
  /\ UNCHANGED <<channel, open, lock, workers, submitted, completed, caller, started, dropping>>

-----------------------------------------------------------------------------
(* Drop: close the channel, join the workers of the vector in order.       *)

Drop ==
  /\ Exclusive
  /\ open' = FALSE /\ dropping' = "joining"
  /\ UNCHANGED <<channel, lock, workers, worker, submitted, completed, caller, started>>

\* Joining a thread that panicked makes Drop panic.
Join ==
  /\ dropping = "joining" /\ workers # <<>>
  /\ worker[Head(workers)].pc \in {"exited", "panicked"}
  /\ workers' = Tail(workers)
  /\ dropping' = IF worker[Head(workers)].pc = "panicked" THEN "panicked"
                 ELSE IF Len(workers) = 1 THEN "done" ELSE "joining"
  /\ UNCHANGED <<channel, open, lock, worker, submitted, completed, caller, started>>

Work(w) == Lock(w) \/ Recv(w) \/ RecvClosed(w) \/ Run(w) \/ Panic(w)

PoolNext ==
  \/ \E j \in Jobs : Send(j) \/ Refused(j) \/ CountSubmitted(j)
  \/ \E n \in 1..MaxWorkers : Resize(n)
  \/ \E w \in Members : Work(w)
  \/ Drop \/ Join

\* Threads are scheduled, jobs end, and a caller gets the statistics' lock.
PoolFairness ==
  /\ \A w \in Members : WF_poolVars(Work(w))
  /\ \A j \in Jobs : WF_poolVars(CountSubmitted(j))
  /\ WF_poolVars(Join)

PoolSpec == PoolInit /\ [][PoolNext]_poolVars /\ PoolFairness

-----------------------------------------------------------------------------

AllPanicked == \A w \in Members : worker[w].pc \in {"none", "panicked"}

\* Every job ever sent, in the order of the sends: those started, then those that
\* still wait in the channel.
Log == INSTANCE JobLog WITH
  accepted <- started \o channel,
  taken <- Len(started),
  offered <- {j \in Jobs : caller[j] # "new"},
  closed <- ~open

\* The pool implements the log of jobs: whatever its workers do with the shared
\* receiver, panic, or are forgotten by resize, jobs are started in the order in
\* which they were sent, none is lost or started twice, a job is refused only
\* when the channel is full, and none is taken in after Drop (execute,
\* Worker::new, resize and Drop of worker_pool.rs).
DeliversInOrder == Log!LogSpec

\* A job that was sent is started, unless every worker has panicked; and Drop
\* ends, with every accepted job started unless it met a panicked worker (the
\* channel still delivers after the sender is gone).
AcceptedJobsRun ==
  /\ \A j \in Jobs : caller[j] = "sent" ~> (j \in Range(started) \/ AllPanicked)
  /\ dropping = "joining" ~> (dropping = "done" /\ channel = <<>>) \/ dropping = "panicked"
=============================================================================
