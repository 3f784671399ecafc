-------------------------- MODULE WorkerPool_proofs -------------------------
(* The worker pool implements its abstract log of jobs, for any number of   *)
(* jobs and workers and any capacity.                                       *)
EXTENDS WorkerPool, SequenceTheorems, TLAPS

\* What the refinement needs to know of a reachable state: the types of the
\* queues, the sender is there until Drop, and it was given up for good.
PoolShape ==
  /\ channel \in Seq(Jobs) /\ started \in Seq(Jobs)
  /\ caller \in [Jobs -> {"new", "sent", "accepted", "refused"}]
  /\ open \in BOOLEAN
  /\ open <=> dropping = "no"

\* Sending a job appends it to the log.
LEMMA SendAppends ==
  ASSUME NEW S, NEW s \in Seq(S), NEW c \in Seq(S), NEW j \in S
  PROVE  s \o Append(c, j) = Append(s \o c, j)
  OBVIOUS

\* Starting the first waiting job moves the boundary between the started and the
\* waiting jobs, and leaves the log as it is.
LEMMA TakeKeepsLog ==
  ASSUME NEW S, NEW s \in Seq(S), NEW c \in Seq(S), c # <<>>
  PROVE  /\ Append(s, Head(c)) \o Tail(c) = s \o c
         /\ Len(Append(s, Head(c))) = Len(s) + 1
         /\ Len(s) < Len(s \o c)
<1> DEFINE t == Append(s, Head(c))
           l == t \o Tail(c)
           r == s \o c
<1>1. Len(c) \in Nat \ {0} /\ Head(c) = c[1] /\ Head(c) \in S /\ Tail(c) \in Seq(S)
  BY EmptySeq
<1>2. t \in Seq(S) /\ Len(t) = Len(s) + 1 /\ t[Len(s) + 1] = c[1]
  BY <1>1
<1>3. Len(l) = Len(r) /\ Len(s) < Len(r)
  BY <1>1, <1>2
<1>4. ASSUME NEW i \in 1..Len(l) PROVE l[i] = r[i]
  BY <1>1, <1>2, <1>3, <1>4
<1>5. l \in Seq(S) /\ r \in Seq(S)
  BY <1>1, <1>2
<1>6. l = r
  BY <1>3, <1>4, <1>5, SeqEqual
<1> QED BY <1>2, <1>3, <1>6

-----------------------------------------------------------------------------

LEMMA InitShape == PoolInit => PoolShape
  BY EmptySeq DEF PoolInit, PoolShape

LEMMA NextShape == PoolShape /\ [PoolNext]_poolVars => PoolShape'
<1> SUFFICES ASSUME PoolShape, [PoolNext]_poolVars PROVE PoolShape'
  OBVIOUS
<1> USE DEF PoolShape
<1>1. ASSUME NEW j \in Jobs, Send(j) PROVE PoolShape'
  BY <1>1, AppendProperties DEF Send
<1>2. ASSUME NEW j \in Jobs, Refused(j) PROVE PoolShape'
  BY <1>2 DEF Refused
<1>3. ASSUME NEW j \in Jobs, CountSubmitted(j) PROVE PoolShape'
  BY <1>3 DEF CountSubmitted
<1>4. ASSUME NEW n \in 1..MaxWorkers, Resize(n) PROVE PoolShape'
  BY <1>4 DEF Resize
<1>5. ASSUME NEW w \in Members, Work(w) PROVE PoolShape'
  <2>1. CASE Recv(w)
    BY <2>1, HeadTailProperties, AppendProperties DEF Recv
  <2>2. CASE Lock(w) \/ RecvClosed(w) \/ Run(w) \/ Panic(w)
    BY <2>2 DEF Lock, RecvClosed, Run, Panic
  <2> QED BY <1>5, <2>1, <2>2 DEF Work
<1>6. CASE Drop
  BY <1>6 DEF Drop
<1>7. CASE Join
  BY <1>7 DEF Join
<1>8. CASE UNCHANGED poolVars
  BY <1>8 DEF poolVars
<1> QED BY <1>1, <1>2, <1>3, <1>4, <1>5, <1>6, <1>7, <1>8 DEF PoolNext

-----------------------------------------------------------------------------

\* An initial state of the pool is an empty log that nobody has offered a job.
LEMMA InitIsLogInit == PoolInit => Log!LogInit
  BY EmptySeq DEF PoolInit, Log!LogInit

\* A step of the pool is a step of the log or leaves the log as it is.
LEMMA StepIsLogStep ==
  PoolShape /\ [PoolNext]_poolVars => [Log!LogNext]_(Log!logVars)
<1> SUFFICES ASSUME PoolShape, [PoolNext]_poolVars PROVE Log!LogNext \/ UNCHANGED Log!logVars
  OBVIOUS
<1>0. /\ channel \in Seq(Jobs) /\ started \in Seq(Jobs)
      /\ Len(channel) \in Nat /\ Len(started) \in Nat
      /\ Len(started \o channel) = Len(started) + Len(channel)
  BY ConcatProperties DEF PoolShape
<1>1. ASSUME NEW j \in Jobs, Send(j) PROVE Log!Accept(j)
  <2>1. (started \o channel)' = Append(started \o channel, j)
    BY <1>0, <1>1, SendAppends DEF Send
  <2>2. {k \in Jobs : caller[k] # "new"}' = {k \in Jobs : caller[k] # "new"} \cup {j}
    BY <1>1 DEF Send, PoolShape
  <2>3. open /\ open' = open /\ started' = started /\ caller[j] = "new" /\ Len(channel) < Capacity
    BY <1>1 DEF Send, PoolShape
  <2>4. Len(started \o channel) - Len(started) < Capacity
    BY <1>0, <2>3
  <2> QED BY <2>1, <2>2, <2>3, <2>4 DEF Log!Accept, Log!Offer
<1>2. ASSUME NEW j \in Jobs, Refused(j) PROVE Log!Refuse(j)
  <2>1. (started \o channel)' = started \o channel /\ started' = started
    BY <1>2 DEF Refused
  <2>2. {k \in Jobs : caller[k] # "new"}' = {k \in Jobs : caller[k] # "new"} \cup {j}
    BY <1>2 DEF Refused, PoolShape
  <2>3. open /\ open' = open /\ caller[j] = "new" /\ Len(channel) >= Capacity
    BY <1>2 DEF Refused, PoolShape
  <2>4. Len(started \o channel) - Len(started) >= Capacity
    BY <1>0, <2>3
  <2> QED BY <2>1, <2>2, <2>3, <2>4 DEF Log!Refuse, Log!Offer
<1>3. ASSUME NEW j \in Jobs, CountSubmitted(j) PROVE UNCHANGED Log!logVars
  <2>1. {k \in Jobs : caller[k] # "new"}' = {k \in Jobs : caller[k] # "new"}
    BY <1>3 DEF CountSubmitted, PoolShape
  <2> QED BY <1>3, <2>1 DEF CountSubmitted, Log!logVars
<1>4. ASSUME NEW n \in 1..MaxWorkers, Resize(n) PROVE UNCHANGED Log!logVars
  BY <1>4 DEF Resize, Log!logVars
<1>5. ASSUME NEW w \in Members, Recv(w) PROVE Log!Take
  <2>1. channel # <<>> /\ channel' = Tail(channel) /\ started' = Append(started, Head(channel))
    BY <1>5 DEF Recv
  <2>2. /\ (started \o channel)' = started \o channel
        /\ Len(started)' = Len(started) + 1 /\ Len(started) < Len(started \o channel)
    BY <1>0, <2>1, TakeKeepsLog
  <2> QED BY <1>5, <2>2 DEF Recv, Log!Take
<1>6. ASSUME NEW w \in Members, Lock(w) \/ RecvClosed(w) \/ Run(w) \/ Panic(w)
      PROVE  UNCHANGED Log!logVars
  BY <1>6 DEF Lock, RecvClosed, Run, Panic, Log!logVars
<1>7. ASSUME Drop PROVE Log!Close
  BY <1>7 DEF Drop, Exclusive, PoolShape, Log!Close
<1>8. ASSUME Join PROVE UNCHANGED Log!logVars
  BY <1>8 DEF Join, Log!logVars
<1>9. ASSUME UNCHANGED poolVars PROVE UNCHANGED Log!logVars
  BY <1>9 DEF poolVars, Log!logVars
<1> QED
  BY <1>1, <1>2, <1>3, <1>4, <1>5, <1>6, <1>7, <1>8, <1>9 DEF PoolNext, Work, Log!LogNext

\* Every behaviour of the pool is one of the log of jobs: jobs start in the order
\* in which execute sent them, each once, for any number of jobs and workers, any
\* capacity and any jobs that panic.
THEOREM PoolDeliversInOrder == PoolSpec => DeliversInOrder
<1>1. PoolInit => Log!LogInit
  BY InitIsLogInit
<1>2. PoolSpec => []PoolShape
  BY InitShape, NextShape, PTL DEF PoolSpec
<1>3. PoolShape /\ [PoolNext]_poolVars => [Log!LogNext]_(Log!logVars)
  BY StepIsLogStep
<1> QED BY <1>1, <1>2, <1>3, PTL DEF PoolSpec, DeliversInOrder, Log!LogSpec

-----------------------------------------------------------------------------

\* The jobs ever sent, and those ever offered, as the log sees them.
SentJobs == started \o channel
OfferedJobs == {j \in Jobs : caller[j] # "new"}

\* No job is in the channel or was started twice, and none without an offer.
EachOnce ==
  /\ SentJobs \in Seq(OfferedJobs)
  /\ \A i, k \in 1..Len(SentJobs) : SentJobs[i] = SentJobs[k] => i = k

LEMMA OnceKept ==
  ASSUME NEW O, NEW l \in Seq(O), NEW j, j \notin O,
         \A i, k \in 1..Len(l) : l[i] = l[k] => i = k
  PROVE  /\ Append(l, j) \in Seq(O \cup {j})
         /\ \A i, k \in 1..Len(Append(l, j)) : Append(l, j)[i] = Append(l, j)[k] => i = k
<1>1. l \in Seq(O \cup {j})
  BY SeqMonotonic
<1>2. Len(Append(l, j)) = Len(l) + 1 /\ Append(l, j) \in Seq(O \cup {j})
  BY <1>1
<1>3. \A i \in 1..Len(l) : Append(l, j)[i] = l[i] /\ l[i] \in O
  BY <1>1
<1>4. Append(l, j)[Len(l) + 1] = j
  BY <1>1
<1> QED BY <1>1, <1>2, <1>3, <1>4

\* No job that execute was given is ever started twice, or both started and still
\* waiting, and what is started was given to execute.
THEOREM JobsStartOnce == PoolSpec => []EachOnce
<1>1. PoolInit => EachOnce
  BY EmptySeq DEF PoolInit, EachOnce, SentJobs, OfferedJobs
<1>2. PoolShape /\ EachOnce /\ [PoolNext]_poolVars => EachOnce'
  <2> SUFFICES ASSUME PoolShape, EachOnce, [PoolNext]_poolVars PROVE EachOnce'
    OBVIOUS
  <2>1. Log!LogNext \/ UNCHANGED Log!logVars
    BY StepIsLogStep
  <2>2. ASSUME NEW j \in Jobs, Log!Accept(j) PROVE EachOnce'
    <3>1. SentJobs' = Append(SentJobs, j) /\ OfferedJobs' = OfferedJobs \cup {j} /\ j \notin OfferedJobs
      BY <2>2 DEF Log!Accept, Log!Offer, SentJobs, OfferedJobs
    <3> QED BY <3>1, OnceKept DEF EachOnce
  <2>3. ASSUME NEW j \in Jobs, Log!Refuse(j) PROVE EachOnce'
    <3>1. SentJobs' = SentJobs /\ OfferedJobs' = OfferedJobs \cup {j}
      BY <2>3 DEF Log!Refuse, Log!Offer, SentJobs, OfferedJobs
    <3> QED BY <3>1, SeqMonotonic DEF EachOnce
  <2>4. CASE Log!Take \/ Log!Close \/ UNCHANGED Log!logVars
    <3>1. SentJobs' = SentJobs /\ OfferedJobs' = OfferedJobs
      BY <2>4 DEF Log!Take, Log!Close, Log!logVars, SentJobs, OfferedJobs
    <3> QED BY <3>1 DEF EachOnce
  <2> QED BY <2>1, <2>2, <2>3, <2>4 DEF Log!LogNext
<1>3. PoolSpec => []PoolShape
  BY InitShape, NextShape, PTL DEF PoolSpec
<1> QED BY <1>1, <1>2, <1>3, PTL DEF PoolSpec
=============================================================================
