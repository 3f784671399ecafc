--------------------------- MODULE ResponseEngine ---------------------------
(***************************************************************************)
(* The graduated response (backend/src/core/response/ResponseEngine.ts and *)
(* ResponseActions.ts with the tiers of backend/src/config/                *)
(* responseConfig.ts).  Each call of executeResponse is a process that     *)
(* yields at every await: after the block check, after the tier is chosen, *)
(* after each action and while the history is written to Redis.  Scores    *)
(* are in hundredths; a session stands for the key ip:sessionId.           *)
(***************************************************************************)
EXTENDS Null, Naturals, Sequences, FiniteSets, SequencesExt

CONSTANTS
  Calls, Sessions,
  Scores,                  \* risk scores the analyzers may yield
  EscalateAt, Recent,      \* recent responses that escalate, and how recent
  HistoryCap,
  RateRequests, RateWindow,  \* requests of each rate limiting tier, window
  BlockDuration,           \* duration of each blocking tier
  MaxTime, MaxResponses    \* bounds: of the clock, and of the responses given

Tiers == 1..5      \* monitor, warn, restrict, block, isolate
RateTiers == {2, 3}
BlockTiers == {4, 5}

ASSUME ResponseAssumption ==
  /\ Nil \notin Nat /\ Nil \notin Sessions /\ Scores \subseteq 0..100
  /\ EscalateAt \in Nat /\ Recent \in Nat /\ HistoryCap \in Nat \ {0}
  /\ RateWindow \in Nat \ {0} /\ MaxTime \in Nat /\ MaxResponses \in Nat
  /\ RateRequests \in [RateTiers -> Nat] /\ BlockDuration \in [BlockTiers -> Nat]

VARIABLES
  enabled,       \* config.enabled
  now,
  history,       \* session -> responseHistory: decision time and tier
  blocked,       \* one TemporaryBlockAction per blocking tier: session -> end
  rateStore,     \* one RateLimitAction per rate limiting tier: session -> entry
  metrics,       \* responsesByTier
  call,          \* the calls of executeResponse in progress, and the last results
  announced      \* history variable: the latest blockedUntil sent to a session

vars == <<enabled, now, history, blocked, rateStore, metrics, call, announced>>

-----------------------------------------------------------------------------

\* The tiers' ranges share their end points; the first match is taken.
Bounds == <<0, 30, 50, 70, 85, 100>>

TierOf(score) ==
  CHOOSE t \in Tiers : /\ Bounds[t] <= score /\ score <= Bounds[t + 1]
                       /\ \A u \in 1..(t - 1) : score > Bounds[u + 1]

A(type, severity) == [type |-> type, severity |-> severity]

\* The enabled actions of each tier, in the order of the configuration.
TierActions ==
  <<<<A("log_only", 1)>>,
    <<A("log_only", 1), A("rate_limit", 2)>>,
    <<A("log_only", 1), A("rate_limit", 2), A("alert_admin", 4)>>,
    <<A("log_only", 1), A("temporary_block", 8), A("alert_admin", 9)>>,
    <<A("log_only", 1), A("temporary_block", 10), A("alert_admin", 10)>>>>

\* A stable sort by severity.
SortedActions ==
  [t \in Tiers |->
     LET acts == TierActions[t]
         before(i, j) == \/ acts[i].severity < acts[j].severity
                         \/ acts[i].severity = acts[j].severity /\ i < j
         at == SetToSortSeq(DOMAIN acts, before)
     IN [i \in DOMAIN acts |-> acts[at[i]].type]]

IsBlockingAction(type) == type = "temporary_block"

NoCall == [pc |-> "idle", session |-> Nil, score |-> 0, tier |-> Nil, at |-> Nil,
           todo |-> <<>>, sent |-> Nil]

Init ==
  /\ enabled \in BOOLEAN
  /\ now = 0
  /\ history = [s \in Sessions |-> <<>>]
  /\ blocked = [t \in BlockTiers |-> [s \in Sessions |-> Nil]]
  /\ rateStore = [t \in RateTiers |-> [s \in Sessions |-> Nil]]
  /\ metrics = [t \in Tiers |-> 0]
  /\ call = [c \in Calls |-> NoCall]
  /\ announced = [s \in Sessions |-> Nil]

-----------------------------------------------------------------------------

Over(until) == until # Nil /\ now > until

DropOver(blocks) == [s \in Sessions |-> IF Over(blocks[s]) THEN Nil ELSE blocks[s]]

\* Mutant: only the last instance is asked.
IsBlockedByLast(s) == blocked[5][s] # Nil /\ ~Over(blocked[5][s])

\* isSessionBlocked: some instance holds a block that is not over.
IsSessionBlocked(s) == \E t \in BlockTiers : blocked[t][s] # Nil /\ ~Over(blocked[t][s])

\* isBlocked deletes the session's entry once it is over.
ForgetOver(s) == [t \in BlockTiers |->
                    [blocked[t] EXCEPT ![s] = IF Over(@) THEN Nil ELSE @]]

\* executeResponse returns; what it sent is known to the caller's response.
Return(c, status) == call' = [call EXCEPT ![c] = [NoCall EXCEPT !.pc = "done", !.sent = status]]

Responses ==
  MapThenSumSet(LAMBDA t : metrics[t], Tiers)
  + Cardinality({c \in Calls : call[c].pc \in {"select", "act", "count"}})

\* executeResponse up to the await of isSessionBlocked.  The loop over the
\* instances stops at the first block in force, so entries that are over may
\* be deleted from the instances before it only.
Enter(c, s, score) ==
  /\ call[c].pc \in {"idle", "done"} /\ Responses < MaxResponses
  /\ IF ~enabled THEN Return(c, Nil)
     ELSE call' = [call EXCEPT ![c] =
            [NoCall EXCEPT !.session = s, !.score = score,
                           !.pc = IF IsSessionBlocked(s) THEN "refuse" ELSE "select"]]
  /\ blocked' \in IF ~enabled THEN {blocked}
                  ELSE IF IsSessionBlocked(s) THEN {blocked, ForgetOver(s)}
                  ELSE {ForgetOver(s)}
  /\ UNCHANGED <<enabled, now, history, rateStore, metrics, announced>>

\* handleBlockedSession: 403, no history and no metrics.
HandleBlockedSession(c) ==
  /\ call[c].pc = "refuse"
  /\ Return(c, 403)
  /\ UNCHANGED <<enabled, now, history, blocked, rateStore, metrics, announced>>

\* Mutant: violations of any age count.
AllViolations(s) == Len(history[s])

RecentViolations(s) == Cardinality({i \in DOMAIN history[s] : now - history[s][i].at < Recent})

GetNextEscalationLevel(t) == IF t < 5 THEN t + 1 ELSE 5

ApplyEscalationLogic(t, s) ==
  IF RecentViolations(s) >= EscalateAt THEN GetNextEscalationLevel(t) ELSE t

\* selectResponseTier, up to its await.
SelectResponseTier(c) ==
  /\ call[c].pc = "select"
  /\ LET t == ApplyEscalationLogic(TierOf(call[c].score), call[c].session)
     IN call' = [call EXCEPT ![c].pc = "act", ![c].tier = t, ![c].at = now,
                             ![c].todo = SortedActions[t]]
  /\ UNCHANGED <<enabled, now, history, blocked, rateStore, metrics, announced>>

-----------------------------------------------------------------------------
(* executeResponseActions: one step per action. *)

\* The call after its next action; status is what the action sent, if anything.
Executed(c, status, goOn) ==
  call' = [call EXCEPT ![c] =
             [@ EXCEPT !.todo = IF goOn THEN Tail(@) ELSE <<>>,
                       !.sent = IF status = Nil THEN @ ELSE status]]

NextAction(c, type) == call[c].pc = "act" /\ call[c].todo # <<>> /\ Head(call[c].todo) = type

LogOnly(c) ==
  /\ NextAction(c, "log_only")
  /\ Executed(c, Nil, TRUE)
  /\ UNCHANGED <<enabled, now, history, blocked, rateStore, metrics, announced>>

AlertAdmin(c) ==
  /\ NextAction(c, "alert_admin")
  /\ Executed(c, Nil, TRUE)
  /\ UNCHANGED <<enabled, now, history, blocked, rateStore, metrics, announced>>

\* cleanupExpiredEntries(now - window)
CleanupExpiredEntries(store) ==
  [s \in Sessions |-> IF store[s] # Nil /\ store[s].resetTime + RateWindow < now
                      THEN Nil ELSE store[s]]

Entry(store, s) ==
  IF store[s] = Nil THEN [count |-> 0, resetTime |-> now + RateWindow] ELSE store[s]

\* A request over the limit is answered 429; the action still counts as a
\* success that blocks nothing, so later actions run.
RateLimit(c) ==
  /\ NextAction(c, "rate_limit")
  /\ LET t == call[c].tier
         s == call[c].session
         clean == CleanupExpiredEntries(rateStore[t])
         current == Entry(clean, s)
         over == current.count >= RateRequests[t]
     IN /\ rateStore' = [rateStore EXCEPT ![t] =
              IF over THEN clean ELSE [clean EXCEPT ![s] = [current EXCEPT !.count = @ + 1]]]
        /\ Executed(c, IF over THEN 429 ELSE Nil, TRUE)
  /\ UNCHANGED <<enabled, now, history, blocked, metrics, announced>>

\* The block is stored, blocks that are over are dropped, 403 is sent and the
\* loop over the actions ends.
TemporaryBlock(c) ==
  /\ NextAction(c, "temporary_block")
  /\ LET t == call[c].tier
         s == call[c].session
         until == now + BlockDuration[t]
     IN /\ blocked' = [blocked EXCEPT ![t] = DropOver([@ EXCEPT ![s] = until])]
        /\ announced' = [announced EXCEPT ![s] = IF @ = Nil \/ @ < until THEN until ELSE @]
  /\ Executed(c, 403, ~IsBlockingAction("temporary_block"))
  /\ UNCHANGED <<enabled, now, history, rateStore, metrics>>

-----------------------------------------------------------------------------

\* The last HistoryCap entries.
Capped(h) == IF Len(h) > HistoryCap THEN SubSeq(h, Len(h) - HistoryCap + 1, Len(h)) ELSE h

\* recordResponse up to the await of redisService.set, whose failure is logged
\* only; nothing reads the key back.
RecordResponse(c) ==
  /\ call[c].pc = "act" /\ call[c].todo = <<>>
  /\ LET s == call[c].session
         entry == [at |-> call[c].at, tier |-> call[c].tier]
     IN history' = [history EXCEPT ![s] = Capped(Append(@, entry))]
  /\ call' = [call EXCEPT ![c].pc = "count"]
  /\ UNCHANGED <<enabled, now, blocked, rateStore, metrics, announced>>

CountTier(c) == metrics' = [metrics EXCEPT ![call[c].tier] = @ + 1]

UpdateMetrics(c) ==
  /\ call[c].pc = "count"
  /\ CountTier(c)
  /\ Return(c, call[c].sent)
  /\ UNCHANGED <<enabled, now, history, blocked, rateStore, announced>>

UpdateConfiguration ==
  /\ enabled' = ~enabled
  /\ UNCHANGED <<now, history, blocked, rateStore, metrics, call, announced>>

Tick ==
  /\ now < MaxTime
  /\ now' = now + 1
  /\ UNCHANGED <<enabled, history, blocked, rateStore, metrics, call, announced>>

Step(c) ==
  \/ HandleBlockedSession(c)
  \/ SelectResponseTier(c)
  \/ LogOnly(c)
  \/ AlertAdmin(c)
  \/ RateLimit(c)
  \/ TemporaryBlock(c)
  \/ RecordResponse(c)
  \/ UpdateMetrics(c)

Next ==
  \/ \E c \in Calls : Step(c) \/ \E s \in Sessions, score \in Scores : Enter(c, s, score)
  \/ UpdateConfiguration
  \/ Tick

Spec == Init /\ [][Next]_vars

-----------------------------------------------------------------------------

\* A session that was told it is blocked until some time (ResponseActions.ts:188)
\* is refused by every call that starts up to that time, whichever tier blocked
\* it and whatever blocks of other sessions and tiers end in between.
AnnouncedBlocksHold ==
  [][\A c \in Calls :
       LET s == call'[c].session
       IN (call[c].pc \in {"idle", "done"} /\ call'[c].pc \in {"refuse", "select"})
            => (announced[s] # Nil /\ now <= announced[s] => call'[c].pc = "refuse")]_vars

\* A call answers above the tier of its score only if its session had enough
\* responses decided within the last Recent before its own decision
\* (applyEscalationLogic), however the calls interleave.
EscalationEarned ==
  \A c \in Calls :
    (call[c].tier # Nil /\ call[c].tier # TierOf(call[c].score))
      => LET h == history[call[c].session]
         IN Cardinality({i \in DOMAIN h : call[c].at < h[i].at + Recent}) >= EscalateAt
=============================================================================
