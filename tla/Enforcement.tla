---------------------------- MODULE Enforcement ----------------------------
(***************************************************************************)
(* RateLimitEnforcementService                                             *)
(* (backend/src/services/RateLimitEnforcementService.ts) in one or more    *)
(* server processes that share a Redis.  The verdict of the rate limiter   *)
(* is a free choice.  The middleware suspends while the limiter decides    *)
(* and while a block is written to Redis, so blocks are placed, renewed    *)
(* and lifted while other requests are past the block check.               *)
(***************************************************************************)
EXTENDS Null, Naturals, FiniteSets

CONSTANTS
  Requests, Nodes, IPs,
  Identifiers,    \* IP -> the identifiers keyGenerator yields for its requests
  ShortAt, LongAt,            \* violations that block for Short, for Long
  Short, Long, Manual,        \* block durations; Manual: calls of blockIP
  MaxTime, MaxRestarts, MaxDenials   \* bounds; MaxDenials for each identifier

AllIds == UNION {Identifiers[ip] : ip \in IPs}

ASSUME EnforcementAssumption ==
  /\ ShortAt \in Nat \ {0} /\ LongAt \in Nat /\ ShortAt <= LongAt
  /\ Short \in Nat \ {0} /\ Long \in Nat /\ Short <= Long
  /\ Manual \subseteq Nat /\ MaxDenials \in Nat /\ MaxTime \in Nat /\ MaxRestarts \in Nat
  /\ Nil \notin Nat

VARIABLES
  now,
  violationCount,   \* per process: identifier -> denials
  blockedIPs,       \* per process: the set of blocked addresses
  blockedExpiry,    \* per process: address -> end of its block, or Nil
  byHand,           \* history: per process, the blocks placed by a call of blockIP
  redisBlock,       \* blocked_ip:<address> -> end of the block, or Nil
  req,              \* requests in progress: where, process, address, identifier
  restarts

enforcementVars == <<now, violationCount, blockedIPs, blockedExpiry, byHand, redisBlock, req, restarts>>

-----------------------------------------------------------------------------

NoRequest == [pc |-> "idle", node |-> Nil, ip |-> Nil, id |-> Nil]

EnforcementInit ==
  /\ now = 0 /\ restarts = 0
  /\ violationCount = [n \in Nodes |-> [i \in AllIds |-> 0]]
  /\ blockedIPs = [n \in Nodes |-> {}]
  /\ blockedExpiry = [n \in Nodes |-> [ip \in IPs |-> Nil]]
  /\ byHand = [n \in Nodes |-> {}]
  /\ redisBlock = [ip \in IPs |-> Nil]
  /\ req = [r \in Requests |-> NoRequest]

\* Mutant: seconds are compared with milliseconds, so that no end has passed yet.
BlockOverUnits(n, ip) == blockedExpiry[n][ip] # Nil /\ now > 1000 * blockedExpiry[n][ip] + 1000

\* isIPBlocked: a block whose end has passed does not count and is removed.
BlockOver(n, ip) == blockedExpiry[n][ip] # Nil /\ now > blockedExpiry[n][ip]

IsIPBlocked(n, ip) == ip \in blockedIPs[n] /\ ~BlockOver(n, ip)

ForgetBlocks(n, ips) ==
  /\ blockedIPs' = [blockedIPs EXCEPT ![n] = @ \ ips]
  /\ byHand' = [byHand EXCEPT ![n] = @ \ ips]
  /\ blockedExpiry' = [blockedExpiry EXCEPT ![n] =
                         [ip \in IPs |-> IF ip \in ips THEN Nil ELSE @[ip]]]

\* blockIP up to its await: any earlier end of the block is overwritten.  hand
\* is {ip} in a call from outside and empty in an escalation.
BlockIP(n, ip, duration, hand) ==
  /\ blockedIPs' = [blockedIPs EXCEPT ![n] = @ \cup {ip}]
  /\ blockedExpiry' = [blockedExpiry EXCEPT ![n][ip] = now + duration]
  /\ byHand' = [byHand EXCEPT ![n] = (@ \ {ip}) \cup hand]
  /\ redisBlock' = [redisBlock EXCEPT ![ip] = now + duration]
  /\ now + duration < MaxTime    \* every block ends within the clock's bound

-----------------------------------------------------------------------------

Enter(r, n, ip, id) ==
  /\ req[r].pc = "idle"
  /\ req' = [req EXCEPT ![r] = [pc |-> "checking", node |-> n, ip |-> ip, id |-> id]]
  /\ UNCHANGED <<now, violationCount, redisBlock, restarts>>

Leave(r) == req' = [req EXCEPT ![r] = NoRequest]

\* createMiddleware: a request of a blocked address is refused and changes
\* nothing; any other goes on to the limiter.
Arrive(r, n, ip, id) ==
  /\ ~IsIPBlocked(n, ip)
  /\ Enter(r, n, ip, id)
  /\ IF ip \in blockedIPs[n] THEN ForgetBlocks(n, {ip})
     ELSE UNCHANGED <<blockedIPs, blockedExpiry, byHand>>

\* enforceRateLimit: no look at the blocks.
ArriveEnforce(r, n, ip, id) ==
  /\ Enter(r, n, ip, id)
  /\ UNCHANGED <<blockedIPs, blockedExpiry, byHand>>

\* The limiter allows the request, or fails open: next().
Allowed(r) ==
  /\ req[r].pc = "checking"
  /\ Leave(r)
  /\ UNCHANGED <<now, violationCount, blockedIPs, blockedExpiry, byHand, redisBlock, restarts>>

\* Mutant: the long block is given at its count only.
EscalateOnExactCount(n, ip, violations) ==
  CASE violations = LongAt -> BlockIP(n, ip, Long, {})
    [] violations >= ShortAt /\ violations # LongAt -> BlockIP(n, ip, Short, {})
    [] OTHER -> UNCHANGED <<blockedIPs, blockedExpiry, byHand, redisBlock>>

\* handleRateLimitViolation counts the denial, and escalates.
Escalate(n, ip, violations) ==
  CASE violations >= LongAt  -> BlockIP(n, ip, Long, {})
    [] violations \in ShortAt..(LongAt - 1) -> BlockIP(n, ip, Short, {})
    [] OTHER -> UNCHANGED <<blockedIPs, blockedExpiry, byHand, redisBlock>>

CountViolation(n, id) ==
  violationCount' = [violationCount EXCEPT ![n][id] = @ + 1]

Denied(r) ==
  LET n == req[r].node
  IN /\ req[r].pc = "checking" /\ violationCount[n][req[r].id] < MaxDenials
     /\ CountViolation(n, req[r].id)
     /\ Escalate(n, req[r].ip, violationCount[n][req[r].id] + 1)
     /\ req' = [req EXCEPT ![r].pc = "blocking"]
     /\ UNCHANGED <<now, restarts>>

\* The write to Redis is over: onLimitReached answers 429.
Rejected(r) ==
  /\ req[r].pc = "blocking"
  /\ Leave(r)
  /\ UNCHANGED <<now, violationCount, blockedIPs, blockedExpiry, byHand, redisBlock, restarts>>

-----------------------------------------------------------------------------

ManualBlock(n, ip, duration) ==
  /\ BlockIP(n, ip, duration, {ip})
  /\ UNCHANGED <<now, violationCount, req, restarts>>

UnblockIP(n, ip) ==
  /\ ip \in blockedIPs[n] \/ redisBlock[ip] # Nil
  /\ ForgetBlocks(n, {ip})
  /\ redisBlock' = [redisBlock EXCEPT ![ip] = Nil]
  /\ UNCHANGED <<now, violationCount, req, restarts>>

CleanupExpiredBlocks(n) ==
  LET over == {ip \in IPs : BlockOver(n, ip)}
  IN /\ over # {}
     /\ ForgetBlocks(n, over)
     /\ UNCHANGED <<now, violationCount, redisBlock, req, restarts>>

\* Mutant: the blocks survive in memory.
ClearCountsOnly(n) ==
  /\ restarts < MaxRestarts
  /\ restarts' = restarts + 1
  /\ violationCount' = [violationCount EXCEPT ![n] = [i \in AllIds |-> 0]]
  /\ UNCHANGED <<now, redisBlock, blockedIPs, blockedExpiry, byHand>>

\* destroy(), or a restart of the process, which also ends its requests.
ClearMemory(n) ==
  /\ restarts < MaxRestarts
  /\ restarts' = restarts + 1
  /\ violationCount' = [violationCount EXCEPT ![n] = [i \in AllIds |-> 0]]
  /\ ForgetBlocks(n, IPs)
  /\ UNCHANGED <<now, redisBlock>>

Destroy(n) == ClearMemory(n) /\ UNCHANGED req

Restart(n) ==
  /\ ClearMemory(n)
  /\ req' = [r \in Requests |-> IF req[r].node = n THEN NoRequest ELSE req[r]]

\* Time passes; Redis drops the keys whose TTL is over.
Tick ==
  /\ now < MaxTime
  /\ now' = now + 1
  /\ redisBlock' = [ip \in IPs |-> IF redisBlock[ip] # Nil /\ redisBlock[ip] <= now + 1
                                   THEN Nil ELSE redisBlock[ip]]
  /\ UNCHANGED <<violationCount, blockedIPs, blockedExpiry, byHand, req, restarts>>

EnforcementNext ==
  \/ \E r \in Requests, n \in Nodes, ip \in IPs : \E id \in Identifiers[ip] :
       Arrive(r, n, ip, id) \/ ArriveEnforce(r, n, ip, id)
  \/ \E r \in Requests : Allowed(r) \/ Denied(r) \/ Rejected(r)
  \/ \E n \in Nodes, ip \in IPs : UnblockIP(n, ip)
                                  \/ \E d \in Manual : ManualBlock(n, ip, d)
  \/ \E n \in Nodes : CleanupExpiredBlocks(n) \/ Destroy(n) \/ Restart(n)
  \/ Tick

\* The clock moves and the cleanup interval, which is never cleared, fires.
EnforcementFairness == WF_enforcementVars(Tick) /\ \A n \in Nodes : WF_enforcementVars(CleanupExpiredBlocks(n))

EnforcementSpec == EnforcementInit /\ [][EnforcementNext]_enforcementVars /\ EnforcementFairness

-----------------------------------------------------------------------------
(* Properties.                                                              *)

\* handleRateLimitViolation, isIPBlocked, cleanupExpiredBlocks and destroy: the
\* service itself keeps an address blocked only while the process remembers an
\* identifier of it that earned the block, and beyond the short duration only
\* for one that earned the long one.
BlocksEarned ==
  \A n \in Nodes, ip \in IPs :
    ip \in blockedIPs[n] \ byHand[n] =>
      /\ blockedExpiry[n][ip] # Nil
      /\ \E id \in Identifiers[ip] :
           violationCount[n][id] >= IF blockedExpiry[n][ip] > now + Short
                                    THEN LongAt ELSE ShortAt

\* handleRateLimitViolation: an escalation of the identifier with the most
\* denials of an address never ends the block of an earlier escalation before
\* the end already announced to the client as blockedUntil.
EscalationNeverShortens ==
  [][\A n \in Nodes, ip \in IPs : \A id \in Identifiers[ip] :
       /\ violationCount'[n][id] > violationCount[n][id]
       /\ \A other \in Identifiers[ip] : violationCount[n][other] <= violationCount'[n][id]
       /\ IsIPBlocked(n, ip) /\ ip \notin byHand[n]
       => IsIPBlocked(n, ip)' /\ blockedExpiry'[n][ip] >= blockedExpiry[n][ip]]_enforcementVars

\* cleanupExpiredBlocks and isIPBlocked: every block ends.
BlocksEnd ==
  \A n \in Nodes, ip \in IPs : ip \in blockedIPs[n] ~> ip \notin blockedIPs[n]
=============================================================================
