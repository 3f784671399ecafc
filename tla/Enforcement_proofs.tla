------------------------- MODULE Enforcement_proofs -------------------------
(* No address is blocked without a remembered identifier that earned it, for *)
(* any number of processes, addresses, identifiers and requests.             *)
EXTENDS Enforcement, TLAPS

USE EnforcementAssumption

InFlightReq ==
  [pc : {"checking", "blocking"},
   node : Nodes, ip : IPs, id : AllIds]

IInv ==
  /\ now \in Nat
  /\ violationCount \in [Nodes -> [AllIds -> Nat]]
  /\ blockedIPs \in [Nodes -> SUBSET IPs]
  /\ blockedExpiry \in [Nodes -> [IPs -> Nat \cup {Nil}]]
  /\ byHand \in [Nodes -> SUBSET IPs]
  /\ req \in [Requests -> {NoRequest} \cup InFlightReq]
  /\ \A r \in Requests : req[r] # NoRequest => req[r].id \in Identifiers[req[r].ip]
  /\ \A n \in Nodes, ip \in IPs : ip \in blockedIPs[n] => blockedExpiry[n][ip] \in Nat
  /\ BlocksEarned

\* The part of IInv about blocks, and the part about requests.
Blocks ==
  /\ now \in Nat
  /\ violationCount \in [Nodes -> [AllIds -> Nat]]
  /\ blockedIPs \in [Nodes -> SUBSET IPs]
  /\ blockedExpiry \in [Nodes -> [IPs -> Nat \cup {Nil}]]
  /\ byHand \in [Nodes -> SUBSET IPs]
  /\ \A n \in Nodes, ip \in IPs : ip \in blockedIPs[n] => blockedExpiry[n][ip] \in Nat
  /\ BlocksEarned

Reqs ==
  /\ req \in [Requests -> {NoRequest} \cup InFlightReq]
  /\ \A r \in Requests : req[r] # NoRequest => req[r].id \in Identifiers[req[r].ip]

\* The service starts with no denial counted and no address blocked.
LEMMA InitIInv == EnforcementInit => IInv
  BY DEF EnforcementInit, IInv, BlocksEarned

\* Forgetting blocks leaves the others as they are.
LEMMA ForgetKeepsBlocks ==
  ASSUME Blocks, NEW n \in Nodes, NEW ips, ForgetBlocks(n, ips),
         UNCHANGED <<now, violationCount>>
  PROVE  Blocks'
<1> USE DEF Blocks
<1>1. blockedIPs' \in [Nodes -> SUBSET IPs]
  BY DEF ForgetBlocks
<1>2. /\ blockedExpiry' \in [Nodes -> [IPs -> Nat \cup {Nil}]]
      /\ byHand' \in [Nodes -> SUBSET IPs]
  BY DEF ForgetBlocks
<1>3. ASSUME NEW m \in Nodes, NEW ip \in IPs, ip \in blockedIPs'[m]
      PROVE  /\ ip \in blockedIPs[m] /\ blockedExpiry'[m][ip] = blockedExpiry[m][ip]
             /\ ip \in byHand[m] => ip \in byHand'[m]
  BY <1>3 DEF ForgetBlocks
<1>4. \A m \in Nodes, ip \in IPs : ip \in blockedIPs'[m] => blockedExpiry'[m][ip] \in Nat
  BY <1>3
<1>5. BlocksEarned'
  BY <1>3 DEF BlocksEarned
<1> QED  BY <1>1, <1>2, <1>4, <1>5

\* A counted denial that escalates leaves only earned blocks.
LEMMA DenialKeepsBlocks ==
  ASSUME Blocks, NEW n \in Nodes, NEW ip \in IPs, NEW id \in Identifiers[ip],
         CountViolation(n, id), Escalate(n, ip, violationCount[n][id] + 1),
         UNCHANGED now
  PROVE  Blocks'
<1> USE DEF Blocks
<1> DEFINE v == violationCount[n][id] + 1
<1>a. id \in AllIds
  BY DEF AllIds
<1>0. id \in AllIds /\ v \in Nat
  BY <1>a, SMT
<1>1. /\ violationCount' \in [Nodes -> [AllIds -> Nat]]
      /\ violationCount'[n][id] = v
      /\ \A m \in Nodes, i \in AllIds : violationCount'[m][i] >= violationCount[m][i]
  BY <1>0 DEF CountViolation
<1>2. ASSUME NEW d \in Nat, BlockIP(n, ip, d, {}),
             v >= IF d > Short THEN LongAt ELSE ShortAt
      PROVE  Blocks'
  <2>1. /\ blockedIPs' \in [Nodes -> SUBSET IPs]
        /\ blockedExpiry' \in [Nodes -> [IPs -> Nat \cup {Nil}]]
        /\ byHand' \in [Nodes -> SUBSET IPs]
        /\ blockedExpiry'[n][ip] = now + d /\ now + d \in Nat
    BY <1>2 DEF BlockIP
  <2>2. ASSUME NEW m \in Nodes, NEW a \in IPs, a \in blockedIPs'[m], <<m, a>> # <<n, ip>>
        PROVE  /\ a \in blockedIPs[m] /\ blockedExpiry'[m][a] = blockedExpiry[m][a]
               /\ a \in byHand[m] => a \in byHand'[m]
    BY <1>2, <2>2 DEF BlockIP
  <2>3. \A m \in Nodes, a \in IPs : a \in blockedIPs'[m] => blockedExpiry'[m][a] \in Nat
    BY <2>1, <2>2, ZenonT(60)
  <2>4. ASSUME NEW m \in Nodes, NEW a \in IPs, a \in blockedIPs'[m], a \notin byHand'[m]
        PROVE  \E i \in Identifiers[a] :
                 violationCount'[m][i] >= IF blockedExpiry'[m][a] > now' + Short
                                          THEN LongAt ELSE ShortAt
    <3>1. CASE <<m, a>> = <<n, ip>>
      <4>1. (now + d > now + Short) <=> (d > Short)
        BY SMT
      <4> QED  BY <1>1, <1>2, <2>1, <3>1, <4>1
    <3>2. CASE <<m, a>> # <<n, ip>>
      <4>0. a \in blockedIPs[m] /\ a \notin byHand[m]
        BY <2>2, <2>4, <3>2
      <4>1. PICK i \in Identifiers[a] :
              violationCount[m][i] >= IF blockedExpiry[m][a] > now + Short
                                      THEN LongAt ELSE ShortAt
        BY <4>0 DEF BlocksEarned
      <4>2. i \in AllIds /\ violationCount'[m][i] >= violationCount[m][i]
        BY <1>1 DEF AllIds
      <4>3. violationCount[m][i] \in Nat /\ violationCount'[m][i] \in Nat
        BY <1>1, <4>2
      <4>4. blockedExpiry'[m][a] = blockedExpiry[m][a]
        BY <2>2, <2>4, <3>2
      <4> QED  BY <4>1, <4>2, <4>3, <4>4, SMT
    <3> QED  BY <3>1, <3>2
  <2>5. BlocksEarned'
    BY <2>3, <2>4 DEF BlocksEarned
  <2> QED  BY <1>1, <2>1, <2>3, <2>5
<1>3. CASE v >= LongAt
  <2>1. BlockIP(n, ip, Long, {})
    BY <1>0, <1>3 DEF Escalate
  <2>2. v >= IF Long > Short THEN LongAt ELSE ShortAt
    BY <1>0, <1>3, SMT
  <2> QED  BY <1>2, <2>1, <2>2
<1>4. CASE v \in ShortAt..(LongAt - 1)
  <2>1. BlockIP(n, ip, Short, {})
    BY <1>0, <1>4 DEF Escalate
  <2>2. v >= IF Short > Short THEN LongAt ELSE ShortAt
    BY <1>0, <1>4, SMT
  <2> QED  BY <1>2, <2>1, <2>2
<1>5. CASE ~(v >= LongAt) /\ v \notin ShortAt..(LongAt - 1)
  <2>1. UNCHANGED <<blockedIPs, blockedExpiry, byHand>>
    BY <1>0, <1>5 DEF Escalate
  <2>2. ASSUME NEW m \in Nodes, NEW a \in IPs, a \in blockedIPs[m], a \notin byHand[m]
        PROVE  \E i \in Identifiers[a] :
                 violationCount'[m][i] >= IF blockedExpiry[m][a] > now + Short
                                          THEN LongAt ELSE ShortAt
    <3>1. PICK i \in Identifiers[a] :
            violationCount[m][i] >= IF blockedExpiry[m][a] > now + Short
                                    THEN LongAt ELSE ShortAt
      BY <2>2 DEF BlocksEarned
    <3>2. i \in AllIds /\ violationCount'[m][i] >= violationCount[m][i]
      BY <1>1 DEF AllIds
    <3>3. violationCount[m][i] \in Nat /\ violationCount'[m][i] \in Nat
      BY <1>1, <3>2
    <3> QED  BY <3>1, <3>2, <3>3, SMT
  <2>3. BlocksEarned'
    BY <2>1, <2>2, SMTT(60) DEF BlocksEarned
  <2> QED  BY <1>1, <2>1, <2>3
<1> QED  BY <1>3, <1>4, <1>5

\* A call of blockIP from outside leaves the other blocks as they are.
LEMMA ManualKeepsBlocks ==
  ASSUME Blocks, NEW n \in Nodes, NEW ip \in IPs, NEW d \in Nat, BlockIP(n, ip, d, {ip}),
         UNCHANGED <<now, violationCount>>
  PROVE  Blocks'
<1> USE DEF Blocks
<1>1. /\ blockedIPs' \in [Nodes -> SUBSET IPs]
      /\ blockedExpiry' \in [Nodes -> [IPs -> Nat \cup {Nil}]]
      /\ byHand' \in [Nodes -> SUBSET IPs]
      /\ blockedExpiry'[n][ip] = now + d /\ now + d \in Nat /\ ip \in byHand'[n]
  BY DEF BlockIP
<1>2. ASSUME NEW m \in Nodes, NEW a \in IPs, a \in blockedIPs'[m], <<m, a>> # <<n, ip>>
      PROVE  /\ a \in blockedIPs[m] /\ blockedExpiry'[m][a] = blockedExpiry[m][a]
             /\ a \in byHand[m] => a \in byHand'[m]
  BY <1>2 DEF BlockIP
<1>3. \A m \in Nodes, a \in IPs : a \in blockedIPs'[m] => blockedExpiry'[m][a] \in Nat
  BY <1>1, <1>2, SMTT(60)
<1>4. ASSUME NEW m \in Nodes, NEW a \in IPs, a \in blockedIPs'[m] \ byHand'[m]
      PROVE  /\ a \in blockedIPs[m] \ byHand[m]
             /\ blockedExpiry'[m][a] = blockedExpiry[m][a]
  <2>1. <<m, a>> # <<n, ip>>
    BY <1>1, <1>4
  <2> QED  BY <1>2, <1>4, <2>1
<1>5. BlocksEarned'
  BY <1>4, SMTT(60) DEF BlocksEarned
<1> QED  BY <1>1, <1>3, <1>5

\* Steps that leave the blocks, the counts and the clock alone.
LEMMA BlocksUnchanged ==
  ASSUME Blocks, UNCHANGED <<now, violationCount, blockedIPs, blockedExpiry, byHand>>
  PROVE  Blocks'
  BY DEF Blocks, BlocksEarned

\* A request enters with one of the identifiers of its address.
LEMMA EnterKeepsReqs ==
  ASSUME Reqs, NEW r \in Requests, NEW n \in Nodes, NEW ip \in IPs,
         NEW id \in Identifiers[ip], Enter(r, n, ip, id)
  PROVE  Reqs'
<1> DEFINE q == [pc |-> "checking", node |-> n, ip |-> ip, id |-> id]
<1>1. q \in InFlightReq
  BY DEF InFlightReq, AllIds
<1>2. req' = [req EXCEPT ![r] = q]
  BY DEF Enter
<1> QED  BY <1>1, <1>2 DEF Reqs

\* A request that leaves leaves the others as they are.
LEMMA LeaveKeepsReqs ==
  ASSUME Reqs, NEW r \in Requests, Leave(r)
  PROVE  Reqs'
  BY DEF Reqs, Leave

\* A request that was denied keeps what it is about.
LEMMA MoveKeepsReqs ==
  ASSUME Reqs, NEW r \in Requests, req[r].pc = "checking",
         req' = [req EXCEPT ![r].pc = "blocking"]
  PROVE  Reqs'
<1>1. req[r] \in InFlightReq /\ req[r] # NoRequest
  BY DEF Reqs, NoRequest
<1>2. [req[r] EXCEPT !.pc = "blocking"] \in InFlightReq
  BY <1>1 DEF InFlightReq
<1>3. /\ [req[r] EXCEPT !.pc = "blocking"].id = req[r].id
      /\ [req[r] EXCEPT !.pc = "blocking"].ip = req[r].ip
  BY <1>1 DEF InFlightReq
<1>4. req' = [req EXCEPT ![r] = [req[r] EXCEPT !.pc = "blocking"]]
  BY DEF Reqs
<1> QED  BY <1>1, <1>2, <1>3, <1>4 DEF Reqs

\* Every step keeps the inductive invariant.
LEMMA NextIInv == IInv /\ [EnforcementNext]_enforcementVars => IInv'
<1> SUFFICES ASSUME Blocks, Reqs, [EnforcementNext]_enforcementVars PROVE Blocks' /\ Reqs'
  BY DEF IInv, Blocks, Reqs
<1>1. ASSUME NEW r \in Requests, NEW n \in Nodes, NEW ip \in IPs,
             NEW id \in Identifiers[ip], Arrive(r, n, ip, id) \/ ArriveEnforce(r, n, ip, id)
      PROVE  Blocks' /\ Reqs'
  <2>1. Enter(r, n, ip, id)
    BY <1>1 DEF Arrive, ArriveEnforce
  <2>2. Reqs'
    BY <2>1, EnterKeepsReqs
  <2>3. UNCHANGED <<now, violationCount>>
    BY <2>1 DEF Enter
  <2>4. ForgetBlocks(n, {ip}) \/ UNCHANGED <<blockedIPs, blockedExpiry, byHand>>
    BY <1>1 DEF Arrive, ArriveEnforce
  <2> QED  BY <2>2, <2>3, <2>4, ForgetKeepsBlocks, BlocksUnchanged
<1>2. ASSUME NEW r \in Requests, Allowed(r) \/ Rejected(r) PROVE Blocks' /\ Reqs'
  <2>1. Blocks'
    BY <1>2, BlocksUnchanged DEF Allowed, Rejected
  <2> QED  BY <1>2, <2>1, LeaveKeepsReqs DEF Allowed, Rejected
<1>3. ASSUME NEW r \in Requests, Denied(r) PROVE Blocks' /\ Reqs'
  <2>1. Reqs'
    BY <1>3, MoveKeepsReqs, ZenonT(60) DEF Denied
  <2>2. req[r] \in InFlightReq /\ req[r].id \in Identifiers[req[r].ip]
    BY <1>3 DEF Denied, Reqs, NoRequest
  <2>3. req[r].node \in Nodes /\ req[r].ip \in IPs
    BY <2>2 DEF InFlightReq
  <2>4. Blocks'
    BY <1>3, <2>2, <2>3, DenialKeepsBlocks DEF Denied
  <2> QED  BY <2>1, <2>4
<1>4. ASSUME NEW n \in Nodes, NEW ip \in IPs, UnblockIP(n, ip) PROVE Blocks' /\ Reqs'
  BY <1>4, ForgetKeepsBlocks DEF UnblockIP, Reqs
<1>5. ASSUME NEW n \in Nodes, CleanupExpiredBlocks(n) PROVE Blocks' /\ Reqs'
  BY <1>5, ForgetKeepsBlocks DEF CleanupExpiredBlocks, Reqs
<1>6. ASSUME NEW n \in Nodes, ClearMemory(n) PROVE Blocks'
  <2>1. violationCount' \in [Nodes -> [AllIds -> Nat]]
    BY <1>6 DEF ClearMemory, Blocks
  <2>2. /\ blockedIPs' \in [Nodes -> SUBSET IPs]
        /\ blockedExpiry' \in [Nodes -> [IPs -> Nat \cup {Nil}]]
        /\ byHand' \in [Nodes -> SUBSET IPs]
    BY <1>6 DEF ClearMemory, ForgetBlocks, Blocks
  <2>3. ASSUME NEW m \in Nodes, NEW ip \in IPs, ip \in blockedIPs'[m]
        PROVE  /\ m # n /\ ip \in blockedIPs[m]
               /\ blockedExpiry'[m][ip] = blockedExpiry[m][ip]
               /\ violationCount'[m] = violationCount[m] /\ byHand'[m] = byHand[m]
    BY <1>6, <2>3 DEF ClearMemory, ForgetBlocks, Blocks
  <2>4. now' = now
    BY <1>6 DEF ClearMemory
  <2>5. \A m \in Nodes, ip \in IPs : ip \in blockedIPs'[m] => blockedExpiry'[m][ip] \in Nat
    BY <2>3 DEF Blocks
  <2>6. ASSUME NEW m \in Nodes, NEW ip \in IPs, ip \in blockedIPs'[m] \ byHand'[m]
        PROVE  /\ blockedExpiry'[m][ip] # Nil
               /\ \E id \in Identifiers[ip] :
                    violationCount'[m][id] >= IF blockedExpiry'[m][ip] > now' + Short
                                              THEN LongAt ELSE ShortAt
    <3>1. /\ ip \in blockedIPs[m] /\ blockedExpiry'[m][ip] = blockedExpiry[m][ip]
          /\ violationCount'[m] = violationCount[m] /\ ip \notin byHand[m]
      BY <2>3, <2>6
    <3> QED  BY <2>4, <3>1 DEF Blocks, BlocksEarned
  <2>7. BlocksEarned'
    BY <2>6 DEF BlocksEarned
  <2> QED  BY <2>1, <2>2, <2>4, <2>5, <2>7 DEF Blocks
<1>7. ASSUME NEW n \in Nodes, Destroy(n) PROVE Blocks' /\ Reqs'
  BY <1>6, <1>7 DEF Destroy, Reqs
<1>8. ASSUME NEW n \in Nodes, Restart(n) PROVE Blocks' /\ Reqs'
  <2>1. Reqs'
    BY <1>8 DEF Restart, Reqs
  <2> QED  BY <1>6, <1>8, <2>1 DEF Restart
<1>9. CASE Tick
  <2>1. UNCHANGED <<violationCount, blockedIPs, blockedExpiry, byHand, req>> /\ now' = now + 1
    BY <1>9 DEF Tick
  <2>2. ASSUME NEW n \in Nodes, NEW ip \in IPs, ip \in blockedIPs[n] \ byHand[n]
        PROVE  \E id \in Identifiers[ip] :
                 violationCount[n][id] >= IF blockedExpiry[n][ip] > now' + Short
                                          THEN LongAt ELSE ShortAt
    <3>1. PICK id \in Identifiers[ip] :
            violationCount[n][id] >= IF blockedExpiry[n][ip] > now + Short
                                     THEN LongAt ELSE ShortAt
      BY <2>2 DEF Blocks, BlocksEarned
    <3>2. blockedExpiry[n][ip] \in Nat /\ now \in Nat
      BY <2>2 DEF Blocks
    <3>a. id \in AllIds
      BY DEF AllIds
    <3>3. violationCount[n][id] \in Nat
      BY <3>a DEF Blocks
    <3> QED  BY <2>1, <3>1, <3>2, <3>3, SMT
  <2>3. BlocksEarned'
    BY <2>1, <2>2 DEF BlocksEarned, Blocks
  <2>4. now' \in Nat
    BY <2>1 DEF Blocks
  <2> QED  BY <2>1, <2>3, <2>4 DEF Blocks, Reqs
<1>10. CASE UNCHANGED enforcementVars
  BY <1>10, BlocksUnchanged DEF enforcementVars, Reqs
<1>11. ASSUME NEW n \in Nodes, NEW ip \in IPs, NEW d \in Manual, ManualBlock(n, ip, d)
       PROVE  Blocks' /\ Reqs'
  <2>1. d \in Nat
    OBVIOUS
  <2> QED  BY <1>11, <2>1, ManualKeepsBlocks DEF ManualBlock, Reqs
<1> QED
  BY <1>1, <1>2, <1>3, <1>4, <1>5, <1>7, <1>8, <1>9, <1>10, <1>11 DEF EnforcementNext

\* RateLimitEnforcementService blocks no address on its own account without an
\* identifier whose denials earned a block of that length.
THEOREM OnlyEarnedBlocks == EnforcementSpec => []BlocksEarned
<1>1. IInv /\ [EnforcementNext]_enforcementVars => IInv'
  BY NextIInv
<1>2. IInv => BlocksEarned
  BY DEF IInv
<1> QED  BY InitIInv, <1>1, <1>2, PTL DEF EnforcementSpec
=============================================================================
