----------------------------- MODULE ThreatGraph -----------------------------
(***************************************************************************)
(* The threat graph: Neo4jIntegration.persistRequest, which writes what is *)
(* known of a request to Neo4j one query after the other, the repositories *)
(* it writes through, and UserReputationService, which reads a user back   *)
(* and caches the answer.  The middleware starts both for a request in one *)
(* turn and waits for neither.                                             *)
(*                                                                         *)
(* A repository catches every error, so a query that fails, before or      *)
(* after it took effect, is followed by the next one.  The middleware      *)
(* passes neither a user nor a fingerprint today; both are optional in     *)
(* GraphableRequest and are modelled.  Nothing writes failedLogins, so the *)
(* reputation's sum of them is zero.  Scores are in percent, reputations   *)
(* in thousandths; at these values the floating point sums fall on the     *)
(* same side of every threshold as the exact ones.                         *)
(***************************************************************************)
EXTENDS Integers, Sequences, FiniteSets

CONSTANTS
  Arrivals,       \* requests
  Forms,          \* what they may carry: [user, ip, device, path, score]
  NoOne,          \* no user, or no device
  CacheTTL,       \* instants a cached reputation holds (30 s)
  Week, Quarter,  \* instants (7 and 90 days)
  ManySessions,   \* sessions above which a user is established (ten)
  MaxMoment, MaxFaults   \* bounds; faults are lost queries and connections

VARIABLES
  arrival,        \* form of each request, with the moment it arrived; NoOne before
  steps,          \* persistRequest: queries left, the first one is in flight
  threatId,       \* id of the request's threat once it is made
  nodes, edges,   \* the graph: nodes are <<label, key>>
  person,         \* properties of the User nodes: [risk, seen], NoOne if absent
  recorded,       \* ghost: the requests whose user was written
  counter,        \* requestCounter
  connected,      \* Neo4jService.isConnected()
  clean,          \* ghost: no query of the request failed or was left out
  inquiry,        \* getReputation of each request
  repCache,       \* cache: key -> [score, from, expiresAt]
  moment, faults

graphVars == <<arrival, steps, threatId, nodes, edges, person, recorded, counter, connected,
               clean, inquiry, repCache, moment, faults>>

People == {f.user : f \in Forms} \ {NoOne}
Threat(c) == <<"Threat", threatId[c]>>
SessionOf(c) == <<"Session", c>>
UserOf(f) == <<"User", f.user>>
IPOf(f) == <<"IP", f.ip>>
DeviceOf(f) == <<"Device", f.device>>
ResourceOf(f) == <<"Resource", f.path>>

-----------------------------------------------------------------------------
(* Neo4jIntegration                                                        *)

When(condition, queries) == IF condition THEN queries ELSE <<>>

\* Mutant: the session is linked before it is created.
PersistRequestLinksFirst(f) ==
  LET known == f.user # NoOne IN
  <<"ip", "resource">> \o When(f.device # NoOne, <<"device">>)
    \o When(known, <<"user", "used", "session", "accessed">>)
    \o When(known /\ f.device # NoOne, <<"device session">>)
    \o <<"connected">>
    \o When(f.score >= 50, <<"threat", "attacked ip">>)
    \o When(f.score >= 50 /\ known, <<"attacked user">>)

\* The queries of persistRequest in their order, each awaited.
PersistRequest(f) ==
  LET known == f.user # NoOne IN
  <<"ip", "resource">> \o When(f.device # NoOne, <<"device">>)
    \o When(known, <<"user", "session", "used", "accessed">>)
    \o When(known /\ f.device # NoOne, <<"device session">>)
    \o <<"connected">>
    \o When(f.score >= 50, <<"threat", "attacked ip">>)
    \o When(f.score >= 50 /\ known, <<"attacked user">>)

\* The id is made when the threat is, of a counter that later requests advance.
NextQuery(c, rest) ==
  /\ steps' = [steps EXCEPT ![c] = IF connected THEN rest ELSE <<>>]
  /\ threatId' = IF connected /\ rest # <<>> /\ rest[1] = "threat"
                   THEN [threatId EXCEPT ![c] = <<counter, moment>>] ELSE threatId

-----------------------------------------------------------------------------
(* The repositories: MERGE adds a node or an edge that is not there; a link *)
(* MATCHes both of its ends first and does nothing without them.            *)

Merge(node) == nodes' = nodes \cup {node} /\ UNCHANGED <<edges, person, recorded>>

Link(from, type, to) ==
  /\ edges' = IF {from, to} \subseteq nodes THEN edges \cup {<<from, type, to>>} ELSE edges
  /\ UNCHANGED <<nodes, person, recorded>>

CreateOrUpdateUser(f) ==
  /\ nodes' = nodes \cup {UserOf(f)}
  /\ person' = [person EXCEPT ![f.user] = [risk |-> f.score, seen |-> f.at]]
  /\ recorded' = recorded \cup {f}
  /\ UNCHANGED edges

CreateOrUpdateIP(f) == Merge(IPOf(f))
CreateOrUpdateResource(f) == Merge(ResourceOf(f))
CreateOrUpdateDevice(f) == Merge(DeviceOf(f))
CreateSession(c) == Merge(SessionOf(c))
CreateThreat(c) == Merge(Threat(c))
LinkSession(c, f) == Link(UserOf(f), "USED", SessionOf(c))
LinkResource(c, f) == Link(SessionOf(c), "ACCESSED", ResourceOf(f))
LinkDeviceSession(c, f) == Link(DeviceOf(f), "CONNECTED_TO", SessionOf(c))
LinkIP(c, f) == Link(SessionOf(c), "CONNECTED_TO", IPOf(f))
LinkThreatIP(c, f) == Link(Threat(c), "ATTACKED", IPOf(f))
LinkThreatUser(c, f) == Link(Threat(c), "ATTACKED", UserOf(f))

Write(c, f, query) ==
  CASE query = "ip" -> CreateOrUpdateIP(f)
    [] query = "resource" -> CreateOrUpdateResource(f)
    [] query = "device" -> CreateOrUpdateDevice(f)
    [] query = "user" -> CreateOrUpdateUser(f)
    [] query = "session" -> CreateSession(c)
    [] query = "used" -> LinkSession(c, f)
    [] query = "accessed" -> LinkResource(c, f)
    [] query = "device session" -> LinkDeviceSession(c, f)
    [] query = "connected" -> LinkIP(c, f)
    [] query = "threat" -> CreateThreat(c)
    [] query = "attacked ip" -> LinkThreatIP(c, f)
    [] query = "attacked user" -> LinkThreatUser(c, f)

\* createIndexes makes the ids of threats unique: CREATE of an id that is there
\* is refused.
IdTaken(c, query) == query = "threat" /\ Threat(c) \in nodes

-----------------------------------------------------------------------------
(* UserReputationService                                                   *)

\* Mutant: a user that was not read counts as seen just now.
DaysBonusUnlessOld(record, t) ==
  CASE record = NoOne \/ (record # NoOne /\ t - record.seen < Week) -> 100
    [] record # NoOne /\ t - record.seen > Quarter -> -100
    [] OTHER -> 0

\* Without a record daysSinceLastSeen is 999.
DaysBonus(record, t) ==
  CASE record # NoOne /\ t - record.seen < Week -> 100
    [] record = NoOne \/ (record # NoOne /\ t - record.seen > Quarter) -> -100
    [] OTHER -> 0

Clamp(v) == IF v < 0 THEN 0 ELSE IF v > 1000 THEN 1000 ELSE v

CalculateScore(record, t) ==
  Clamp(700 - (IF record = NoOne THEN 0 ELSE 3 * record.risk)
            + (IF record # NoOne /\ record.sessions > ManySessions THEN 100 ELSE 0)
            + DaysBonus(record, t))

GetTier(score) ==
  IF score > 700 THEN "trusted" ELSE IF score > 400 THEN "unknown" ELSE "suspicious"

UpdateThreatBucket(score) ==
  IF score <= 30 THEN "low" ELSE IF score <= 70 THEN "medium" ELSE "high"

CacheKey(f) == IF f.user # NoOne THEN f.user ELSE f.ip

Fresh(key) == key \in DOMAIN repCache /\ repCache[key].expiresAt > moment

\* The context decideAndExecute goes on with.
ContextFor(f, entry) ==
  [stage |-> "done", tier |-> GetTier(entry.score), bucket |-> UpdateThreatBucket(f.score),
   since |-> entry.since, at |-> moment]

\* computeReputation's end and the cache.set after it.
Computed(record) ==
  [score |-> CalculateScore(record, moment), since |-> moment, expiresAt |-> moment + CacheTTL]

Remember(key, entry) ==
  repCache' = [k \in DOMAIN repCache \cup {key} |-> IF k = key THEN entry ELSE repCache[k]]

\* The part of getReputation before its first await.  Without a user, or when
\* Neo4j is not connected, nothing is awaited that is not settled already.
GetReputation(c, f) ==
  \/ /\ Fresh(CacheKey(f))
     /\ inquiry' = [inquiry EXCEPT ![c] = ContextFor(f, repCache[CacheKey(f)])]
     /\ UNCHANGED repCache
  \/ /\ ~Fresh(CacheKey(f))
     /\ f.user # NoOne /\ connected
     /\ inquiry' = [inquiry EXCEPT ![c] = [stage |-> "asked"]]
     /\ UNCHANGED repCache
  \/ /\ ~Fresh(CacheKey(f))
     /\ f.user = NoOne \/ ~connected
     /\ inquiry' = [inquiry EXCEPT ![c] = ContextFor(f, Computed(NoOne))]
     /\ Remember(CacheKey(f), Computed(NoOne))

\* What the read finds of the user, NoOne if there is none.
Record(u) ==
  IF person[u] = NoOne THEN NoOne
  ELSE [risk |-> person[u].risk, seen |-> person[u].seen,
        sessions |-> Cardinality({e \in edges : e[1] = <<"User", u>> /\ e[2] = "USED"})]

-----------------------------------------------------------------------------

GraphInit ==
  /\ arrival = [c \in Arrivals |-> NoOne]
  /\ steps = [c \in Arrivals |-> <<>>]
  /\ threatId = [c \in Arrivals |-> NoOne]
  /\ nodes = {} /\ edges = {} /\ person = [u \in People |-> NoOne] /\ recorded = {}
  /\ counter = 0 /\ connected = TRUE
  /\ clean = [c \in Arrivals |-> FALSE]
  /\ inquiry = [c \in Arrivals |-> [stage |-> "none"]]
  /\ repCache = [k \in {} |-> NoOne]
  /\ moment = 0 /\ faults = 0

\* The middleware: the reputation is asked for, then persistRequest starts.
Arrive(c, form) ==
  LET f == [user |-> form.user, ip |-> form.ip, device |-> form.device, path |-> form.path,
            score |-> form.score, at |-> moment]
  IN
  /\ arrival[c] = NoOne
  /\ arrival' = [arrival EXCEPT ![c] = f]
  /\ GetReputation(c, f)
  /\ counter' = IF connected THEN counter + 1 ELSE counter
  /\ steps' = [steps EXCEPT ![c] = IF connected THEN PersistRequest(f) ELSE <<>>]
  /\ clean' = [clean EXCEPT ![c] = connected]
  /\ UNCHANGED <<threatId, nodes, edges, person, recorded, connected, moment, faults>>

\* The query in flight takes effect and its answer lets the next one go.
QueryRuns(c) ==
  /\ steps[c] # <<>>
  /\ ~IdTaken(c, steps[c][1])
  /\ Write(c, arrival[c], steps[c][1])
  /\ NextQuery(c, Tail(steps[c]))
  /\ clean' = [clean EXCEPT ![c] = @ /\ (connected \/ Len(steps[c]) = 1)]
  /\ UNCHANGED <<arrival, counter, connected, inquiry, repCache, moment, faults>>

\* The query is refused or lost, or only its answer is.
QueryFails(c) ==
  /\ steps[c] # <<>>
  /\ \/ /\ IdTaken(c, steps[c][1])
        /\ UNCHANGED <<nodes, edges, person, recorded, faults>>
     \/ /\ faults < MaxFaults
        /\ faults' = faults + 1
        /\ \/ UNCHANGED <<nodes, edges, person, recorded>>
           \/ ~IdTaken(c, steps[c][1]) /\ Write(c, arrival[c], steps[c][1])
  /\ NextQuery(c, Tail(steps[c]))
  /\ clean' = [clean EXCEPT ![c] = FALSE]
  /\ UNCHANGED <<arrival, counter, connected, inquiry, repCache, moment>>

ReadRuns(c) ==
  /\ inquiry[c].stage = "asked"
  /\ inquiry' = [inquiry EXCEPT ![c] = [stage |-> "read", record |-> Record(arrival[c].user)]]
  /\ UNCHANGED <<arrival, steps, threatId, nodes, edges, person, recorded, counter, connected,
                 clean, repCache, moment, faults>>

\* computeReputation catches the error and goes on with the default features.
ReadFails(c) ==
  /\ inquiry[c].stage = "asked"
  /\ faults < MaxFaults
  /\ faults' = faults + 1
  /\ inquiry' = [inquiry EXCEPT ![c] = [stage |-> "read", record |-> NoOne]]
  /\ UNCHANGED <<arrival, steps, threatId, nodes, edges, person, recorded, counter, connected,
                 clean, repCache, moment>>

\* The read's answer arrives: it is scored, cached and used.
ReadAnswered(c) ==
  /\ inquiry[c].stage = "read"
  /\ LET entry == Computed(inquiry[c].record) IN
       /\ Remember(CacheKey(arrival[c]), entry)
       /\ inquiry' = [inquiry EXCEPT ![c] = ContextFor(arrival[c], entry)]
  /\ UNCHANGED <<arrival, steps, threatId, nodes, edges, person, recorded, counter, connected,
                 clean, moment, faults>>

\* A health check that fails, or disconnect; nothing connects again.
LoseConnection ==
  /\ connected
  /\ faults < MaxFaults
  /\ faults' = faults + 1
  /\ connected' = FALSE
  /\ UNCHANGED <<arrival, steps, threatId, nodes, edges, person, recorded, counter, clean,
                 inquiry, repCache, moment>>

GraphTick ==
  /\ moment < MaxMoment
  /\ moment' = moment + 1
  /\ UNCHANGED <<arrival, steps, threatId, nodes, edges, person, recorded, counter, connected,
                 clean, inquiry, repCache, faults>>

GraphNext ==
  \/ \E c \in Arrivals, f \in Forms : Arrive(c, f)
  \/ \E c \in Arrivals : QueryRuns(c) \/ QueryFails(c)
  \/ \E c \in Arrivals : ReadRuns(c) \/ ReadFails(c) \/ ReadAnswered(c)
  \/ LoseConnection \/ GraphTick

GraphSpec == GraphInit /\ [][GraphNext]_graphVars

-----------------------------------------------------------------------------
(* Properties                                                              *)

SessionEdges(c, f) ==
  {<<UserOf(f), "USED", SessionOf(c)>>, <<SessionOf(c), "ACCESSED", ResourceOf(f)>>,
   <<SessionOf(c), "CONNECTED_TO", IPOf(f)>>}

ThreatEdges(c, f) ==
  {<<Threat(c), "ATTACKED", IPOf(f)>>}
    \cup (IF f.user # NoOne THEN {<<Threat(c), "ATTACKED", UserOf(f)>>} ELSE {})

\* persistRequest and the repositories' MATCH ... MERGE: a request none of whose
\* queries failed or was left out has its whole part of the graph there when it
\* ends, whatever other requests write or lose meanwhile.  (Without a user no
\* session is made, and the session's link to the address finds nothing.)
GraphComplete ==
  \A c \in Arrivals : clean[c] /\ steps[c] = <<>> =>
    LET f == arrival[c] IN
    /\ {IPOf(f), ResourceOf(f)} \subseteq nodes
    /\ f.user # NoOne => SessionEdges(c, f) \subseteq edges
    /\ f.user # NoOne /\ f.device # NoOne => <<DeviceOf(f), "CONNECTED_TO", SessionOf(c)>> \in edges
    /\ f.score >= 50 => ThreatEdges(c, f) \subseteq edges

\* calculateScore with getReputation's cache: nobody is trusted by default.  A
\* trusted answer was computed less than cacheTTL ago, and rests on a request of
\* that user that was recorded with a score below 67; a failed read, an unknown
\* user, a lost connection or a late answer never makes anyone trusted.
TrustEarned ==
  \A c \in Arrivals :
    inquiry[c].stage = "done" /\ inquiry[c].tier = "trusted" =>
      /\ inquiry[c].at - inquiry[c].since < CacheTTL
      /\ \E r \in recorded : r.user = arrival[c].user /\ r.score < 67
=============================================================================
