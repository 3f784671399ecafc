--------------------------- MODULE ServerLifecycle --------------------------
(***************************************************************************)
(* The backend process (backend/src/index.ts): it connects to MongoDB,     *)
(* Redis, Neo4j and Kafka one after the other, listens, and shuts down on  *)
(* SIGTERM or SIGINT; with the connection states of DatabaseService.ts,    *)
(* RedisService.ts, Neo4jService.ts and KafkaBus.ts.  DatabaseService      *)
(* handles SIGINT as well, and ends the process.                           *)
(***************************************************************************)
EXTENDS Null, Naturals

CONSTANTS MaxSignals, MaxClients, MaxOutages, MaxFeedback    \* bounds

ASSUME LifecycleAssumption ==
  MaxSignals \in Nat /\ MaxClients \in Nat /\ MaxOutages \in Nat /\ MaxFeedback \in Nat

VARIABLES
  environment,    \* NODE_ENV is 'development', SKIP_NEO4J_CONNECTION is 'true'
  startup,        \* what start() awaits, "listening" when it is through
  exit,           \* Nil or the exit code; 143 and 130 are kills by a signal
  mongo,          \* "none", "up" (isConnected), "lost" or "closed"
  redis, neo4j, kafka,     \* the services' isConnected
  redisOpen,      \* client.isOpen: not closed, and reconnecting if need be
  userStore,      \* chosen by initAuthRoutes
  accepting,      \* the HTTP server accepts connections
  clients,        \* its open connections
  shutdown,       \* calls of gracefulShutdown: what each awaits
  interrupt,      \* DatabaseService's SIGINT handler is awaiting disconnect
  dirtyState, saveTimer,          \* BanditPersistence
  received, outages, feedback,    \* bounds
  owed,           \* history: the state was dirty at the first signal, not saved since
  excused         \* history: why it may stay so

lifeVars == <<environment, startup, exit, mongo, redis, neo4j, kafka, redisOpen, userStore, accepting, clients, shutdown,
              interrupt, dirtyState, saveTimer, received, outages, feedback, owed, excused>>

ShutdownCalls == 1..MaxSignals

LifeInit ==
  /\ environment \in [development : BOOLEAN, skipNeo4j : BOOLEAN]
  /\ startup = "mongo" /\ exit = Nil
  /\ mongo = "none" /\ redis = FALSE /\ neo4j = FALSE /\ kafka = FALSE /\ redisOpen = FALSE
  /\ userStore = Nil /\ accepting = FALSE /\ clients = 0
  /\ shutdown = [c \in ShutdownCalls |-> "none"] /\ interrupt = FALSE
  /\ dirtyState = FALSE /\ saveTimer = FALSE
  /\ received = 0 /\ outages = 0 /\ feedback = 0
  /\ owed = FALSE /\ excused = {}

-----------------------------------------------------------------------------
(* start *)

\* A connection that fails ends the process, except in development.
StartOn(ok, next) ==
  IF ok \/ environment.development THEN startup' = next /\ UNCHANGED exit
  ELSE exit' = 1 /\ UNCHANGED startup

MongoAnswers(ok) ==
  /\ exit = Nil /\ startup = "mongo"
  /\ mongo' = IF ok THEN "up" ELSE "none"
  /\ userStore' = IF ok THEN "mongo" ELSE IF environment.development THEN "memory" ELSE Nil
  /\ StartOn(ok, "redis")
  /\ UNCHANGED <<redis, neo4j, kafka, redisOpen, accepting, clients, shutdown, interrupt, dirtyState, saveTimer,
                 received, outages, feedback, owed, excused>>

RedisAnswers(ok) ==
  /\ exit = Nil /\ startup = "redis"
  /\ redis' = ok /\ redisOpen' = ok
  /\ StartOn(ok, "neo4j")
  /\ UNCHANGED <<mongo, neo4j, kafka, userStore, accepting, clients, shutdown, interrupt, dirtyState, saveTimer,
                 received, outages, feedback, owed, excused>>

\* The driver, and createIndexes, whose errors are swallowed.
Neo4jAnswers(ok) ==
  /\ exit = Nil /\ startup = "neo4j"
  /\ neo4j' = (ok /\ ~environment.skipNeo4j)
  /\ StartOn(ok \/ environment.skipNeo4j, "kafka")
  /\ UNCHANGED <<mongo, redis, kafka, redisOpen, userStore, accepting, clients, shutdown, interrupt, dirtyState,
                 saveTimer, received, outages, feedback, owed, excused>>

\* initializeServices up to kafkaBus.connect, which never throws; then the
\* timers, listen and the signal handlers.
KafkaAnswers(ok) ==
  /\ exit = Nil /\ startup = "kafka"
  /\ kafka' = ok
  /\ saveTimer' = TRUE
  /\ startup' = "listening" /\ accepting' = TRUE
  /\ UNCHANGED <<exit, mongo, redis, neo4j, redisOpen, userStore, clients, shutdown, interrupt, dirtyState,
                 received, outages, feedback, owed, excused>>

-----------------------------------------------------------------------------
(* The events of the connections *)

MongoLost ==
  /\ exit = Nil /\ mongo = "up" /\ outages < MaxOutages /\ outages' = outages + 1
  /\ mongo' = "lost"
  /\ UNCHANGED <<startup, exit, redis, neo4j, kafka, redisOpen, userStore, accepting, clients, shutdown,
                 interrupt, dirtyState, saveTimer, received, feedback, owed, excused>>

MongoBack ==
  /\ exit = Nil /\ mongo = "lost"
  /\ mongo' = "up"
  /\ UNCHANGED <<startup, exit, redis, neo4j, kafka, redisOpen, userStore, accepting, clients, shutdown,
                 interrupt, dirtyState, saveTimer, received, outages, feedback, owed, excused>>

\* 'error', then 'reconnecting'; after too many retries the client is closed.
RedisLost(forGood) ==
  /\ exit = Nil /\ redis /\ outages < MaxOutages /\ outages' = outages + 1
  /\ redis' = FALSE /\ redisOpen' = ~forGood
  /\ UNCHANGED <<startup, exit, mongo, neo4j, kafka, userStore, accepting, clients, shutdown, interrupt,
                 dirtyState, saveTimer, received, feedback, owed, excused>>

RedisBack ==
  /\ exit = Nil /\ ~redis /\ redisOpen
  /\ redis' = TRUE
  /\ UNCHANGED <<startup, exit, mongo, neo4j, kafka, redisOpen, userStore, accepting, clients, shutdown,
                 interrupt, dirtyState, saveTimer, received, outages, feedback, owed, excused>>

-----------------------------------------------------------------------------
(* Requests *)

ClientConnects ==
  /\ exit = Nil /\ accepting /\ clients < MaxClients
  /\ clients' = clients + 1
  /\ UNCHANGED <<startup, exit, mongo, redis, neo4j, kafka, redisOpen, userStore, accepting, shutdown, interrupt,
                 dirtyState, saveTimer, received, outages, feedback, owed, excused>>

\* The last connection of a closing server lets close call back.
ClientLeaves ==
  /\ exit = Nil /\ clients > 0
  /\ clients' = clients - 1
  /\ exit' = IF clients = 1 /\ \E c \in ShutdownCalls : shutdown[c] = "closing" THEN 0 ELSE Nil
  /\ UNCHANGED <<startup, mongo, redis, neo4j, kafka, redisOpen, userStore, accepting, shutdown, interrupt,
                 dirtyState, saveTimer, received, outages, feedback, owed, excused>>

\* A feedback request on an open connection marks the bandit dirty.
GiveFeedback ==
  /\ exit = Nil /\ clients > 0 /\ feedback < MaxFeedback
  /\ feedback' = feedback + 1
  /\ dirtyState' = TRUE
  /\ UNCHANGED <<startup, exit, mongo, redis, neo4j, kafka, redisOpen, userStore, accepting, clients, shutdown,
                 interrupt, saveTimer, received, outages, owed, excused>>

\* save is synchronous; a write that fails leaves the mark.
SaveState(written) ==
  IF written THEN dirtyState' = FALSE /\ owed' = FALSE /\ UNCHANGED excused
             ELSE excused' = excused \cup {"write"} /\ UNCHANGED <<dirtyState, owed>>

TimedSave(written) ==
  /\ exit = Nil /\ saveTimer /\ dirtyState
  /\ SaveState(written)
  /\ UNCHANGED <<startup, exit, mongo, redis, neo4j, kafka, redisOpen, userStore, accepting, clients, shutdown,
                 interrupt, saveTimer, received, outages, feedback>>

-----------------------------------------------------------------------------
(* gracefulShutdown *)

\* The next disconnect that really waits; server.close otherwise.
Turn == [kafka |-> 1, mongo |-> 2, redis |-> 3, neo4j |-> 4]
Waits(from) == {s \in DOMAIN Turn : Turn[s] >= from /\
  CASE s = "kafka" -> kafka [] s = "mongo" -> mongo = "up" [] s = "redis" -> redisOpen [] s = "neo4j" -> neo4j}

\* Without connections close calls back, and so it does for a server that is
\* closed already.
DisconnectFrom(c, from) ==
  IF Waits(from) # {}
  THEN /\ shutdown' = [shutdown EXCEPT ![c] = CHOOSE s \in Waits(from) : \A o \in Waits(from) : Turn[s] <= Turn[o]]
       /\ UNCHANGED <<exit, accepting>>
  ELSE /\ shutdown' = [shutdown EXCEPT ![c] = "closing"]
       /\ accepting' = FALSE
       /\ exit' = IF clients = 0 \/ ~accepting THEN 0 ELSE Nil

\* Mutant: the timer is stopped and a dirty state is not saved.
StopWithoutSave(written) ==
  /\ written
  /\ saveTimer' = FALSE /\ owed' = (owed \/ (received = 0 /\ dirtyState))
  /\ UNCHANGED <<dirtyState, excused>>

\* adaptiveLearningService.stop and banditPersistence.shutdown, which do not wait.
StopAndSave(written) ==
  /\ saveTimer' = FALSE
  /\ IF dirtyState
     THEN IF written THEN dirtyState' = FALSE /\ owed' = FALSE /\ UNCHANGED excused
                     ELSE /\ owed' = (owed \/ received = 0)
                          /\ excused' = excused \cup {"write"} /\ UNCHANGED dirtyState
     ELSE written /\ UNCHANGED <<dirtyState, owed, excused>>

\* Before start() is through the signal kills the process.
Sigterm(written) ==
  /\ exit = Nil /\ received < MaxSignals
  /\ received' = received + 1
  /\ IF startup = "listening"
     THEN StopAndSave(written) /\ DisconnectFrom(received + 1, 1)
     ELSE /\ exit' = 143 /\ written
          /\ UNCHANGED <<accepting, shutdown, dirtyState, saveTimer, owed, excused>>
  /\ UNCHANGED <<startup, mongo, redis, neo4j, kafka, redisOpen, userStore, clients, interrupt, outages, feedback>>

\* DatabaseService's handler comes first: without MongoDB its exit runs before
\* gracefulShutdown is past its first await.
Sigint(written) ==
  /\ exit = Nil /\ received < MaxSignals
  /\ received' = received + 1
  /\ IF mongo = "up"
     THEN /\ interrupt' = TRUE
          /\ IF startup = "listening"
             THEN StopAndSave(written) /\ DisconnectFrom(received + 1, 1)
             ELSE written /\ UNCHANGED <<exit, accepting, shutdown, dirtyState, saveTimer, owed, excused>>
     ELSE /\ exit' = 0 /\ written
          /\ owed' = (owed \/ (received = 0 /\ dirtyState))
          /\ excused' = excused \cup {"interrupted without MongoDB"}
          /\ UNCHANGED <<accepting, shutdown, dirtyState, saveTimer, interrupt>>
  /\ UNCHANGED <<startup, mongo, redis, neo4j, kafka, redisOpen, userStore, clients, outages, feedback>>

\* One awaited disconnect has come back.  MongoDB's error ends the shutdown;
\* KafkaBus keeps its flag and the other errors are swallowed.
Disconnected(c, ok) ==
  /\ exit = Nil /\ shutdown[c] \in DOMAIN Turn
  /\ mongo' = IF shutdown[c] = "mongo" /\ ok THEN "closed" ELSE mongo
  /\ redis' = (redis /\ shutdown[c] # "redis")
  /\ redisOpen' = (redisOpen /\ shutdown[c] # "redis")
  /\ neo4j' = (neo4j /\ ~(shutdown[c] = "neo4j" /\ ok))
  /\ IF shutdown[c] = "mongo" /\ ~ok
     THEN exit' = 1 /\ UNCHANGED <<shutdown, accepting>>
     ELSE DisconnectFrom(c, Turn[shutdown[c]] + 1)
  /\ UNCHANGED <<startup, kafka, userStore, clients, interrupt, dirtyState, saveTimer, received, outages,
                 feedback, owed, excused>>

\* The SIGINT handler of DatabaseService goes on to process.exit; an error is a
\* rejection nobody handles.
InterruptEnds(ok) ==
  /\ exit = Nil /\ interrupt
  /\ interrupt' = FALSE
  /\ mongo' = IF ok THEN "closed" ELSE mongo
  /\ exit' = IF ok THEN 0 ELSE 1
  /\ UNCHANGED <<startup, redis, neo4j, kafka, redisOpen, userStore, accepting, clients, shutdown, dirtyState,
                 saveTimer, received, outages, feedback, owed, excused>>

LifeNext ==
  /\ UNCHANGED environment
  /\ \/ \E ok \in BOOLEAN :
          \/ MongoAnswers(ok) \/ RedisAnswers(ok) \/ Neo4jAnswers(ok) \/ KafkaAnswers(ok)
          \/ RedisLost(ok) \/ TimedSave(ok) \/ Sigterm(ok) \/ Sigint(ok) \/ InterruptEnds(ok)
          \/ \E c \in ShutdownCalls : Disconnected(c, ok)
     \/ MongoLost \/ MongoBack \/ RedisBack \/ ClientConnects \/ ClientLeaves \/ GiveFeedback

LifeSpec == LifeInit /\ [][LifeNext]_lifeVars

-----------------------------------------------------------------------------

\* gracefulShutdown persists the bandit before it waits for anything: a process
\* that exits with 0 has saved the feedback it held at the first signal, however
\* signals, lost connections and lingering clients interleave, unless the write
\* failed or SIGINT came while MongoDB was not connected.
ExitSaves == (exit = 0 /\ owed) => excused # {}
=============================================================================
