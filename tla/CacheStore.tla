----------------------------- MODULE CacheStore -----------------------------
(***************************************************************************)
(* The in-memory cache of src/storage/cache.rs: entries with a time to     *)
(* live, eviction at max_size by one of four policies, and statistics.     *)
(* Three RwLocks guard it.  Operations that change it take data and then   *)
(* stats for writing (and access_order inside, which needs no lock of its  *)
(* own here); get_stats takes stats and then data for reading.             *)
(***************************************************************************)
EXTENDS Null, Naturals, FiniteSets, SequencesExt

CONSTANTS
  Threads, Keys,
  MaxSize,        \* max_size
  Ttls,           \* the ttl arguments, Nil for none
  Policies,       \* the eviction policies a cache is configured with
  EnableStats,
  MaxTime, MaxOps

ASSUME CacheAssumption ==
  /\ MaxSize \in Nat \ {0} /\ MaxTime \in Nat /\ MaxOps \in Nat
  /\ Policies \subseteq {"LRU", "LFU", "TTL", "Random"} /\ EnableStats \in BOOLEAN

VARIABLES
  config,        \* config.eviction_policy
  data,          \* key -> entry, or Nil
  access_order,
  stats,
  recent,        \* the cached keys by last use: what access_order stands for
  now, ops,
  thread         \* what each thread is doing and which lock it waits for

cacheVars == <<config, data, access_order, stats, recent, now, ops, thread>>

Held == {k \in Keys : data[k] # Nil}
Idle == [op |-> "none", key |-> Nil, pc |-> "idle"]

CacheInit ==
  /\ config \in Policies
  /\ data = [k \in Keys |-> Nil] /\ access_order = <<>> /\ recent = <<>>
  /\ stats = [hits |-> 0, misses |-> 0, total_requests |-> 0]
  /\ now = 0 /\ ops = 0
  /\ thread = [t \in Threads |-> Idle]

-----------------------------------------------------------------------------

\* Expired once the time to live has passed, not at it.
Expired(e) == e.ttl # Nil /\ now - e.created_at > e.ttl

\* update_access_order
Touched(k) == Append(Remove(access_order, k), k)

LastUsed(s, k) == Append(Remove(s, k), k)

Count(hit) ==
  stats' = [stats EXCEPT !.total_requests = @ + 1,
                         !.hits = IF hit /\ EnableStats THEN @ + 1 ELSE @,
                         !.misses = IF ~hit /\ EnableStats THEN @ + 1 ELSE @]

\* A miss on an expired entry is counted whether or not statistics are on.
CountExpired == stats' = [stats EXCEPT !.total_requests = @ + 1, !.misses = @ + 1]

Get(k) ==
  \/ /\ data[k] = Nil /\ Count(FALSE)
     /\ UNCHANGED <<data, access_order, recent>>
  \/ /\ data[k] # Nil /\ Expired(data[k])
     /\ data' = [data EXCEPT ![k] = Nil] /\ CountExpired
     /\ recent' = Remove(recent, k)
     /\ UNCHANGED access_order
  \/ /\ data[k] # Nil /\ ~Expired(data[k])
     /\ data' = [data EXCEPT ![k].access_count = @ + 1] /\ Count(TRUE)
     /\ access_order' = IF config = "LRU" THEN Touched(k) ELSE access_order
     /\ recent' = LastUsed(recent, k)

\* Mutant: any entry is evicted.
AnyVictim == IF config = "LRU" THEN {access_order[1]} ELSE Held

\* The keys evict_entry may remove: the front of access_order, cached or not;
\* among equals the HashMap's iteration order decides.
Victims ==
  CASE config = "LRU" -> IF access_order = <<>> THEN {} ELSE {Head(access_order)}
    [] config = "LFU" ->
         {k \in Held : \A j \in Held : data[k].access_count <= data[j].access_count}
    [] config = "TTL" ->
         {k \in Held : \A j \in Held : data[k].created_at <= data[j].created_at}
    [] config = "Random" -> Held

NeedsRoom(k) == Cardinality(Held) >= MaxSize /\ k \notin Held

Insert(k, ttl) ==
  /\ \E v \in (IF NeedsRoom(k) /\ Victims # {} THEN Victims ELSE {Nil}) :
       /\ data' = [j \in Keys |->
                     IF j = k THEN [created_at |-> now, access_count |-> 1, ttl |-> ttl]
                     ELSE IF j = v THEN Nil ELSE data[j]]
       /\ access_order' = IF config # "LRU" THEN access_order
                          ELSE Append(Remove(IF v = Nil THEN access_order ELSE Tail(access_order), k), k)
       /\ recent' = LastUsed(Remove(recent, v), k)
  /\ UNCHANGED stats

\* The key stays in access_order.
RemoveKey(k) ==
  /\ data' = [data EXCEPT ![k] = Nil]
  /\ recent' = Remove(recent, k)
  /\ UNCHANGED <<access_order, stats>>

Clear ==
  /\ data' = [k \in Keys |-> Nil] /\ recent' = <<>>
  /\ UNCHANGED <<access_order, stats>>

CleanupExpired ==
  /\ data' = [k \in Keys |-> IF data[k] # Nil /\ Expired(data[k]) THEN Nil ELSE data[k]]
  /\ recent' = SelectSeq(recent, LAMBDA k : data'[k] # Nil)
  /\ UNCHANGED <<access_order, stats>>

-----------------------------------------------------------------------------
(* Threads and locks.                                                      *)

\* The threads that hold the lock on data, and the lock on stats, between the
\* two acquisitions of their operation.
DataHolders == {t \in Threads : thread[t].pc = "hasData"}
StatsHolders == {t \in Threads : thread[t].pc = "hasStats"}

\* The first lock of an operation.
Begin(t, op, k) ==
  /\ thread[t].pc = "idle" /\ ops < MaxOps
  /\ ops' = ops + 1
  /\ op # "get_stats" => DataHolders = {}
  /\ thread' = [thread EXCEPT ![t] =
       [op |-> op, key |-> k, pc |-> IF op = "get_stats" THEN "hasStats" ELSE "hasData"]]
  /\ UNCHANGED <<config, data, access_order, stats, recent, now>>

\* The second lock of a writing operation, its effect, and both released.
Perform(t) ==
  /\ thread[t].pc = "hasData" /\ StatsHolders = {}
  /\ \/ thread[t].op = "get" /\ Get(thread[t].key)
     \/ thread[t].op = "insert" /\ \E ttl \in Ttls : Insert(thread[t].key, ttl)
     \/ thread[t].op = "remove" /\ RemoveKey(thread[t].key)
     \/ thread[t].op = "clear" /\ Clear
     \/ thread[t].op = "cleanup" /\ CleanupExpired
  /\ thread' = [thread EXCEPT ![t] = Idle]
  /\ UNCHANGED <<config, now, ops>>

\* get_stats has read the counters and reads data.len().
GetStats(t) ==
  /\ thread[t].pc = "hasStats" /\ DataHolders = {}
  /\ thread' = [thread EXCEPT ![t] = Idle]
  /\ UNCHANGED <<config, data, access_order, stats, recent, now, ops>>

Tick ==
  /\ now < MaxTime /\ now' = now + 1
  /\ UNCHANGED <<config, data, access_order, stats, recent, ops, thread>>

CacheNext ==
  \/ \E t \in Threads :
       \/ \E op \in {"get", "insert", "remove"}, k \in Keys : Begin(t, op, k)
       \/ \E op \in {"clear", "cleanup", "get_stats"} : Begin(t, op, Nil)
       \/ Perform(t) \/ GetStats(t)
  \/ Tick

\* A thread that can take its lock does.
CacheFairness == \A t \in Threads : WF_cacheVars(Perform(t) \/ GetStats(t))

CacheSpec == CacheInit /\ [][CacheNext]_cacheVars /\ CacheFairness

-----------------------------------------------------------------------------

\* An insertion that drops an entry drops one no other entry was used less
\* recently than (LRU, whatever stale keys access_order holds), less often than
\* (LFU) or is older than (TTL), and drops no second one.
VictimEarned ==
  [][LET gone == {k \in Held : data'[k] = Nil}
         came == {k \in Keys \ Held : data'[k] # Nil}
     IN came # {} =>
          /\ Cardinality(gone) <= 1
          /\ \A v \in gone, k \in Held :
               /\ config = "LRU" => v = Head(recent)
               /\ config = "LFU" => data[v].access_count <= data[k].access_count
               /\ config = "TTL" => data[v].created_at <= data[k].created_at]_cacheVars

\* cache.rs:331, "pub trait CacheInterface: Send + Sync": the cache is called
\* from several threads, and every call returns.
CallsReturn == \A t \in Threads : thread[t].pc # "idle" ~> thread[t].pc = "idle"
=============================================================================
