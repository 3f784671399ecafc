--------------------------- MODULE FrequencySketch ---------------------------
(***************************************************************************)
(* Frequency tracking with Count-Min sketches: CountMinSketch,             *)
(* FrequencyAnalyzer (one sketch per kind of item, minute windows, copies  *)
(* in Redis) and SketchManager (start, periodic tasks, shutdown).          *)
(*                                                                         *)
(* MurmurHash3 is the constant Hash: any function from a seed, a row and   *)
(* an item to a cell.  A sketch carries a ghost field `seen`, the true     *)
(* count of every item since the sketch was made or cleared.  A request    *)
(* awaits only promises that are already settled, so processRequest is one *)
(* step; persisting and loading await Redis once per sketch.               *)
(***************************************************************************)
EXTENDS Integers, Sequences, FiniteSets, FiniteSetsExt

CONSTANTS
  Names,        \* the sketches, in the order of FrequencyAnalyzer's map
  Items,        \* tracked values
  Rows, Cells,  \* depth and width
  Seeds,        \* what Math.random may give for hashSeed
  Hash,         \* Hash[seed][row][item] is a cell
  Jobs,         \* persist calls that may overlap, besides shutdown's own
  Span,         \* minutes of windows that are kept (sixty in the code)
  Ttl,          \* minutes a stored copy lives (sixty in the code)
  Unhealthy,    \* do the configured dimensions exceed maxMemoryUsage?
  MaxInserts, MaxTime, MaxUpdates, MaxRestarts     \* bounds, the first per sketch

ASSUME NamesAssumption == Len(Names) \in Nat \ {0}

ASSUME HashAssumption ==
  /\ Rows # {}
  /\ Hash \in [Seeds -> [Rows -> [Items -> Cells]]]

VARIABLES
  sketch,       \* sketches: name -> live sketch
  stored,       \* Redis frequency_sketch:<name>: copy and minute, if present
  windows,      \* timeWindows: name -> set of entries, if present
  status,       \* "new", "loading", "up", "stopping", "down"
  loading,      \* position of loadFromRedis in Names, 0 when not loading
  job,          \* position of each persist call in Names, 0 when there is none
  live,         \* running intervals of each kind
  now, restarts

sketchVars == <<sketch, stored, windows, status, loading, job, live, now, restarts>>

Kinds == {"persistence", "cleanup", "metrics"}
Stop == "stop"
SketchNames == {Names[k] : k \in 1..Len(Names)}
LastStage == Len(Names) + 1
Empty == [n \in {} |-> 0]
With(f, n, v) == [m \in DOMAIN f \cup {n} |-> IF m = n THEN v ELSE f[m]]

-----------------------------------------------------------------------------
(* CountMinSketch                                                          *)

Zero == [i \in Rows |-> [c \in Cells |-> 0]]

New(seed) ==
  [seed |-> seed, matrix |-> Zero, inserts |-> 0, seen |-> [x \in Items |-> 0]]

Cell(s, i, x) == Hash[s.seed][i][x]

Insert(s, x) ==
  [s EXCEPT !.matrix = [i \in Rows |-> [c \in Cells |->
                          s.matrix[i][c] + IF c = Cell(s, i, x) THEN 1 ELSE 0]],
            !.inserts = @ + 1, !.seen = [s.seen EXCEPT ![x] = @ + 1]]

Counters(s, x) == {s.matrix[i][Cell(s, i, x)] : i \in Rows}

Query(s, x) == CHOOSE v \in Counters(s, x) : \A w \in Counters(s, x) : v <= w

Cleared(s) ==
  [s EXCEPT !.matrix = Zero, !.inserts = 0, !.seen = [x \in Items |-> 0]]

\* merge, which compares the dimensions and not the seeds.  No step merges.
Merged(s, t) ==
  [s EXCEPT !.matrix = [i \in Rows |-> [c \in Cells |-> s.matrix[i][c] + t.matrix[i][c]]],
            !.inserts = @ + t.inserts,
            !.seen = [x \in Items |-> s.seen[x] + t.seen[x]]]

\* Mutant: the restored matrix is used with this process's hash functions.
DeserializeOwnSeed(s, t) == [t EXCEPT !.seed = s.seed]

\* deserialize builds a sketch from the stored configuration, seed included.
Deserialize(s, t) == t

-----------------------------------------------------------------------------
(* FrequencyAnalyzer                                                       *)

\* Find or create the entry of this minute, then drop the old ones.
UpdatedWindow(ws, x, f) ==
  {w \in {v \in ws : v.item # x \/ v.start # now}
           \cup {[item |-> x, start |-> now, frequency |-> f]} : w.start > now - Span}

TrackItem(fields, x) ==
  LET s == [n \in SketchNames |-> IF n \in fields THEN Insert(sketch[n], x) ELSE sketch[n]]
      f == [n \in fields |-> Query(s[n], x)] IN
  /\ sketch' = s
  /\ windows' = [n \in DOMAIN windows |->
                   IF n \in fields THEN UpdatedWindow(windows[n], x, f[n]) ELSE windows[n]]

\* timeWindows.clear() removes the lists themselves.
ClearAll ==
  /\ sketch' = [n \in SketchNames |-> Cleared(sketch[n])]
  /\ windows' = Empty

-----------------------------------------------------------------------------
(* SketchManager                                                           *)

Idle == [j \in Jobs \cup {Stop} |-> 0]
NoInterval == [k \in Kinds |-> 0]
NoWindow == [n \in SketchNames |-> {}]
Analyzer(seed) == [n \in SketchNames |-> New(seed)]

SketchInit ==
  /\ \E seed \in Seeds : sketch = Analyzer(seed)
  /\ stored = Empty
  /\ windows = NoWindow
  /\ status = "new" /\ loading = 0 /\ job = Idle /\ live = NoInterval
  /\ now = 0 /\ restarts = 0

Initialize ==
  /\ status = "new"
  /\ status' = "loading"
  /\ loading' = 1
  /\ UNCHANGED <<sketch, stored, windows, job, live, now, restarts>>

\* One get of loadFromRedis; a copy that is not there and a get that fails are
\* both null and passed over.
LoadOne ==
  /\ status = "loading" /\ loading < LastStage
  /\ loading' = loading + 1
  /\ LET n == Names[loading] IN
       \/ /\ n \in DOMAIN stored
          /\ sketch' = [sketch EXCEPT ![n] = Deserialize(@, stored[n].copy)]
       \/ UNCHANGED sketch
  /\ UNCHANGED <<stored, windows, status, job, live, now, restarts>>

StartPeriodicTasks(l) == [k \in Kinds |-> l[k] + 1]

Started ==
  /\ status = "loading" /\ loading = LastStage
  /\ status' = "up"
  /\ loading' = 0
  /\ live' = StartPeriodicTasks(live)
  /\ UNCHANGED <<sketch, stored, windows, job, now, restarts>>

\* isInitialized stays true until the final persistence has ended.
ProcessRequest(fields, x) ==
  /\ status \in {"up", "stopping"}
  /\ \A n \in fields : sketch[n].inserts < MaxInserts[n]
  /\ TrackItem(fields, x)
  /\ UNCHANGED <<stored, status, loading, job, live, now, restarts>>

\* One serialize and set of persistToRedis; a failed set is passed over.
Save(j, k) ==
  /\ job' = [job EXCEPT ![j] = k + 1]
  /\ \/ stored' = With(stored, Names[k], [copy |-> sketch[Names[k]], at |-> now])
     \/ UNCHANGED stored
  /\ UNCHANGED <<sketch, windows, loading, now, restarts>>

\* The persistence interval, or forcePersistence.
Persist(j) ==
  /\ live["persistence"] > 0 \/ status = "up"
  /\ job[j] = 0
  /\ Save(j, 1)
  /\ UNCHANGED <<status, live>>

PersistNext(j) ==
  /\ job[j] \in 2..(LastStage - 1)
  /\ Save(j, job[j])
  /\ UNCHANGED <<status, live>>

\* Then the configuration and the metrics are stored, which no step reads.
PersistEnd(j) ==
  /\ job[j] = LastStage
  /\ job' = [job EXCEPT ![j] = 0]
  /\ status' = IF j = Stop THEN "down" ELSE status
  /\ UNCHANGED <<sketch, stored, windows, loading, live, now, restarts>>

Shutdown ==
  /\ status = "up"
  /\ live' = [k \in Kinds |-> live[k] - 1]
  /\ status' = "stopping"
  /\ Save(Stop, 1)

Cleanup ==
  /\ live["cleanup"] > 0
  /\ Unhealthy
  /\ ClearAll
  /\ UNCHANGED <<stored, status, loading, job, live, now, restarts>>

Reset ==
  /\ status = "up"
  /\ ClearAll
  /\ UNCHANGED <<stored, status, loading, job, live, now, restarts>>

\* The metrics interval is not among the ones that are cleared.
Restarted(l) ==
  StartPeriodicTasks([l EXCEPT !["persistence"] = @ - 1, !["cleanup"] = @ - 1])

UpdateConfiguration ==
  /\ status = "up"
  /\ live["metrics"] <= MaxUpdates
  /\ live' = Restarted(live)
  /\ UNCHANGED <<sketch, stored, windows, status, loading, job, now, restarts>>

\* The process ends, however it does, and another one starts.
Restart ==
  /\ restarts < MaxRestarts
  /\ restarts' = restarts + 1
  /\ \E seed \in Seeds : sketch' = Analyzer(seed)
  /\ windows' = NoWindow
  /\ status' = "new" /\ loading' = 0 /\ job' = Idle /\ live' = NoInterval
  /\ UNCHANGED <<stored, now>>

Tick ==
  /\ now < MaxTime
  /\ now' = now + 1
  /\ stored' = [n \in {m \in DOMAIN stored : now' - stored[m].at < Ttl} |-> stored[n]]
  /\ UNCHANGED <<sketch, windows, status, loading, job, live, restarts>>

SketchNext ==
  \/ Initialize \/ LoadOne \/ Started \/ Shutdown
  \/ Cleanup \/ Reset \/ UpdateConfiguration \/ Restart \/ Tick
  \/ \E fields \in (SUBSET SketchNames) \ {{}}, x \in Items : ProcessRequest(fields, x)
  \/ \E j \in Jobs : Persist(j)
  \/ \E j \in Jobs \cup {Stop} : PersistNext(j) \/ PersistEnd(j)

SketchSpec == SketchInit /\ [][SketchNext]_sketchVars

-----------------------------------------------------------------------------
(* Properties                                                              *)

Sketch ==
  [seed : Seeds, matrix : [Rows -> [Cells -> Nat]], inserts : Nat, seen : [Items -> Nat]]

\* The guarantee of a Count-Min sketch (query takes the least counter): an
\* estimate is never below the number of times the item was inserted, also
\* after copies were stored, loaded by a process with other hash functions, or
\* cleared.
NeverUnderestimates ==
  \A n \in SketchNames, x \in Items : Query(sketch[n], x) >= sketch[n].seen[x]

\* The minute windows of an item hold running totals (updateTimeWindow stores the
\* estimate, not the minute's share), which no reset, cleanup, load or restart
\* makes fall from one window to a later one: analyzePattern's "decreasing" is
\* never the answer, however the traffic goes.
TotalsNeverFall ==
  \A n \in DOMAIN windows : \A v, w \in windows[n] :
    v.item = w.item /\ v.start <= w.start => v.frequency <= w.frequency

\* What makes TotalsNeverFall inductive: no window is ahead of the clock or of
\* the sketch, and a copy is loaded only while there are no windows.
WindowsFollow ==
  /\ now \in Nat
  /\ status \in {"new", "loading"} => windows = NoWindow /\ live = NoInterval
  /\ DOMAIN windows \subseteq SketchNames
  /\ \A n \in DOMAIN windows : \A w \in windows[n] :
       /\ w.item \in Items /\ w.start \in Int /\ w.frequency \in Nat
       /\ w.start <= now /\ w.frequency <= Query(sketch[n], w.item)

\* Every counter of an item, in the live sketches and in the stored copies,
\* is at least its count: what makes NeverUnderestimates inductive.
Safe(s) ==
  /\ s \in Sketch
  /\ \A i \in Rows, x \in Items : s.matrix[i][Cell(s, i, x)] >= s.seen[x]

CountersCover ==
  /\ DOMAIN sketch = SketchNames
  /\ \A n \in SketchNames : Safe(sketch[n])
  /\ \A n \in DOMAIN stored : Safe(stored[n].copy)

Copies == {sketch[n] : n \in SketchNames} \cup {stored[n].copy : n \in DOMAIN stored}

\* merge of two sketches of the same hash functions, of this process or a copy
\* in Redis, estimates the sum of their counts without underestimating it.
MergeNeverUnderestimates ==
  \A s, t \in Copies : s.seed = t.seed =>
    \A x \in Items : Query(Merged(s, t), x) >= s.seen[x] + t.seen[x]
=============================================================================
