------------------------ MODULE FrequencySketch_proofs ------------------------
(* No estimate of a Count-Min sketch falls below the true count, whatever    *)
(* the hash functions are.                                                   *)
EXTENDS FrequencySketch, WellFoundedInduction, TLAPS

\* A nonempty set of counters has a least one, which query returns.
LEMMA LeastCounter ==
  ASSUME NEW T \in SUBSET Nat, T # {}
  PROVE  \E v \in T : \A w \in T : v <= w
<1>1. \E v \in T : \A w \in T : ~ (<<w, v>> \in OpToRel(<, Nat))
  BY NatLessThanWellFounded, WFMin
<1>2. PICK v \in T : \A w \in T : ~ (<<w, v>> \in OpToRel(<, Nat))
  BY <1>1
<1>3. ASSUME NEW w \in T PROVE v <= w
  <2>1. ~ (<<w, v>> \in OpToRel(<, Nat))
    BY <1>2
  <2>2. <<w, v>> \in Nat \X Nat /\ <<w, v>>[1] = w /\ <<w, v>>[2] = v
    OBVIOUS
  <2>3. ~ (w < v)
    BY <2>1, <2>2 DEF OpToRel
  <2> QED BY <2>3
<1> QED BY <1>3

\* query on a sketch whose counters cover the counts.
LEMMA QueryCovers ==
  ASSUME NEW s, Safe(s), NEW x \in Items
  PROVE  Query(s, x) >= s.seen[x]
<1>1. Counters(s, x) \in SUBSET Nat /\ Counters(s, x) # {}
  BY HashAssumption DEF Safe, Sketch, Counters, Cell
<1>2. \E v \in Counters(s, x) : \A w \in Counters(s, x) : v <= w
  BY <1>1, LeastCounter
<1>3. Query(s, x) \in Counters(s, x)
  BY <1>2 DEF Query
<1> QED BY <1>3, SMTT(60) DEF Counters, Safe

\* The constructor makes a sketch of zeros.
LEMMA NewSafe ==
  ASSUME NEW seed \in Seeds
  PROVE  Safe(New(seed))
BY HashAssumption DEF New, Zero, Safe, Sketch, Cell

\* clear leaves zeros and forgets the counts.
LEMMA ClearedSafe ==
  ASSUME NEW s, Safe(s)
  PROVE  Safe(Cleared(s))
<1> DEFINE t == Cleared(s)
<1>1. s \in Sketch
  BY DEF Safe
<1>2. /\ t \in Sketch
      /\ t.seed = s.seed
      /\ t.matrix = Zero
      /\ t.seen = [x \in Items |-> 0]
  BY <1>1, ZenonT(60) DEF Cleared, Zero, Sketch
<1>3. ASSUME NEW i \in Rows, NEW x \in Items
      PROVE  t.matrix[i][Cell(t, i, x)] >= t.seen[x]
  <2>1. Cell(t, i, x) \in Cells
    BY <1>1, <1>2, HashAssumption DEF Cell, Sketch
  <2> QED BY <1>2, <2>1 DEF Zero
<1> QED BY <1>2, <1>3 DEF Safe

\* insert raises one counter of each row, those of the item among them.
LEMMA InsertSafe ==
  ASSUME NEW s, Safe(s), NEW x \in Items
  PROVE  Safe(Insert(s, x))
<1> DEFINE t == Insert(s, x)
<1>1. s \in Sketch
  BY DEF Safe
<1>2. /\ t \in Sketch
      /\ t.seed = s.seed
      /\ t.seen = [s.seen EXCEPT ![x] = @ + 1]
      /\ t.matrix = [i \in Rows |-> [c \in Cells |->
                       s.matrix[i][c] + IF c = Cell(s, i, x) THEN 1 ELSE 0]]
  <2> DEFINE m == [i \in Rows |-> [c \in Cells |->
                     s.matrix[i][c] + IF c = Cell(s, i, x) THEN 1 ELSE 0]]
             d == [s.seen EXCEPT ![x] = @ + 1]
             e == s.inserts + 1
  <2>1. m \in [Rows -> [Cells -> Nat]]
    <3>1. ASSUME NEW i \in Rows, NEW c \in Cells
          PROVE  s.matrix[i][c] + (IF c = Cell(s, i, x) THEN 1 ELSE 0) \in Nat
      BY <1>1 DEF Sketch
    <3> QED BY <3>1
  <2>2. d \in [Items -> Nat] /\ e \in Nat
    BY <1>1 DEF Sketch
  <2>3. t = [s EXCEPT !.matrix = m, !.inserts = e, !.seen = d]
    BY DEF Insert
  <2> HIDE DEF t, m, d, e
  <2>4. t \in Sketch /\ t.seed = s.seed /\ t.seen = d /\ t.matrix = m
    BY <1>1, <2>1, <2>2, <2>3, ZenonT(60) DEF Sketch
  <2> QED BY <2>4 DEF m, d
<1>3. ASSUME NEW i \in Rows, NEW y \in Items
      PROVE  t.matrix[i][Cell(t, i, y)] >= t.seen[y]
  <2>1. Cell(t, i, y) = Cell(s, i, y) /\ Cell(s, i, y) \in Cells
    BY <1>1, <1>2, HashAssumption DEF Cell, Sketch
  <2>2. t.matrix[i][Cell(s, i, y)]
          = s.matrix[i][Cell(s, i, y)] + IF Cell(s, i, y) = Cell(s, i, x) THEN 1 ELSE 0
    BY <1>2, <2>1
  <2>3. s.matrix[i][Cell(s, i, y)] \in Nat /\ s.seen[y] \in Nat
    BY <1>1, <2>1 DEF Sketch
  <2>4. s.matrix[i][Cell(s, i, y)] >= s.seen[y]
    BY DEF Safe
  <2>5. t.seen[y] = IF y = x THEN s.seen[y] + 1 ELSE s.seen[y]
    BY <1>1, <1>2 DEF Sketch
  <2> QED BY <2>1, <2>2, <2>3, <2>4, <2>5
<1> QED BY <1>2, <1>3, ZenonT(60) DEF Safe

\* merge adds counters of the same cells when the hash functions are equal.
LEMMA MergedSafe ==
  ASSUME NEW s, NEW t, Safe(s), Safe(t), s.seed = t.seed
  PROVE  Safe(Merged(s, t))
<1> DEFINE u == Merged(s, t)
<1>1. s \in Sketch /\ t \in Sketch
  BY DEF Safe
<1>2. /\ u \in Sketch
      /\ u.seed = s.seed
      /\ u.seen = [x \in Items |-> s.seen[x] + t.seen[x]]
      /\ u.matrix = [i \in Rows |-> [c \in Cells |-> s.matrix[i][c] + t.matrix[i][c]]]
  <2> DEFINE m == [i \in Rows |-> [c \in Cells |-> s.matrix[i][c] + t.matrix[i][c]]]
             d == [x \in Items |-> s.seen[x] + t.seen[x]]
             e == s.inserts + t.inserts
  <2>1. m \in [Rows -> [Cells -> Nat]]
    <3>1. ASSUME NEW i \in Rows, NEW c \in Cells
          PROVE  s.matrix[i][c] + t.matrix[i][c] \in Nat
      BY <1>1 DEF Sketch
    <3> QED BY <3>1
  <2>2. d \in [Items -> Nat] /\ e \in Nat
    BY <1>1 DEF Sketch
  <2>3. u = [s EXCEPT !.matrix = m, !.inserts = e, !.seen = d]
    BY DEF Merged
  <2> HIDE DEF u, m, d, e
  <2>4. u \in Sketch /\ u.seed = s.seed /\ u.seen = d /\ u.matrix = m
    BY <1>1, <2>1, <2>2, <2>3, ZenonT(60) DEF Sketch
  <2> QED BY <2>4 DEF m, d
<1>3. ASSUME NEW i \in Rows, NEW x \in Items
      PROVE  u.matrix[i][Cell(u, i, x)] >= u.seen[x]
  <2>1. /\ Cell(u, i, x) = Cell(s, i, x)
        /\ Cell(t, i, x) = Cell(s, i, x)
        /\ Cell(s, i, x) \in Cells
    BY <1>1, <1>2, HashAssumption DEF Cell, Sketch
  <2>2. /\ s.matrix[i][Cell(s, i, x)] \in Nat /\ s.seen[x] \in Nat
        /\ t.matrix[i][Cell(s, i, x)] \in Nat /\ t.seen[x] \in Nat
    BY <1>1, <2>1 DEF Sketch
  <2>3. /\ s.matrix[i][Cell(s, i, x)] >= s.seen[x]
        /\ t.matrix[i][Cell(s, i, x)] >= t.seen[x]
    BY <2>1 DEF Safe
  <2> QED BY <1>2, <2>1, <2>2, <2>3
<1> QED BY <1>2, <1>3, ZenonT(60) DEF Safe

\* An action that leaves the sketches and the copies alone keeps them safe.
LEMMA Untouched ==
  CountersCover /\ UNCHANGED <<sketch, stored>> => CountersCover'
BY ZenonT(60) DEF CountersCover, Safe, Cell, SketchNames

\* A process starts with new sketches and Redis without copies.
LEMMA InitCovers == SketchInit => CountersCover
<1> SUFFICES ASSUME SketchInit PROVE CountersCover
  OBVIOUS
<1>1. PICK seed \in Seeds : sketch = [n \in SketchNames |-> New(seed)]
  BY DEF SketchInit, Analyzer
<1>2. Safe(New(seed))
  BY NewSafe
<1>3. DOMAIN stored = {}
  BY DEF SketchInit, Empty
<1> QED BY <1>1, <1>2, <1>3 DEF CountersCover

\* Every step keeps the counters above the counts: tracking and clearing,
\* loading and saving copies, and a restart with another seed.
LEMMA NextCovers ==
  ASSUME CountersCover, [SketchNext]_sketchVars
  PROVE  CountersCover'
<1> USE DEF CountersCover
<1>1. CASE Initialize
  BY <1>1, Untouched DEF Initialize
<1>2. CASE LoadOne
  <2>1. stored' = stored
    BY <1>2 DEF LoadOne
  <2>2. CASE sketch' = sketch
    BY <2>1, <2>2, Untouched
  <2>3. ASSUME NEW m, m \in DOMAIN stored,
               sketch' = [sketch EXCEPT ![m] = stored[m].copy]
        PROVE  CountersCover'
    <3>1. DOMAIN sketch' = SketchNames
      BY <2>3
    <3>2. \A n \in SketchNames : sketch'[n] = IF n = m THEN stored[m].copy ELSE sketch[n]
      BY <2>3
    <3> QED BY <2>1, <2>3, <3>1, <3>2
  <2>4. sketch' = sketch \/ \E m \in DOMAIN stored :
          sketch' = [sketch EXCEPT ![m] = stored[m].copy]
    BY <1>2 DEF LoadOne, Deserialize
  <2> QED BY <2>2, <2>3, <2>4
<1>3. CASE Started
  BY <1>3, Untouched DEF Started
<1>4. ASSUME NEW j, NEW k \in 1..Len(Names), Save(j, k)
      PROVE  CountersCover'
  <2>1. sketch' = sketch
    BY <1>4 DEF Save
  <2>2. CASE stored' = stored
    BY <2>1, <2>2, Untouched
  <2>3. CASE stored' = With(stored, Names[k], [copy |-> sketch[Names[k]], at |-> now])
    <3>1. Names[k] \in SketchNames
      BY DEF SketchNames
    <3>2. \A n \in DOMAIN stored' :
            stored'[n].copy = IF n = Names[k] THEN sketch[Names[k]] ELSE stored[n].copy
      BY <2>3 DEF With
    <3>3. DOMAIN stored' = DOMAIN stored \cup {Names[k]}
      BY <2>3 DEF With
    <3> QED BY <2>1, <3>1, <3>2, <3>3
  <2> QED BY <1>4, <2>2, <2>3 DEF Save
<1>5. CASE Shutdown
  BY <1>4, <1>5, NamesAssumption DEF Shutdown
<1>6. ASSUME ClearAll, stored' = stored PROVE CountersCover'
  <2>1. \A n \in SketchNames : sketch'[n] = Cleared(sketch[n])
    BY <1>6 DEF ClearAll
  <2>2. DOMAIN sketch' = SketchNames
    BY <1>6 DEF ClearAll
  <2> QED BY <1>6, <2>1, <2>2, ClearedSafe
<1>7. CASE Cleanup
  BY <1>6, <1>7 DEF Cleanup
<1>8. CASE Reset
  BY <1>6, <1>8 DEF Reset
<1>9. CASE UpdateConfiguration
  BY <1>9, Untouched DEF UpdateConfiguration
<1>10. CASE Restart
  <2>1. PICK seed \in Seeds : sketch' = [n \in SketchNames |-> New(seed)]
    BY <1>10 DEF Restart, Analyzer
  <2>2. stored' = stored /\ Safe(New(seed))
    BY <1>10, NewSafe DEF Restart
  <2> QED BY <2>1, <2>2
<1>11. CASE Tick
  <2>1. sketch' = sketch
    BY <1>11 DEF Tick
  <2>2. DOMAIN stored' \subseteq DOMAIN stored
        /\ \A n \in DOMAIN stored' : stored'[n] = stored[n]
    BY <1>11 DEF Tick
  <2> QED BY <2>1, <2>2
<1>12. ASSUME NEW fields \in (SUBSET SketchNames) \ {{}}, NEW x \in Items,
              ProcessRequest(fields, x)
       PROVE  CountersCover'
  <2>1. stored' = stored
    BY <1>12 DEF ProcessRequest
  <2>2. sketch' = [n \in SketchNames |->
                     IF n \in fields THEN Insert(sketch[n], x) ELSE sketch[n]]
    BY <1>12 DEF ProcessRequest, TrackItem
  <2>3. \A n \in SketchNames : Safe(Insert(sketch[n], x))
    BY InsertSafe
  <2> QED BY <2>1, <2>2, <2>3
<1>13. ASSUME NEW j \in Jobs, Persist(j) PROVE CountersCover'
  BY <1>4, <1>13, NamesAssumption DEF Persist
<1>14. ASSUME NEW j \in Jobs \cup {Stop}, PersistNext(j) PROVE CountersCover'
  <2>1. job[j] \in 1..Len(Names)
    BY <1>14, NamesAssumption DEF PersistNext, LastStage
  <2> QED BY <1>4, <1>14, <2>1 DEF PersistNext
<1>15. ASSUME NEW j \in Jobs \cup {Stop}, PersistEnd(j) PROVE CountersCover'
  BY <1>15, Untouched DEF PersistEnd
<1>16. CASE UNCHANGED sketchVars
  BY <1>16, Untouched DEF sketchVars
<1> QED
  BY <1>1, <1>2, <1>3, <1>5, <1>7, <1>8, <1>9, <1>10, <1>11, <1>12, <1>13, <1>14, <1>15,
     <1>16 DEF SketchNext

\* No sketch and no copy ever counts less than what it was given.
LEMMA AlwaysCovers == SketchSpec => []CountersCover
<1>1. CountersCover /\ [SketchNext]_sketchVars => CountersCover'
  BY NextCovers
<1> QED BY InitCovers, <1>1, PTL DEF SketchSpec

\* The guarantee of a Count-Min sketch for every choice of hash functions,
\* rows, cells, items and seeds, through storing, loading, clearing and
\* restarts with another seed: no estimate is below the number of insertions.
THEOREM EstimatesAreSafe == SketchSpec => []NeverUnderestimates
<1>1. CountersCover => NeverUnderestimates
  BY QueryCovers DEF CountersCover, NeverUnderestimates
<1> QED BY <1>1, AlwaysCovers, PTL

\* The same for merge, of any two sketches or stored copies that hash alike.
THEOREM MergesAreSafe == SketchSpec => []MergeNeverUnderestimates
<1>1. CountersCover => MergeNeverUnderestimates
  <2> SUFFICES ASSUME CountersCover, NEW s \in Copies, NEW t \in Copies, s.seed = t.seed,
                      NEW x \in Items
               PROVE  Query(Merged(s, t), x) >= s.seen[x] + t.seen[x]
    BY DEF MergeNeverUnderestimates
  <2>1. Safe(s) /\ Safe(t)
    BY DEF CountersCover, Copies
  <2>2. Safe(Merged(s, t))
    BY <2>1, MergedSafe
  <2>3. Query(Merged(s, t), x) >= Merged(s, t).seen[x]
    BY <2>2, QueryCovers
  <2>4. Merged(s, t).seen[x] = s.seen[x] + t.seen[x]
    BY <2>1 DEF Merged, Safe, Sketch
  <2> QED BY <2>3, <2>4
<1> QED BY <1>1, AlwaysCovers, PTL

\* query returns a counter, the least one.
LEMMA QueryLeast ==
  ASSUME NEW s, Safe(s), NEW x \in Items
  PROVE  /\ Query(s, x) \in Nat
         /\ \E i \in Rows : Query(s, x) = s.matrix[i][Cell(s, i, x)]
         /\ \A i \in Rows : Query(s, x) <= s.matrix[i][Cell(s, i, x)]
<1>1. Counters(s, x) \in SUBSET Nat /\ Counters(s, x) # {}
  BY HashAssumption DEF Safe, Sketch, Counters, Cell
<1>2. \E v \in Counters(s, x) : \A w \in Counters(s, x) : v <= w
  BY <1>1, LeastCounter
<1>3. Query(s, x) \in Counters(s, x) /\ \A w \in Counters(s, x) : Query(s, x) <= w
  BY <1>2 DEF Query
<1> QED BY <1>1, <1>3 DEF Counters

\* insert lowers no estimate.
LEMMA InsertRaises ==
  ASSUME NEW s, Safe(s), NEW x \in Items, NEW y \in Items
  PROVE  Query(s, y) <= Query(Insert(s, x), y)
<1> DEFINE t == Insert(s, x)
<1>1. Safe(t)
  BY InsertSafe
<1>2. s \in Sketch
  BY DEF Safe
<1>3. t.seed = s.seed /\ t.matrix = [i \in Rows |-> [c \in Cells |->
        s.matrix[i][c] + IF c = Cell(s, i, x) THEN 1 ELSE 0]]
  BY <1>2, ZenonT(60) DEF Insert, Sketch
<1> HIDE DEF t
<1>4. PICK i \in Rows : Query(t, y) = t.matrix[i][Cell(t, i, y)]
  BY <1>1, QueryLeast
<1>5. Cell(t, i, y) = Cell(s, i, y) /\ Cell(s, i, y) \in Cells
  BY <1>2, <1>3, HashAssumption DEF Cell, Sketch
<1>6. s.matrix[i][Cell(s, i, y)] \in Nat
  BY <1>2, <1>5 DEF Sketch
<1>7. s.matrix[i][Cell(s, i, y)] <= t.matrix[i][Cell(t, i, y)]
  BY <1>3, <1>5, <1>6
<1>8. Query(s, y) <= s.matrix[i][Cell(s, i, y)] /\ Query(s, y) \in Nat /\ Query(t, y) \in Nat
  BY <1>1, QueryLeast
<1>9. Query(s, y) <= Query(t, y)
  BY <1>4, <1>6, <1>7, <1>8
<1> QED BY <1>9 DEF t

\* What holds of the windows of one sketch.
Follows(ws, s, t) ==
  \A w \in ws :
    /\ w.item \in Items /\ w.start \in Int /\ w.frequency \in Nat
    /\ w.start <= t /\ w.frequency <= Query(s, w.item)

Rising(ws) ==
  \A v, w \in ws : v.item = w.item /\ v.start <= w.start => v.frequency <= w.frequency

\* updateTimeWindow after an insert: the entry of this minute is at least as
\* high as those before it, and the only one of its minute.
LEMMA UpdateFollows ==
  ASSUME NEW ws, NEW s, Safe(s), NEW x \in Items, now \in Nat,
         Follows(ws, s, now), Rising(ws)
  PROVE  LET u == UpdatedWindow(ws, x, Query(Insert(s, x), x))
         IN Follows(u, Insert(s, x), now) /\ Rising(u)
<1> DEFINE f == Query(Insert(s, x), x)
           e == [item |-> x, start |-> now, frequency |-> f]
           u == UpdatedWindow(ws, x, f)
<1>1. f \in Nat
  BY InsertSafe, QueryLeast
<1>2. \A w \in u : w = e \/ (w \in ws /\ (w.item # x \/ w.start # now))
  BY DEF UpdatedWindow
<1>3. e.item = x /\ e.start = now /\ e.frequency = f
  OBVIOUS
<1> HIDE DEF u, e
<1>4. ASSUME NEW w \in ws
      PROVE  /\ w.item \in Items /\ w.start \in Int /\ w.frequency \in Nat /\ w.start <= now
             /\ w.frequency <= Query(Insert(s, x), w.item)
  <2>1. /\ w.item \in Items /\ w.start \in Int /\ w.frequency \in Nat
        /\ w.start <= now /\ w.frequency <= Query(s, w.item)
    BY DEF Follows
  <2>2. Query(s, w.item) <= Query(Insert(s, x), w.item)
    BY <2>1, InsertRaises
  <2>3. Query(s, w.item) \in Nat /\ Query(Insert(s, x), w.item) \in Nat
    BY <2>1, InsertSafe, QueryLeast
  <2> QED BY <2>1, <2>2, <2>3
<1>5. Follows(u, Insert(s, x), now)
  BY <1>1, <1>2, <1>3, <1>4 DEF Follows
<1>6. ASSUME NEW v \in u, NEW w \in u, v.item = w.item, v.start <= w.start
      PROVE  v.frequency <= w.frequency
  <2>1. CASE v = e /\ w = e
    BY <1>1, <1>3, <2>1
  <2>2. CASE v # e /\ w = e
    <3>1. v \in ws /\ v.item = x
      BY <1>2, <1>3, <1>6, <2>2
    <3> QED BY <1>3, <1>4, <2>2, <3>1
  <2>3. CASE v = e /\ w # e
    <3>1. w \in ws /\ w.item = x /\ w.start # now /\ now <= w.start
      BY <1>2, <1>3, <1>6, <2>3
    <3>2. w.start <= now /\ w.start \in Int
      BY <1>4, <3>1
    <3> QED BY <3>1, <3>2
  <2>4. CASE v # e /\ w # e
    BY <1>2, <1>6, <2>4 DEF Rising
  <2> QED BY <2>1, <2>2, <2>3, <2>4
<1>7. Rising(u)
  BY <1>6 DEF Rising
<1> QED BY <1>5, <1>7 DEF u

\* A step that leaves the sketches, the windows and the clock alone, and does not
\* go back to an earlier status.
LEMMA WindowsUntouched ==
  ASSUME WindowsFollow, TotalsNeverFall, UNCHANGED <<sketch, windows, now>>,
         status' \in {"new", "loading"} => live' = live /\ status \in {"new", "loading"}
  PROVE  WindowsFollow' /\ TotalsNeverFall'
<1>1. TotalsNeverFall'
  BY DEF TotalsNeverFall
<1>2. \A n \in DOMAIN windows : Follows(windows[n], sketch[n], now)
  BY DEF WindowsFollow, Follows
<1>3. \A n \in DOMAIN windows' : Follows(windows'[n], sketch'[n], now')
  BY <1>2
<1>4. status' \in {"new", "loading"} => windows' = NoWindow /\ live' = NoInterval
  BY DEF WindowsFollow
<1>5. WindowsFollow'
  BY <1>3, <1>4 DEF WindowsFollow, Follows, NoWindow, NoInterval
<1> QED BY <1>1, <1>5

\* A step after which no sketch has a window.
LEMMA NoWindows ==
  ASSUME \A n \in DOMAIN windows' : windows'[n] = {}, DOMAIN windows' \subseteq SketchNames,
         now' \in Nat,
         status' \in {"new", "loading"} => windows' = NoWindow /\ live' = NoInterval
  PROVE  WindowsFollow' /\ TotalsNeverFall'
<1>1. TotalsNeverFall'
  BY DEF TotalsNeverFall
<1>2. WindowsFollow'
  BY DEF WindowsFollow, NoWindow, NoInterval
<1> QED BY <1>1, <1>2

\* Every step keeps the windows behind the sketches, and rising.
LEMMA NextFollows ==
  ASSUME CountersCover, WindowsFollow, TotalsNeverFall, [SketchNext]_sketchVars
  PROVE  WindowsFollow' /\ TotalsNeverFall'
<1>a. now \in Nat
  BY DEF WindowsFollow
<1>b. ASSUME UNCHANGED <<sketch, windows, now>>,
             status' \in {"new", "loading"} => live' = live /\ status \in {"new", "loading"}
      PROVE  WindowsFollow' /\ TotalsNeverFall'
  BY <1>b, WindowsUntouched
<1>c. ASSUME \A n \in DOMAIN windows' : windows'[n] = {}, DOMAIN windows' \subseteq SketchNames,
             now' \in Nat,
             status' \in {"new", "loading"} => windows' = NoWindow /\ live' = NoInterval
      PROVE  WindowsFollow' /\ TotalsNeverFall'
  BY <1>c, NoWindows
<1>1. CASE Initialize
  BY <1>1, <1>b DEF Initialize
<1>2. CASE LoadOne
  <2>1. /\ windows = NoWindow /\ live = NoInterval
        /\ UNCHANGED <<windows, live, now, status>>
    BY <1>2 DEF LoadOne, WindowsFollow
  <2> QED BY <1>a, <1>c, <2>1 DEF NoWindow
<1>3. CASE Started
  BY <1>3, <1>b DEF Started
<1>4. CASE Shutdown
  BY <1>4, <1>b DEF Shutdown, Save
<1>5. ASSUME ClearAll, status' = status, now' = now, status \notin {"new", "loading"}
      PROVE  WindowsFollow' /\ TotalsNeverFall'
  <2>1. DOMAIN windows' = {}
    BY <1>5 DEF ClearAll, Empty
  <2> QED BY <1>5, <1>a, <1>c, <2>1
<1>6. CASE Cleanup
  <2>1. status \notin {"new", "loading"}
    BY <1>6 DEF Cleanup, WindowsFollow, NoInterval, Kinds
  <2> QED BY <1>5, <1>6, <2>1 DEF Cleanup
<1>7. CASE Reset
  BY <1>5, <1>7 DEF Reset
<1>8. CASE UpdateConfiguration
  BY <1>8, <1>b DEF UpdateConfiguration
<1>9. CASE Restart
  <2>1. windows' = NoWindow /\ live' = NoInterval /\ now' = now
    BY <1>9 DEF Restart
  <2> QED BY <1>a, <1>c, <2>1 DEF NoWindow
<1>10. CASE Tick
  <2>1. UNCHANGED <<sketch, windows, status, live>> /\ now' = now + 1
    BY <1>10 DEF Tick
  <2>2. TotalsNeverFall'
    BY <2>1 DEF TotalsNeverFall
  <2>3. \A n \in DOMAIN windows' : Follows(windows'[n], sketch'[n], now')
    <3>1. \A n \in DOMAIN windows : Follows(windows[n], sketch[n], now)
      BY DEF WindowsFollow, Follows
    <3>2. \A n \in DOMAIN windows : Follows(windows[n], sketch[n], now + 1)
      BY <1>a, <3>1 DEF Follows
    <3> QED BY <2>1, <3>2
  <2>4. WindowsFollow'
    BY <1>a, <2>1, <2>3 DEF WindowsFollow, Follows, NoWindow, NoInterval
  <2> QED BY <2>2, <2>4
<1>11. ASSUME NEW fields \in (SUBSET SketchNames) \ {{}}, NEW x \in Items,
              ProcessRequest(fields, x)
       PROVE  WindowsFollow' /\ TotalsNeverFall'
  <2>1. /\ status \in {"up", "stopping"} /\ UNCHANGED <<status, live, now>>
        /\ sketch' = [n \in SketchNames |->
                        IF n \in fields THEN Insert(sketch[n], x) ELSE sketch[n]]
        /\ DOMAIN windows' = DOMAIN windows
    BY <1>11 DEF ProcessRequest, TrackItem
  <2>2. DOMAIN windows \subseteq SketchNames
    BY DEF WindowsFollow
  <2>3. ASSUME NEW n \in DOMAIN windows
        PROVE  Follows(windows'[n], sketch'[n], now') /\ Rising(windows'[n])
    <3>1. Follows(windows[n], sketch[n], now) /\ Rising(windows[n])
      BY DEF WindowsFollow, TotalsNeverFall, Follows, Rising
    <3>2. CASE n \notin fields
      <4>1. windows'[n] = windows[n] /\ sketch'[n] = sketch[n]
        BY <1>11, <2>1, <2>2, <3>2 DEF ProcessRequest, TrackItem
      <4> QED BY <2>1, <3>1, <4>1
    <3>3. CASE n \in fields
      <4>1. sketch'[n] = Insert(sketch[n], x)
        BY <2>1, <2>2, <3>3
      <4>2. windows'[n] = UpdatedWindow(windows[n], x, Query(Insert(sketch[n], x), x))
        BY <1>11, <2>2, <3>3 DEF ProcessRequest, TrackItem
      <4>3. Safe(sketch[n])
        BY <2>2 DEF CountersCover
      <4> QED BY <1>a, <2>1, <3>1, <4>1, <4>2, <4>3, UpdateFollows
    <3> QED BY <3>2, <3>3
  <2>4. WindowsFollow'
    BY <1>a, <2>1, <2>2, <2>3 DEF WindowsFollow, Follows
  <2>5. TotalsNeverFall'
    BY <2>1, <2>3 DEF TotalsNeverFall, Rising
  <2> QED BY <2>4, <2>5
<1>12. ASSUME NEW j \in Jobs, Persist(j) PROVE WindowsFollow' /\ TotalsNeverFall'
  BY <1>12, <1>b DEF Persist, Save
<1>13. ASSUME NEW j \in Jobs \cup {Stop}, PersistNext(j) PROVE WindowsFollow' /\ TotalsNeverFall'
  BY <1>13, <1>b DEF PersistNext, Save
<1>14. ASSUME NEW j \in Jobs \cup {Stop}, PersistEnd(j) PROVE WindowsFollow' /\ TotalsNeverFall'
  BY <1>14, <1>b DEF PersistEnd
<1>15. CASE UNCHANGED sketchVars
  BY <1>15, <1>b DEF sketchVars
<1> QED
  BY <1>1, <1>2, <1>3, <1>4, <1>6, <1>7, <1>8, <1>9, <1>10, <1>11, <1>12, <1>13, <1>14, <1>15
     DEF SketchNext

\* The totals of updateTimeWindow never fall from one minute to a later one, for
\* every choice of hash functions, items, spans and bounds: calculateTrend never
\* answers "decreasing".
THEOREM TotalsOnlyRise == SketchSpec => []TotalsNeverFall
<1>1. SketchInit => WindowsFollow /\ TotalsNeverFall
  BY DEF SketchInit, WindowsFollow, TotalsNeverFall, NoWindow
<1>2. CountersCover /\ WindowsFollow /\ TotalsNeverFall /\ [SketchNext]_sketchVars
        => WindowsFollow' /\ TotalsNeverFall'
  BY NextFollows
<1> QED BY <1>1, <1>2, AlwaysCovers, PTL DEF SketchSpec

=============================================================================
