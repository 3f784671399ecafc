---------------------- MODULE VisitorCardinality_proofs ----------------------
(* The registers of a HyperLogLog are a function of the set of items it was  *)
(* given: each is the largest rank of its bucket.                            *)
EXTENDS VisitorCardinality, TLAPS

\* Exact and well-typed.
Sound(h) == h \in HyperLogLog /\ Exact(h)

\* The inductive invariant: RegistersExact and the shape of hll.
AllExact ==
  /\ DOMAIN hll = Keys
  /\ \A k \in Keys : Sound(hll[k])

\* A new or cleared HyperLogLog holds zeros and was given nothing.
LEMMA NewExact == Sound(NewHLL)
BY SparseAssumption DEF NewHLL, Sound, Exact, HyperLogLog

\* Neither the seen items nor the registers depend on the representation.
LEMMA ConvertedExact ==
  ASSUME NEW h, Sound(h)
  PROVE  Sound(Converted(h))
<1> DEFINE s == h.sparse /\ 4 * Cardinality(Used(h)) <= Cardinality(Buckets)
<1>1. s \in BOOLEAN
  OBVIOUS
<1>2. Converted(h) = [h EXCEPT !.sparse = s]
  BY DEF Converted
<1> HIDE DEF s
<1>3. /\ Converted(h) \in HyperLogLog
      /\ Converted(h).reg = h.reg
      /\ Converted(h).seen = h.seen
  BY <1>1, <1>2 DEF Sound, Exact, HyperLogLog
<1> QED BY <1>3 DEF Sound, Exact

\* add takes the larger of the register and the rank of the item.
LEMMA AddExact ==
  ASSUME NEW h, Sound(h), NEW x \in Visitors
  PROVE  Sound(Add(h, x))
<1> DEFINE r == [h.reg EXCEPT ![Bucket[x]] =
                   IF Rank[x] > h.reg[Bucket[x]] THEN Rank[x] ELSE h.reg[Bucket[x]]]
           d == h.seen \cup {x}
           g == [h EXCEPT !.reg = r, !.seen = d]
<1>1. h \in HyperLogLog /\ h.reg \in [Buckets -> Nat] /\ h.seen \subseteq Visitors
  BY DEF Sound, Exact, HyperLogLog
<1>2. \A y \in Visitors : Bucket[y] \in Buckets /\ Rank[y] \in Nat /\ Rank[y] > 0
  BY VisitorAssumption
<1>3. r \in [Buckets -> Nat] /\ d \in SUBSET Visitors
  BY <1>1, <1>2
<1>4. \A b \in Buckets :
        r[b] = IF b = Bucket[x] /\ Rank[x] > h.reg[b] THEN Rank[x] ELSE h.reg[b]
  BY <1>1, <1>2
<1>5. g \in HyperLogLog /\ g.reg = r /\ g.seen = d
  <2> HIDE DEF r, d
  <2> QED BY <1>1, <1>3, ZenonT(60) DEF HyperLogLog
<1> HIDE DEF r, g
<1>6. ASSUME NEW y \in d PROVE r[Bucket[y]] >= Rank[y]
  <2>1. y \in Visitors /\ Bucket[y] \in Buckets /\ Rank[y] \in Nat /\ Rank[x] \in Nat
    BY <1>1, <1>2
  <2>2. h.reg[Bucket[y]] \in Nat
    BY <1>1, <2>1
  <2>3. r[Bucket[y]] = IF Bucket[y] = Bucket[x] /\ Rank[x] > h.reg[Bucket[y]]
                       THEN Rank[x] ELSE h.reg[Bucket[y]]
    BY <1>4, <2>1
  <2>4. y = x \/ h.reg[Bucket[y]] >= Rank[y]
    BY DEF Sound, Exact
  <2> QED BY <2>1, <2>2, <2>3, <2>4
<1>7. ASSUME NEW b \in Buckets, r[b] > 0
      PROVE  \E y \in d : Bucket[y] = b /\ Rank[y] = r[b]
  <2>1. CASE b = Bucket[x] /\ Rank[x] > h.reg[b]
    BY <1>4, <2>1
  <2>2. CASE ~ (b = Bucket[x] /\ Rank[x] > h.reg[b])
    <3>1. r[b] = h.reg[b]
      BY <1>4, <2>2
    <3>2. \E y \in h.seen : Bucket[y] = b /\ Rank[y] = h.reg[b]
      BY <1>7, <3>1 DEF Sound, Exact
    <3> QED BY <3>1, <3>2
  <2> QED BY <2>1, <2>2
<1>8. Sound(g)
  BY <1>5, <1>6, <1>7 DEF Sound, Exact
<1>9. Add(h, x) = Converted(g)
  BY DEF Add, g, r
<1> QED BY <1>8, <1>9, ConvertedExact

\* merge is the HyperLogLog of the union.
LEMMA MergedExact ==
  ASSUME NEW g, NEW h, Sound(g), Sound(h)
  PROVE  Sound(MergedHLL(g, h))
<1> DEFINE u == MergedHLL(g, h)
<1>1. /\ g.reg \in [Buckets -> Nat] /\ g.seen \subseteq Visitors /\ g.sparse \in BOOLEAN
      /\ h.reg \in [Buckets -> Nat] /\ h.seen \subseteq Visitors /\ h.sparse \in BOOLEAN
  BY DEF Sound, Exact, HyperLogLog
<1>2. u.seen = g.seen \cup h.seen
  BY DEF MergedHLL
<1>3. \A b \in Buckets : u.reg[b] = IF g.reg[b] > h.reg[b] THEN g.reg[b] ELSE h.reg[b]
  BY DEF MergedHLL
<1>4. u \in HyperLogLog
  BY <1>1 DEF MergedHLL, HyperLogLog
<1> HIDE DEF u
<1>5. ASSUME NEW x \in u.seen PROVE u.reg[Bucket[x]] >= Rank[x]
  <2>1. Bucket[x] \in Buckets /\ Rank[x] \in Nat
    BY <1>1, <1>2, VisitorAssumption
  <2>2. g.reg[Bucket[x]] \in Nat /\ h.reg[Bucket[x]] \in Nat
    BY <1>1, <2>1
  <2>3. g.reg[Bucket[x]] >= Rank[x] \/ h.reg[Bucket[x]] >= Rank[x]
    BY <1>2 DEF Sound, Exact
  <2> QED BY <1>3, <2>1, <2>2, <2>3
<1>6. ASSUME NEW b \in Buckets, u.reg[b] > 0
      PROVE  \E x \in u.seen : Bucket[x] = b /\ Rank[x] = u.reg[b]
  <2>1. u.reg[b] = g.reg[b] \/ u.reg[b] = h.reg[b]
    BY <1>3
  <2>2. CASE u.reg[b] = g.reg[b]
    BY <1>2, <1>6, <2>2 DEF Sound, Exact
  <2>3. CASE u.reg[b] = h.reg[b]
    BY <1>2, <1>6, <2>3 DEF Sound, Exact
  <2> QED BY <2>1, <2>2, <2>3
<1>7. Sound(u)
  BY <1>4, <1>5, <1>6 DEF Sound, Exact
<1> QED BY <1>7 DEF u

\* Steps that do not touch hll.
LEMMA Untouched == AllExact /\ hll' = hll => AllExact'
BY DEF AllExact, Sound, Exact, Keys

\* Every step keeps every HyperLogLog exact.
LEMMA NextExact ==
  ASSUME AllExact, [VisitorNext]_visitorVars
  PROVE  AllExact'
<1> USE DEF AllExact
<1>1. ASSUME Clear PROVE AllExact'
  <2>1. hll' = [k \in Keys |-> NewHLL]
    BY <1>1 DEF Clear
  <2> QED BY <2>1, NewExact
<1>2. CASE InitializeHLL \/ StartedHLL \/ PersistHLL \/ ShutdownHLL \/ ShutdownEnd \/ UNCHANGED visitorVars
  <2>1. hll' = hll
    BY <1>2 DEF InitializeHLL, StartedHLL, PersistHLL, ShutdownHLL, ShutdownEnd, visitorVars
  <2> QED BY <2>1, Untouched
<1>3. CASE CleanupHLL
  BY <1>1, <1>3 DEF CleanupHLL
<1>4. CASE ResetHLL
  BY <1>1, <1>4 DEF ResetHLL
<1>5. ASSUME NEW some \in (SUBSET Types) \ {{}}, NEW age \in Ages,
             NEW fields \in [some -> Visitors], ProcessVisit(fields, age)
      PROVE  AllExact'
  <2>1. AddToTracking(fields, age)
    BY <1>5 DEF ProcessVisit
  <2>2. hll' = [k \in Keys |->
                  IF k[1] \in DOMAIN fields /\ (k[2] = All \/ WithinTimeWindow(age, k[2]))
                  THEN Add(hll[k], fields[k[1]]) ELSE hll[k]]
    BY <2>1 DEF AddToTracking
  <2>3. DOMAIN hll' = Keys
    BY <2>2
  <2>4. ASSUME NEW k \in Keys PROVE Sound(hll'[k])
    <3>1. CASE k[1] \in DOMAIN fields /\ hll'[k] = Add(hll[k], fields[k[1]])
      <4>1. fields[k[1]] \in Visitors /\ Sound(hll[k])
        BY <3>1
      <4> QED BY <3>1, <4>1, AddExact
    <3>2. CASE hll'[k] = hll[k]
      BY <3>2
    <3> QED BY <2>2, <3>1, <3>2
  <2> QED BY <2>3, <2>4
<1> QED BY <1>2, <1>3, <1>4, <1>5 DEF VisitorNext

\* Every HyperLogLog is always exact.
LEMMA AlwaysExact == VisitorSpec => []AllExact
<1>1. VisitorInit => AllExact
  <2> SUFFICES ASSUME VisitorInit PROVE AllExact
    OBVIOUS
  <2>1. hll = [k \in Keys |-> NewHLL]
    BY DEF VisitorInit
  <2> QED BY <2>1, NewExact DEF AllExact
<1>2. AllExact /\ [VisitorNext]_visitorVars => AllExact'
  BY NextExact
<1> QED BY <1>1, <1>2, PTL DEF VisitorSpec

\* For every choice of items, buckets, ranks, types and windows: a register is
\* the largest rank among the distinct items of its bucket, whatever the
\* order and the repetition of adds, through clears, and merge of any two
\* HyperLogLogs is exact for the union of their items.
THEOREM RegistersAreExact == VisitorSpec => []RegistersExact
<1>1. AllExact => RegistersExact
  <2> SUFFICES ASSUME AllExact, NEW k \in Keys, NEW l \in Keys
               PROVE  /\ Exact(hll[k])
                      /\ Exact(MergedHLL(hll[k], hll[l]))
                      /\ MergedHLL(hll[k], hll[l]).seen = hll[k].seen \cup hll[l].seen
    BY DEF RegistersExact
  <2>1. Sound(hll[k]) /\ Sound(MergedHLL(hll[k], hll[l]))
    BY MergedExact DEF AllExact
  <2> QED BY <2>1 DEF Sound, MergedHLL
<1> QED BY <1>1, AlwaysExact, PTL
=============================================================================
