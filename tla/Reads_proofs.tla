----------------------------- MODULE Reads_proofs -----------------------------
(***************************************************************************)
(* Proofs about Reads, for any events, streams, queries and budgets, and   *)
(* any number of appends and purges between the statements.                *)
(***************************************************************************)
EXTENDS Reads, TLAPS, SequenceTheorems, FiniteSetTheorems, WellFoundedInduction

-----------------------------------------------------------------------------
(* Lemmas about numbers and results.                                        *)

\* Numbers have a least one.
LEMMA LeastNumber ==
  ASSUME NEW S \in SUBSET Nat, S # {}
  PROVE  \E x \in S : \A y \in S : x <= y
<1>1. PICK x \in S : \A y \in S : ~ (<<y, x>> \in OpToRel(<, Nat))
  BY NatLessThanWellFounded, WFMin
<1>2. \A y \in S : ~ (y < x)
  BY <1>1 DEF OpToRel
<1> QED
  BY <1>2

\* ... and, if they have a bound, a greatest one.
LEMMA GreatestNumber ==
  ASSUME NEW S \in SUBSET Nat, S # {}, NEW n \in Nat, \A x \in S : x <= n
  PROVE  Max(S) \in S /\ \A y \in S : y <= Max(S)
<1> DEFINE D == {n - x : x \in S}
<1>1. \A x \in S : x \in Nat /\ n - x \in Nat
  OBVIOUS
<1>2. D \subseteq Nat /\ D # {}
  BY <1>1
<1>3. PICK d \in D : \A e \in D : d <= e
  BY <1>2, LeastNumber
<1>4. PICK x \in S : d = n - x
  OBVIOUS
<1>5. \A y \in S : n - x <= n - y
  BY <1>3, <1>4
<1>6. \A y \in S : x >= y
  BY <1>1, <1>5
<1> QED
  BY <1>6 DEF Max

LEMMA ItemIs ==
  ASSUME NEW x \in Item
  PROVE  x.id \in Id /\ x.id \in Nat /\ x.at \in Nat /\ x = [id |-> x.id, at |-> x.at]
<1>1. x.id \in Id /\ x.at \in Nat /\ x = [id |-> x.id, at |-> x.at]
  BY DEF Item
<1> QED
  BY <1>1, IdAssumption

\* Before orders the results, and there is a first one.
LEMMA FirstIs ==
  ASSUME NEW S \in SUBSET Item, S # {}
  PROVE  First(S) \in S /\ \A y \in S \ {First(S)} : Before(First(S), y)
<1>1. \A x \in S : x.at \in Nat /\ x.id \in Nat /\ x = [id |-> x.id, at |-> x.at]
  BY ItemIs
<1> DEFINE A == {x.at : x \in S}
<1>2. PICK a \in A : \A b \in A : a <= b
  <2>1. A \subseteq Nat /\ A # {}
    BY <1>1
  <2> QED
    BY <2>1, LeastNumber
<1> DEFINE I == {x.id : x \in {y \in S : y.at = a}}
<1>3. PICK i \in I : \A j \in I : i <= j
  <2>1. I \subseteq Nat /\ I # {}
    BY <1>1
  <2> QED
    BY <2>1, LeastNumber
<1>4. PICK x \in S : x.at = a /\ x.id = i
  OBVIOUS
<1>5. \A y \in S \ {x} : Before(x, y)
  <2> TAKE y \in S \ {x}
  <2>1. x.at <= y.at /\ x.at \in Nat /\ y.at \in Nat /\ x.id \in Nat /\ y.id \in Nat
    BY <1>1, <1>2, <1>4
  <2>2. CASE y.at = x.at
    <3>1. x.id <= y.id
      BY <1>3, <1>4, <2>2
    <3>2. x.id # y.id
      BY <1>1, <2>2
    <3> QED
      BY <2>1, <2>2, <3>1, <3>2 DEF Before
  <2> QED
    BY <2>1, <2>2 DEF Before
<1> QED
  BY <1>5 DEF First

-----------------------------------------------------------------------------
(* The levels of a walk.                                                    *)

Expand(R, dir, F) == IF dir = "forward" THEN Children(R, F) ELSE Parents(R, F)
LevelOf(R, q, dir, d, before) == IF d = 0 THEN {q.start} ELSE Expand(R, dir, before)
IsLevels(R, q, dir, at) == at = [d \in 0..q.depth |-> LevelOf(R, q, dir, d, at[d - 1])]
Levels(R, q, dir) == CHOOSE at : IsLevels(R, q, dir, at)
StepsTo(q, at, i) == CHOOSE d \in 1..q.depth : i \in at[d] /\ \A e \in 1..(d - 1) : i \notin at[e]

LEMMA ReachedIs ==
  ASSUME NEW R, NEW q, NEW dir
  PROVE  Reached(R, q, dir) =
           {[id |-> i, at |-> StepsTo(q, Levels(R, q, dir), i)] :
              i \in UNION {Levels(R, q, dir)[d] : d \in 1..q.depth}}
BY DEF Reached, StepsTo, Levels, IsLevels, LevelOf, Expand

\* They can be made from the first one down.
LEMMA LevelsExist ==
  ASSUME NEW R, NEW q, NEW dir, q.depth \in Nat
  PROVE  \A d \in 0..q.depth :
           Levels(R, q, dir)[d] = LevelOf(R, q, dir, d, Levels(R, q, dir)[d - 1])
<1> DEFINE n == q.depth
           Part(g, k) == g = [d \in 0..k |-> LevelOf(R, q, dir, d, g[d - 1])]
           Missing == {k \in 0..n : ~ \E g : Part(g, k)}
<1>1. n \in Nat
  OBVIOUS
<1>2. Missing = {}
  <2> SUFFICES ASSUME Missing # {} PROVE FALSE
    OBVIOUS
  <2>1. PICK k \in Missing : \A e \in Missing : k <= e
    <3>1. Missing \subseteq Nat
      BY <1>1
    <3> HIDE DEF Missing
    <3> QED
      BY <3>1, LeastNumber
  <2>2. k \in 0..n /\ ~ \E g : Part(g, k)
    OBVIOUS
  <2>3. CASE k = 0
    <3> DEFINE g == [d \in 0..0 |-> {q.start}]
    <3>1. \A d \in 0..0 : LevelOf(R, q, dir, d, g[d - 1]) = {q.start}
      BY DEF LevelOf
    <3>2. g = [d \in 0..0 |-> LevelOf(R, q, dir, d, g[d - 1])]
      BY <3>1
    <3>3. Part(g, 0)
      BY <3>2
    <3> QED
      BY <2>2, <2>3, <3>3
  <2>4. CASE k # 0
    <3>1. k \in 1..n /\ k - 1 \in 0..n
      BY <1>1, <2>2, <2>4
    <3>2. k - 1 \notin Missing
      <4>1. ~ (k <= k - 1)
        BY <1>1, <3>1
      <4> HIDE DEF Missing
      <4> QED
        BY <2>1, <4>1
    <3>3. PICK g : Part(g, k - 1)
      BY <3>1, <3>2
    <3> DEFINE h == [d \in 0..k |-> LevelOf(R, q, dir, d, g[d - 1])]
    <3>4. \A d \in 0..(k - 1) : g[d] = LevelOf(R, q, dir, d, g[d - 1])
      BY <3>3
    <3>5. \A d \in 0..k : h[d] = LevelOf(R, q, dir, d, g[d - 1])
      OBVIOUS
    <3> HIDE DEF Part, Missing
    <3>6. \A d \in 0..(k - 1) : d \in 0..k
      BY <3>1
    <3>7. \A d \in 0..(k - 1) : h[d] = g[d]
      BY <3>4, <3>5, <3>6
    <3>8. \A d \in 0..k : h[d] = LevelOf(R, q, dir, d, h[d - 1])
      <4> TAKE d \in 0..k
      <4>1. CASE d = 0
        BY <3>5, <4>1 DEF LevelOf
      <4>2. CASE d # 0
        <5>1. d - 1 \in 0..(k - 1)
          BY <3>1, <4>2
        <5>2. h[d - 1] = g[d - 1]
          BY <3>7, <5>1
        <5> HIDE DEF h
        <5> QED
          BY <3>5, <5>2
      <4> QED
        BY <4>1, <4>2
    <3>9. h = [d \in 0..k |-> LevelOf(R, q, dir, d, h[d - 1])]
      BY <3>8
    <3>10. Part(h, k)
      BY <3>9 DEF Part
    <3> QED
      BY <2>2, <3>10
  <2> QED
    BY <2>3, <2>4
<1>3. n \in 0..n /\ n \notin Missing
  BY <1>1, <1>2
<1>4. PICK g : Part(g, n)
  BY <1>3
<1>5. IsLevels(R, q, dir, g)
  BY <1>4 DEF IsLevels
<1>6. IsLevels(R, q, dir, Levels(R, q, dir))
  BY <1>5 DEF Levels
<1> QED
  BY <1>6 DEF IsLevels

\* Each level holds the children, or the parents, of the one before.
AreLevels(q, R, dir, l) ==
  /\ q.depth \in Nat /\ q.start \in Id
  /\ l[0] = {q.start}
  /\ \A d \in 1..q.depth : l[d] = Expand(R, dir, l[d - 1])
  /\ \A d \in 0..q.depth : l[d] \subseteq Id

LEMMA LevelsAre ==
  ASSUME NEW R \in SUBSET Row, NEW q \in Query, q.kind = "walk", NEW dir
  PROVE  AreLevels(q, R, dir, Levels(R, q, dir))
<1>1. q.depth \in Nat /\ q.start \in Id
  BY QueryAssumption
<1> DEFINE at == Levels(R, q, dir)
<1>2. \A d \in 0..q.depth : at[d] = LevelOf(R, q, dir, d, at[d - 1])
  BY <1>1, LevelsExist
<1> HIDE DEF at
<1>3. at[0] = {q.start}
  BY <1>1, <1>2 DEF LevelOf
<1>4. \A d \in 1..q.depth : at[d] = Expand(R, dir, at[d - 1])
  BY <1>1, <1>2 DEF LevelOf
<1>5. Ids(R) \subseteq Id
  BY DEF Ids, Row
<1>6. \A F : Expand(R, dir, F) \subseteq Id
  BY <1>5 DEF Expand, Children, Parents
<1>7. \A d \in 0..q.depth : at[d] \subseteq Id
  <2> TAKE d \in 0..q.depth
  <2>1. CASE d = 0
    BY <1>1, <1>3, <2>1
  <2>2. CASE d # 0
    <3>1. d \in 1..q.depth
      BY <1>1, <2>2
    <3> QED
      BY <1>4, <1>6, <3>1
  <2> QED
    BY <2>1, <2>2
<1> QED
  BY <1>1, <1>3, <1>4, <1>7 DEF at, AreLevels

\* An event is reached in one way, at one of the levels that hold it.
LEMMA ReachedItems ==
  ASSUME NEW R \in SUBSET Row, NEW q \in Query, q.kind = "walk", NEW dir
  PROVE  /\ Reached(R, q, dir) \subseteq Item
         /\ Ids(Reached(R, q, dir)) = UNION {Levels(R, q, dir)[d] : d \in 1..q.depth}
         /\ \A x, y \in Reached(R, q, dir) : x.id = y.id => x = y
<1> DEFINE at == Levels(R, q, dir)
           all == UNION {at[d] : d \in 1..q.depth}
<1>1. q.depth \in Nat /\ \A d \in 0..q.depth : at[d] \subseteq Id
  BY LevelsAre DEF AreLevels
<1>2. \A d \in 1..q.depth : at[d] \subseteq Id
  BY <1>1
<1>3. Reached(R, q, dir) = {[id |-> i, at |-> StepsTo(q, at, i)] : i \in all}
  BY ReachedIs
<1> HIDE DEF at
<1>4. ASSUME NEW i \in all PROVE i \in Id /\ StepsTo(q, at, i) \in Nat
  <2> DEFINE D == {d \in 1..q.depth : i \in at[d]}
  <2>1. D \subseteq Nat /\ D # {}
    BY <1>1
  <2>2. PICK d \in D : \A e \in D : d <= e
    BY <2>1, LeastNumber
  <2>3. d \in 1..q.depth /\ i \in at[d]
    OBVIOUS
  <2>4. \A e \in 1..(d - 1) : e \in 1..q.depth /\ ~ (d <= e)
    BY <1>1, <2>3
  <2>5. \A e \in 1..(d - 1) : i \notin at[e]
    BY <2>2, <2>4
  <2>6. StepsTo(q, at, i) \in 1..q.depth
    BY <2>3, <2>5 DEF StepsTo
  <2>7. i \in Id
    BY <1>2, <2>3
  <2> QED
    BY <1>1, <2>6, <2>7
<1> HIDE DEF all
<1>5. Reached(R, q, dir) \subseteq Item
  BY <1>3, <1>4 DEF Item
<1>6. \A x \in Reached(R, q, dir) : x.id \in all /\ x = [id |-> x.id, at |-> StepsTo(q, at, x.id)]
  BY <1>3
<1>7. \A i \in all : \E x \in Reached(R, q, dir) : x.id = i
  <2> TAKE i \in all
  <2>1. [id |-> i, at |-> StepsTo(q, at, i)] \in Reached(R, q, dir)
    BY <1>3
  <2> QED
    BY <2>1
<1>8. Ids(Reached(R, q, dir)) = all
  <2> HIDE DEF Ids
  <2>1. \A i : i \in Ids(Reached(R, q, dir)) <=> \E x \in Reached(R, q, dir) : x.id = i
    BY DEF Ids
  <2> QED
    BY <1>6, <1>7, <2>1
<1> QED
  BY <1>5, <1>6, <1>8 DEF all, at

-----------------------------------------------------------------------------
(* The store.                                                               *)

\* Finite sets of rows have a greatest version.
Bounded(R) == \E n \in Nat : \A r \in R : r.version <= n

LEMMA FiniteBounded ==
  ASSUME NEW R \in SUBSET Row, IsFiniteSet(R)
  PROVE  Bounded(R)
<1>1. PICK n \in Nat : \E f \in [1..n -> R] : \A r \in R : \E i \in 1..n : f[i] = r
  <2>1. PICK n \in Nat : ExistsBijection(1..n, R)
    BY FS_NatBijection
  <2>2. PICK f : f \in Bijection(1..n, R)
    BY <2>1 DEF ExistsBijection
  <2>3. f \in [1..n -> R] /\ \A r \in R : \E i \in 1..n : f[i] = r
    BY <2>2 DEF Bijection, Injection, Surjection
  <2> QED
    BY <2>3
<1> PICK f \in [1..n -> R] : \A r \in R : \E i \in 1..n : f[i] = r
  BY <1>1
<1>2. \A i \in 1..n : f[i].version \in Nat
  BY DEF Row
<1> DEFINE Below(k) == \E m \in Nat : \A i \in 1..k : f[i].version <= m
           Missing == {k \in 0..n : ~ Below(k)}
<1>3. Missing = {}
  <2> SUFFICES ASSUME Missing # {} PROVE FALSE
    OBVIOUS
  <2>1. PICK k \in Missing : \A e \in Missing : k <= e
    <3>1. Missing \subseteq Nat
      OBVIOUS
    <3> HIDE DEF Missing
    <3> QED
      BY <3>1, LeastNumber
  <2>2. k \in 0..n /\ ~ Below(k)
    OBVIOUS
  <2>3. k # 0
    <3>1. Below(0)
      <4>1. \A i \in 1..0 : f[i].version <= 0
        OBVIOUS
      <4> QED
        BY <4>1
    <3> QED
      BY <2>2, <3>1
  <2>4. k \in 1..n /\ k - 1 \in 0..n
    BY <2>2, <2>3
  <2>5. k - 1 \notin Missing
    <3>1. ~ (k <= k - 1)
      BY <2>4
    <3> HIDE DEF Missing
    <3> QED
      BY <2>1, <3>1
  <2>6. PICK m \in Nat : \A i \in 1..(k - 1) : f[i].version <= m
    BY <2>4, <2>5
  <2> DEFINE g == IF f[k].version <= m THEN m ELSE f[k].version
  <2>7. g \in Nat /\ m <= g /\ f[k].version <= g
    <3>1. f[k].version \in Nat
      BY <1>2, <2>4
    <3> HIDE DEF Below, Missing
    <3> QED
      BY <3>1
  <2> HIDE DEF g, Below, Missing
  <2>8. \A i \in 1..k : f[i].version <= g
    <3> TAKE i \in 1..k
    <3>1. i \in 1..n /\ (i = k \/ i \in 1..(k - 1))
      BY <2>4
    <3> QED
      BY <1>2, <2>6, <2>7, <3>1
  <2> QED
    BY <2>2, <2>7, <2>8 DEF Below
<1>4. n \in 0..n
  OBVIOUS
<1>5. Below(n)
  BY <1>3, <1>4
<1> HIDE DEF Missing
<1> QED
  BY <1>5 DEF Bounded

\* The tables, and the histories of a query.
StoreOK ==
  /\ rows \subseteq Row
  /\ \A r, s \in rows : r.id = s.id \/ (r.stream = s.stream /\ r.version = s.version) => r = s
  /\ Bounded(rows)
  /\ throughout \subseteq rows
  /\ rows \subseteq ever \/ pc = "idle"
  /\ ever \subseteq Row

LEMMA InitStore == Init => StoreOK
<1> SUFFICES ASSUME Init PROVE StoreOK
  OBVIOUS
<1>1. Bounded(rows)
  BY FiniteBounded, RowAssumption DEF Init
<1> QED
  BY <1>1, RowAssumption DEF Init, StoreOK

LEMMA AppendStore ==
  ASSUME StoreOK, NEW i \in Id, NEW s \in Stream, AppendEvent(i, s)
  PROVE  StoreOK'
<1> DEFINE versions == {r.version : r \in {x \in rows : x.stream = s}}
           v == IF versions = {} THEN 0 ELSE Max(versions) + 1
           row == [id |-> i, stream |-> s, version |-> v]
<1>1. rows' = rows \cup {row} /\ ever' = ever \cup {row} /\ i \notin Ids(rows)
      /\ throughout' = throughout /\ pc' = pc
  BY DEF AppendEvent, reader
<1>2. \A r \in rows : r.version \in Nat
  BY DEF StoreOK, Row
<1>3. PICK n \in Nat : \A r \in rows : r.version <= n
  BY DEF StoreOK, Bounded
<1>4. v \in Nat /\ \A r \in rows : r.stream = s => r.version < v
  <2>1. CASE versions = {}
    BY <2>1
  <2>2. CASE versions # {}
    <3>1. versions \subseteq Nat /\ \A x \in versions : x <= n
      BY <1>2, <1>3
    <3>2. Max(versions) \in versions /\ \A y \in versions : y <= Max(versions)
      BY <2>2, <3>1, GreatestNumber
    <3>3. Max(versions) \in Nat /\ v = Max(versions) + 1
      BY <2>2, <3>1, <3>2
    <3>4. \A r \in rows : r.stream = s => r.version \in versions
      OBVIOUS
    <3> HIDE DEF versions, v
    <3> QED
      BY <1>2, <3>2, <3>3, <3>4
  <2> QED
    BY <2>1, <2>2
<1> HIDE DEF v, versions
<1>5. row \in Row
  BY <1>4 DEF Row
<1>6. \A r \in rows : r.id # i
  BY <1>1 DEF Ids
<1>7. \A r, t \in rows' : r.id = t.id \/ (r.stream = t.stream /\ r.version = t.version) => r = t
  <2>1. \A r \in rows : r.id # row.id /\ ~ (r.stream = row.stream /\ r.version = row.version)
    BY <1>2, <1>4, <1>6
  <2> HIDE DEF row
  <2> QED
    BY <1>1, <2>1 DEF StoreOK
<1>8. Bounded(rows')
  <2> DEFINE m == IF v <= n THEN n ELSE v
  <2>1. m \in Nat /\ n <= m /\ v <= m /\ row.version = v
    BY <1>4
  <2> HIDE DEF m, row
  <2>2. \A r \in rows' : r.version <= m
    BY <1>1, <1>2, <1>3, <1>4, <2>1
  <2> QED
    BY <2>1, <2>2 DEF Bounded
<1> HIDE DEF row
<1> QED
  BY <1>1, <1>5, <1>7, <1>8 DEF StoreOK

\* The reader changes no row.
LEMMA ReaderStore ==
  ASSUME StoreOK, UNCHANGED store, pc # "idle"
  PROVE  StoreOK'
BY DEF StoreOK, store, Bounded

LEMMA Steps ==
  ASSUME [Next]_vars
  PROVE  \/ \E i \in Id, s \in Stream : AppendEvent(i, s)
         \/ \E r \in rows : PurgeEvent(r)
         \/ \E u \in Upcaster : RegisterUpcaster(u)
         \/ \E q \in Query, h \in {"whole", "pages", "iterator"} : Ask(q, h)
         \/ ReadRange \/ ReadBatch \/ ReadByCorrelation
         \/ \E b \in Budget : ReadRangeBounded(b) \/ ReadByCorrelationBounded(b)
         \/ WalkWhole
         \/ \E b \in Budget : ReadAggregate(b)
         \/ \E b \in Budget : StartWalk(b)
         \/ ExpandForward \/ ExpandBackward \/ YieldLevel \/ EndWalk
         \/ UpcastPage \/ Take \/ Finish \/ Fail \/ AskAgain
         \/ UNCHANGED vars
BY Zenon DEF Next, ReadStep

LEMMA NextStore ==
  ASSUME StoreOK, [Next]_vars
  PROVE  StoreOK'
<1>1. ASSUME NEW i \in Id, NEW s \in Stream, AppendEvent(i, s) PROVE StoreOK'
  BY <1>1, AppendStore
<1>2. ASSUME NEW r \in rows, PurgeEvent(r) PROVE StoreOK'
  BY <1>2 DEF PurgeEvent, StoreOK, Bounded, reader
<1>3. ASSUME NEW u \in Upcaster, RegisterUpcaster(u) PROVE StoreOK'
  BY <1>3 DEF RegisterUpcaster, StoreOK, Bounded, reader
<1>4. ASSUME NEW q \in Query, NEW h, Ask(q, h) PROVE StoreOK'
  BY <1>4 DEF Ask, StoreOK, Bounded
<1>5. CASE UNCHANGED vars
  BY <1>5 DEF vars, store, reader, StoreOK, Bounded
<1>6. ASSUME UNCHANGED store, pc # "idle" PROVE StoreOK'
  BY <1>6, ReaderStore
<1>7. ASSUME ReadRange \/ ReadBatch \/ ReadByCorrelation \/ WalkWhole \/ ExpandForward
             \/ ExpandBackward \/ YieldLevel \/ EndWalk \/ UpcastPage \/ Take \/ Finish \/ Fail
             \/ AskAgain
      PROVE  StoreOK'
  <2>1. UNCHANGED store /\ pc # "idle"
    BY <1>7 DEF ReadRange, ReadBatch, ReadByCorrelation, Fetch, WalkWhole, ExpandForward,
         ExpandBackward, YieldLevel, EndWalk, UpcastPage, Take, Finish, Fail, AskAgain
  <2> QED
    BY <1>6, <2>1
<1>8. ASSUME NEW b, ReadRangeBounded(b) \/ ReadByCorrelationBounded(b) \/ ReadAggregate(b)
                    \/ StartWalk(b)
      PROVE  StoreOK'
  <2>1. UNCHANGED store /\ pc # "idle"
    BY <1>8 DEF ReadRangeBounded, ReadByCorrelationBounded, Fetch, ReadAggregate, StartWalk
  <2> QED
    BY <1>6, <2>1
<1> QED
  BY <1>1, <1>2, <1>3, <1>4, <1>5, <1>7, <1>8, Steps

\* A reader has one query.
LEMMA QueryStays ==
  ASSUME [Next]_vars, pc # "idle"
  PROVE  query' = query /\ pc' # "idle"
<1>1. ASSUME NEW b, ReadRangeBounded(b) \/ ReadByCorrelationBounded(b) \/ ReadAggregate(b)
                    \/ StartWalk(b)
      PROVE  query' = query /\ pc' # "idle"
  BY <1>1 DEF ReadRangeBounded, ReadByCorrelationBounded, Fetch, ReadAggregate, StartWalk
<1>2. ASSUME ReadRange \/ ReadBatch \/ ReadByCorrelation \/ WalkWhole \/ ExpandForward
             \/ ExpandBackward \/ YieldLevel \/ EndWalk \/ UpcastPage \/ Take \/ Finish \/ Fail
             \/ AskAgain
      PROVE  query' = query /\ pc' # "idle"
  BY <1>2 DEF ReadRange, ReadBatch, ReadByCorrelation, Fetch, WalkWhole, ExpandForward,
     ExpandBackward, YieldLevel, EndWalk, UpcastPage, Take, Finish, Fail, AskAgain
<1>3. ASSUME NEW i, NEW s, AppendEvent(i, s) PROVE UNCHANGED reader
  BY <1>3 DEF AppendEvent
<1>4. ASSUME NEW r, PurgeEvent(r) PROVE UNCHANGED reader
  BY <1>4 DEF PurgeEvent
<1>5. ASSUME NEW u, RegisterUpcaster(u) PROVE UNCHANGED reader
  BY <1>5 DEF RegisterUpcaster
<1>6. UNCHANGED reader => query' = query /\ pc' = pc
  BY DEF reader
<1>7. ASSUME NEW q, NEW h, Ask(q, h) PROVE FALSE
  BY <1>7 DEF Ask
<1>8. UNCHANGED vars => UNCHANGED reader
  BY DEF vars
<1> QED
  BY <1>1, <1>2, <1>3, <1>4, <1>5, <1>6, <1>7, <1>8, Steps

-----------------------------------------------------------------------------
(* The reader.                                                              *)

Walking == {"expanding", "returning", "expanded"}

\* Only bounded ranges, correlations and walks have tokens.
TokenOK(token) ==
  /\ how # "whole"
  /\ query.kind \in {"range", "correlation", "walk"}
  /\ query.kind = "range" => token.next \in Nat
  /\ query.kind = "correlation" => token.after \in Nat
  /\ query.kind = "walk" => token.frontier \subseteq Id /\ token.depth \in Nat

ReaderTypes ==
  /\ query \in Query \cup {None}
  /\ how \in {None, "whole", "pages", "iterator"}
  /\ pc \in Place
  /\ page \subseteq Item
  /\ buffer \subseteq Item
  /\ taken \in Seq(Item)
  /\ frontier \subseteq Id /\ level \subseteq Id /\ seen \subseteq Id
  /\ depth \in Nat

\* What the place of the reader says of the rest.
PlaceOK ==
  /\ pc # "idle" => query \in Query /\ (query.kind = "batch" => how = "whole")
  /\ pc \in Walking => query.kind = "walk" /\ how # "whole" /\ depth >= 1
  /\ pc = "merging" => query.kind = "walk" /\ query.direction = "both" /\ how = "whole"
  /\ buffer # {} => pc \in {"ready", "last"}
  /\ page # {} => pc \in Walking \cup {"merging", "fetched"}
  /\ more # None => pc = "fetched" /\ TokenOK(more)
  /\ cursor # None => pc # "idle" /\ TokenOK(cursor)
  /\ cursor = None /\ pc \notin {"last", "ended"} => taken = <<>> /\ buffer = {}

ReaderOK == StoreOK /\ ReaderTypes /\ PlaceOK

LEMMA ItemsAre ==
  ASSUME StoreOK
  PROVE  /\ \A q \in Query : Results(q, rows) \subseteq Item
         /\ Ids(rows) \subseteq Id
<1>1. \A r \in rows : r.id \in Id /\ r.version \in Nat
  BY DEF StoreOK, Row
<1>2. \A q \in Query : \A r \in rows : Result(q, r) \in Item
  BY <1>1 DEF Result, Item
<1> QED
  BY <1>1, <1>2 DEF Results, Ids

\* The rows that a page is cut from.
Pageable == FromCursor(query, Selected(rows, query))

LEMMA PageableAre ==
  ASSUME StoreOK, query \in Query, query.kind \in {"range", "correlation", "batch"}
  PROVE  Selected(rows, query) \subseteq rows /\ Pageable \subseteq rows
<1>1. Selected(rows, query) \subseteq rows
  BY DEF Selected
<1> QED
  BY <1>1 DEF Pageable, FromCursor

\* Ranges, correlations and batches are one statement, from the token on.
LEMMA FetchIs ==
  ASSUME ReaderOK,
         \/ ReadRange \/ ReadBatch \/ ReadByCorrelation
         \/ \E b \in Budget : ReadRangeBounded(b) \/ ReadByCorrelationBounded(b)
  PROVE  /\ pc = "ready" /\ buffer = {} /\ query \in Query
         /\ query.kind \in {"range", "correlation", "batch"}
         /\ query.kind = "batch" => how = "whole"
         /\ Results(query, Pageable) \subseteq Item
         /\ \/ how = "whole" /\ Pageable = Selected(rows, query)
               /\ \E b : Fetch(Results(query, Pageable), b)
            \/ \E b \in Budget : Fetch(Results(query, Pageable), b)
<1>1. pc = "ready"
  BY DEF ReadRange, ReadBatch, ReadByCorrelation, ReadRangeBounded, ReadByCorrelationBounded
<1>2. query \in Query /\ (query.kind = "batch" => how = "whole")
  BY <1>1 DEF ReaderOK, PlaceOK
<1>3. query.kind \in {"range", "correlation", "batch"}
  BY DEF ReadRange, ReadBatch, ReadByCorrelation, ReadRangeBounded, ReadByCorrelationBounded
<1>4. how = "whole" => cursor = None /\ buffer = {} /\ Pageable = Selected(rows, query)
  BY <1>1 DEF ReaderOK, PlaceOK, TokenOK, Pageable, FromCursor
<1>5. buffer = {}
  BY <1>2, <1>4 DEF ReadRange, ReadBatch, ReadByCorrelation, ReadRangeBounded,
       ReadByCorrelationBounded
<1>6. Results(query, Pageable) \subseteq Item
  BY <1>2, <1>3, PageableAre, ItemsAre DEF ReaderOK, Results
<1>7. CASE ReadRange \/ ReadBatch \/ ReadByCorrelation
  <2>1. how = "whole"
    BY <1>2, <1>7 DEF ReadRange, ReadBatch, ReadByCorrelation
  <2>2. \E b : Fetch(Results(query, Selected(rows, query)), b)
    BY <1>7 DEF ReadRange, ReadBatch, ReadByCorrelation
  <2>3. \E b : Fetch(Results(query, Pageable), b)
    BY <1>4, <2>1, <2>2
  <2> QED
    BY <1>1, <1>2, <1>3, <1>4, <1>5, <1>6, <2>1, <2>3
<1>8. CASE \E b \in Budget : ReadRangeBounded(b) \/ ReadByCorrelationBounded(b)
  <2>1. \E b \in Budget : Fetch(Results(query, Pageable), b)
    BY <1>8 DEF ReadRangeBounded, ReadByCorrelationBounded, Pageable
  <2> QED
    BY <1>1, <1>2, <1>3, <1>5, <1>6, <2>1
<1> QED
  BY <1>7, <1>8

\* A page that leaves something out ends before the first event that it leaves out.
LEMMA CutIs ==
  ASSUME NEW M \in SUBSET Item, NEW P \in SUBSET M, NEW b, IsPage(P, M, b), P # M
  PROVE  /\ First(M \ P) \in M \ P
         /\ \A x \in P : Before(x, First(M \ P))
         /\ \A x \in M \ P : x = First(M \ P) \/ Before(First(M \ P), x)
         /\ P # {} /\ (\A x \in P : x.at = 0) /\ First(M \ P).at = 0 =>
              Max(Ids(P)) \in Nat /\ Max(Ids(P)) \in Ids(P) /\ \A x \in P : x.id <= Max(Ids(P))
<1> DEFINE f == First(M \ P)
<1>1. f \in M \ P /\ \A x \in (M \ P) \ {f} : Before(f, x)
  <2>1. M \ P \in SUBSET Item /\ M \ P # {}
    OBVIOUS
  <2> QED
    BY <2>1, FirstIs
<1>2. \A x \in P : Before(x, f)
  BY <1>1 DEF IsPage
<1> HIDE DEF f
<1>3. ASSUME P # {}, \A x \in P : x.at = 0, f.at = 0
      PROVE  Max(Ids(P)) \in Nat /\ Max(Ids(P)) \in Ids(P) /\ \A x \in P : x.id <= Max(Ids(P))
  <2>1. f.id \in Nat /\ \A x \in P : x.id \in Nat /\ x.id <= f.id
    <3>1. f \in Item /\ \A x \in P : x \in Item
      BY <1>1
    <3>2. f.id \in Nat /\ \A x \in P : x.id \in Nat
      BY <3>1, ItemIs
    <3> QED
      BY <1>2, <1>3, <3>2 DEF Before
  <2>2. Ids(P) \in SUBSET Nat /\ Ids(P) # {} /\ (\A i \in Ids(P) : i <= f.id)
        /\ \A x \in P : x.id \in Ids(P)
    BY <1>3, <2>1 DEF Ids
  <2>3. Max(Ids(P)) \in Ids(P) /\ \A y \in Ids(P) : y <= Max(Ids(P))
    BY <2>1, <2>2, GreatestNumber
  <2> QED
    BY <2>2, <2>3
<1> QED
  BY <1>1, <1>2, <1>3 DEF f

LEMMA ResultsAt ==
  ASSUME NEW R, query.kind # "range"
  PROVE  \A x \in Results(query, R) : x.at = 0
BY DEF Results, Result

LEMMA CursorType ==
  ASSUME NEW M \in SUBSET Item, NEW P \in SUBSET M, NEW b, IsPage(P, M, b), P # M,
         query.kind # "range" => \A x \in M : x.at = 0
  PROVE  /\ query.kind = "range" => CursorAfter(query, P, M).next \in Nat
         /\ query.kind # "range" => CursorAfter(query, P, M).after \in Nat
<1>1. First(M \ P) \in M \ P
  BY CutIs
<1>2. First(M \ P).at \in Nat
  BY <1>1, ItemIs
<1>3. query.kind = "range" => CursorAfter(query, P, M).next \in Nat
  BY <1>2 DEF CursorAfter
<1>4. ASSUME query.kind # "range" PROVE CursorAfter(query, P, M).after \in Nat
  <2>1. CASE P = {}
    BY <1>4, <2>1 DEF CursorAfter
  <2>2. CASE P # {}
    <3>1. Max(Ids(P)) \in Nat
      BY <1>1, <1>4, <2>2, CutIs
    <3> QED
      BY <1>4, <2>2, <3>1 DEF CursorAfter
  <2> QED
    BY <2>1, <2>2
<1> QED
  BY <1>3, <1>4

LEMMA FetchTypes ==
  ASSUME ReaderOK,
         \/ ReadRange \/ ReadBatch \/ ReadByCorrelation
         \/ \E b \in Budget : ReadRangeBounded(b) \/ ReadByCorrelationBounded(b)
  PROVE  ReaderTypes' /\ PlaceOK'
<1> DEFINE M == Results(query, Pageable)
<1>1. PICK b : Fetch(M, b)
  BY FetchIs
<1>2. /\ pc = "ready" /\ buffer = {} /\ query \in Query
      /\ query.kind \in {"range", "correlation", "batch"}
      /\ query.kind = "batch" => how = "whole"
      /\ M \subseteq Item
  BY FetchIs
<1>3. query.kind # "range" => \A x \in M : x.at = 0
  BY ResultsAt
<1> HIDE DEF M
<1>4. PICK P \in SUBSET M :
        /\ IsPage(P, M, b)
        /\ page' = P
        /\ more' = IF how = "whole" THEN None ELSE CursorAfter(query, P, M)
        /\ complete' = (P = M)
  BY <1>1 DEF Fetch
<1>5. /\ pc' = "fetched"
      /\ UNCHANGED <<query, how, cursor, buffer, taken, frontier, level, seen, depth>>
  BY <1>1 DEF Fetch, walk
<1>6. more' # None => TokenOK(more)'
  <2> SUFFICES ASSUME more' # None PROVE TokenOK(more)'
    OBVIOUS
  <2>1. how # "whole" /\ more' = CursorAfter(query, P, M) /\ P # M
    BY <1>4 DEF CursorAfter
  <2>2. /\ query.kind = "range" => CursorAfter(query, P, M).next \in Nat
        /\ query.kind # "range" => CursorAfter(query, P, M).after \in Nat
    BY <1>2, <1>3, <1>4, <2>1, CursorType
  <2> QED
    BY <1>2, <1>5, <2>1, <2>2 DEF TokenOK
<1>7. ReaderTypes'
  BY <1>2, <1>4, <1>5 DEF ReaderOK, ReaderTypes, Place
<1>8. cursor' # None => TokenOK(cursor)'
  BY <1>5 DEF ReaderOK, PlaceOK, TokenOK
<1> QED
  BY <1>2, <1>5, <1>6, <1>7, <1>8 DEF ReaderOK, PlaceOK, Walking

\* A level that is yielded is one of events, and a token names it.
LEMMA YieldIs ==
  ASSUME ReaderOK, YieldLevel
  PROVE  LET new == Sampled(level \ seen, query)
             with == page \cup {[id |-> i, at |-> depth] : i \in new}
         IN  /\ new \subseteq level \ seen
             /\ with \subseteq Item
             /\ pc = "expanded" /\ query.kind = "walk" /\ how # "whole" /\ depth \in Nat \ {0}
             /\ buffer = {}
             /\ level' = {} /\ UNCHANGED <<store, query, how, cursor, buffer, budget, taken>>
             /\ \/ /\ new = {} /\ pc' = "fetched" /\ more' = None /\ complete' = TRUE
                   /\ UNCHANGED <<page, frontier, seen, depth>>
                \/ /\ new # {} /\ page # {} /\ pc' = "fetched" /\ complete' = FALSE
                   /\ more' = [frontier |-> frontier, depth |-> depth - 1]
                   /\ UNCHANGED <<page, frontier, seen, depth>>
                \/ /\ new # {} /\ pc' = "expanding"
                   /\ page' = with /\ seen' = seen \cup new /\ frontier' = new
                   /\ depth' = depth + 1 /\ UNCHANGED <<more, complete>>
<1> DEFINE new == Sampled(level \ seen, query)
           with == page \cup {[id |-> i, at |-> depth] : i \in new}
<1>1. pc = "expanded"
  BY DEF YieldLevel
<1>2. query.kind = "walk" /\ how # "whole" /\ depth \in Nat \ {0} /\ buffer = {}
  BY <1>1 DEF ReaderOK, PlaceOK, Walking, ReaderTypes
<1>3. new \subseteq level \ seen
  BY DEF Sampled
<1>4. with \subseteq Item
  <2>1. \A i \in new : [id |-> i, at |-> depth] \in Item
    BY <1>2, <1>3 DEF ReaderOK, ReaderTypes, Item
  <2> QED
    BY <2>1 DEF ReaderOK, ReaderTypes
<1> DEFINE exceeds == TooMany(with, budget) \/ TooLarge(with, budget)
<1>5. /\ IF new = {} \/ (exceeds /\ page # {})
         THEN /\ pc' = "fetched"
              /\ complete' = (new = {})
              /\ more' = IF new = {} THEN None ELSE [frontier |-> frontier, depth |-> depth - 1]
              /\ UNCHANGED <<page, frontier, seen, depth>>
         ELSE /\ page' = with
              /\ seen' = seen \cup new
              /\ frontier' = new
              /\ depth' = depth + 1
              /\ pc' = "expanding"
              /\ UNCHANGED <<more, complete>>
      /\ level' = {}
      /\ UNCHANGED <<store, query, how, cursor, buffer, budget, taken>>
  BY DEF YieldLevel
<1> HIDE DEF new, with, exceeds
<1>6. \/ /\ new = {} /\ pc' = "fetched" /\ more' = None /\ complete' = TRUE
         /\ UNCHANGED <<page, frontier, seen, depth>>
      \/ /\ new # {} /\ page # {} /\ pc' = "fetched" /\ complete' = FALSE
         /\ more' = [frontier |-> frontier, depth |-> depth - 1]
         /\ UNCHANGED <<page, frontier, seen, depth>>
      \/ /\ new # {} /\ pc' = "expanding"
         /\ page' = with /\ seen' = seen \cup new /\ frontier' = new
         /\ depth' = depth + 1 /\ UNCHANGED <<more, complete>>
  BY <1>5
<1> QED
  BY <1>1, <1>2, <1>3, <1>4, <1>5, <1>6 DEF new, with

LEMMA WalkTypes ==
  ASSUME ReaderOK,
         \/ WalkWhole
         \/ \E b \in Budget : StartWalk(b)
         \/ ExpandForward \/ ExpandBackward \/ YieldLevel \/ EndWalk
  PROVE  ReaderTypes' /\ PlaceOK'
<1> USE DEF ReaderOK, ReaderTypes, PlaceOK, TokenOK, Walking, Place
<1>1. Ids(rows) \subseteq Id /\ rows \subseteq Row
  BY ItemsAre DEF StoreOK
<1>2. CASE WalkWhole
  <2>1. query \in Query /\ query.kind = "walk" /\ how = "whole" /\ buffer = {}
    BY <1>2 DEF WalkWhole
  <2>2. \A dir : Reached(rows, query, dir) \subseteq Item
    BY <1>1, <2>1, ReachedItems
  <2>3. /\ UNCHANGED <<query, how, cursor, more, buffer, walk, taken>>
        /\ \/ /\ pc = "ready" /\ query.direction # "both"
              /\ page' = Reached(rows, query, query.direction)
              /\ pc' = "fetched"
           \/ /\ pc = "ready" /\ query.direction = "both"
              /\ page' = Reached(rows, query, "forward")
              /\ pc' = "merging"
           \/ /\ pc = "merging"
              /\ page' = page \cup
                   {[x EXCEPT !.at = @ + query.depth] :
                      x \in {y \in Reached(rows, query, "backward") : y.id \notin Ids(page)}}
              /\ pc' = "fetched"
    BY <1>2 DEF WalkWhole
  <2>4. page' \subseteq Item
    <3>1. query.depth \in Nat
      BY <2>1, QueryAssumption
    <3>2. \A x \in Item : [x EXCEPT !.at = @ + query.depth] \in Item
      BY <3>1 DEF Item
    <3>3. \A x \in Reached(rows, query, "backward") : [x EXCEPT !.at = @ + query.depth] \in Item
      BY <2>2, <3>2
    <3> QED
      BY <2>2, <2>3, <3>3
  <2>5. pc \in {"ready", "merging"} /\ (pc' = "fetched" \/ (pc' = "merging" /\ query.direction = "both"))
    BY <2>3
  <2> QED
    BY <2>1, <2>3, <2>4, <2>5 DEF walk
<1>3. ASSUME NEW b \in Budget, StartWalk(b) PROVE ReaderTypes' /\ PlaceOK'
  <2>1. query \in Query /\ query.kind = "walk" /\ query.start \in Id
    BY <1>3, QueryAssumption DEF StartWalk
  <2>2. cursor # None => cursor.frontier \subseteq Id /\ cursor.depth \in Nat
    BY <2>1
  <2>3. frontier' \subseteq Id /\ seen' \subseteq Id /\ depth' \in Nat /\ depth' >= 1
    BY <1>3, <2>1, <2>2 DEF StartWalk
  <2> QED
    BY <1>3, <2>1, <2>3 DEF StartWalk
<1>4. CASE ExpandForward \/ ExpandBackward
  <2>1. level' \subseteq Id
    BY <1>1, <1>4 DEF ExpandForward, ExpandBackward, Children, Parents
  <2>2. pc \in Walking /\ pc' \in Walking
    BY <1>4 DEF ExpandForward, ExpandBackward
  <2>3. UNCHANGED <<query, how, cursor, page, more, buffer, frontier, seen, depth, taken>>
    BY <1>4 DEF ExpandForward, ExpandBackward
  <2> QED
    BY <2>1, <2>2, <2>3
<1>5. CASE YieldLevel
  <2> DEFINE new == Sampled(level \ seen, query)
             with == page \cup {[id |-> i, at |-> depth] : i \in new}
  <2>1. /\ new \subseteq level \ seen
        /\ with \subseteq Item
        /\ pc = "expanded" /\ query.kind = "walk" /\ how # "whole" /\ depth \in Nat \ {0}
        /\ buffer = {}
        /\ level' = {} /\ UNCHANGED <<store, query, how, cursor, buffer, budget, taken>>
        /\ \/ /\ new = {} /\ pc' = "fetched" /\ more' = None /\ complete' = TRUE
              /\ UNCHANGED <<page, frontier, seen, depth>>
           \/ /\ new # {} /\ page # {} /\ pc' = "fetched" /\ complete' = FALSE
              /\ more' = [frontier |-> frontier, depth |-> depth - 1]
              /\ UNCHANGED <<page, frontier, seen, depth>>
           \/ /\ new # {} /\ pc' = "expanding"
              /\ page' = with /\ seen' = seen \cup new /\ frontier' = new
              /\ depth' = depth + 1 /\ UNCHANGED <<more, complete>>
    BY <1>5, YieldIs
  <2> HIDE DEF new, with
  <2>2. more' # None => TokenOK(more)'
    <3>1. depth - 1 \in Nat
      BY <2>1
    <3> QED
      BY <2>1, <3>1
  <2> QED
    BY <2>1, <2>2
<1>6. CASE EndWalk
  BY <1>6 DEF EndWalk, walk
<1> QED
  BY <1>2, <1>3, <1>4, <1>5, <1>6

LEMMA TakeIs ==
  ASSUME ReaderOK, Take
  PROVE  \E f \in buffer :
           /\ f \in Item
           /\ ~ ByTime => \A y \in buffer \ {f} : Before(f, y)
           /\ taken' = Append(taken, f) /\ taken' \in Seq(Item)
           /\ buffer' = buffer \ {f}
<1>1. buffer \in SUBSET Item /\ taken \in Seq(Item)
  BY DEF ReaderOK, ReaderTypes
<1>2. PICK f \in Foremost(buffer) : taken' = Append(taken, f) /\ buffer' = buffer \ {f}
  BY DEF Take
<1>3. f \in buffer /\ (~ ByTime => \A y \in buffer \ {f} : Before(f, y))
  BY <1>2 DEF Foremost
<1>4. taken' \in Seq(Item)
  BY <1>1, <1>2, <1>3
<1> QED
  BY <1>1, <1>2, <1>3, <1>4

LEMMA PageTypes ==
  ASSUME ReaderOK,
         \/ \E q \in Query, h \in {"whole", "pages", "iterator"} : Ask(q, h)
         \/ \E b \in Budget : ReadAggregate(b)
         \/ UpcastPage \/ Take \/ Finish \/ Fail \/ AskAgain
  PROVE  ReaderTypes' /\ PlaceOK'
<1> USE DEF ReaderOK, ReaderTypes, PlaceOK, TokenOK, Walking, Place
<1>1. ASSUME NEW q \in Query, NEW h \in {"whole", "pages", "iterator"}, Ask(q, h)
      PROVE  ReaderTypes' /\ PlaceOK'
  BY <1>1 DEF Ask, walk
<1>2. ASSUME NEW b \in Budget, ReadAggregate(b) PROVE ReaderTypes' /\ PlaceOK'
  <2>1. /\ pc = "ready" /\ query.kind = "aggregate" /\ query \in Query
        /\ UNCHANGED <<query, how, cursor, page, more, walk, taken>>
    BY <1>2 DEF ReadAggregate
  <2>2. cursor = None /\ more = None /\ page = {}
    BY <2>1
  <2>3. \/ pc' \in {"spinning", "failed"} /\ buffer' = buffer
        \/ pc' = "last" /\ \E R \in SUBSET rows : buffer' = Results(query, R)
    <3>1. Selected(rows, query) \subseteq rows
      BY <2>1 DEF Selected
    <3>2. PICK R \in SUBSET Selected(rows, query) : \E C :
            IF UpcastHangs(R \cup C) THEN pc' = "spinning" /\ UNCHANGED <<buffer, complete>>
            ELSE IF UpcastFails(R \cup C) THEN pc' = "failed" /\ UNCHANGED <<buffer, complete>>
            ELSE /\ pc' = "last"
                 /\ buffer' = Results(query, {r \in R : Matches(query.pattern, r.stream)})
                 /\ complete' = (C = {})
      BY <1>2 DEF ReadAggregate
    <3>3. {r \in R : Matches(query.pattern, r.stream)} \in SUBSET rows
      BY <3>1
    <3> QED
      BY <3>2, <3>3
  <2>4. buffer' \subseteq Item
    <3>1. \A R \in SUBSET rows : Results(query, R) \subseteq Results(query, rows)
      BY DEF Results
    <3>2. Results(query, rows) \subseteq Item
      BY <2>1, ItemsAre
    <3> QED
      BY <2>3, <3>1, <3>2
  <2> QED
    BY <2>1, <2>2, <2>3, <2>4 DEF walk
<1>3. CASE UpcastPage
  BY <1>3 DEF UpcastPage, walk
<1>4. CASE Take
  <2>1. taken' \in Seq(Item) /\ buffer' \subseteq buffer
    BY <1>4, TakeIs
  <2> QED
    BY <1>4, <2>1 DEF Take, walk
<1>5. CASE Finish \/ Fail \/ AskAgain
  BY <1>5 DEF Finish, Fail, AskAgain, walk
<1> QED
  BY <1>1, <1>2, <1>3, <1>4, <1>5

LEMMA NextReader ==
  ASSUME ReaderOK, [Next]_vars
  PROVE  ReaderOK'
<1>1. StoreOK'
  BY NextStore DEF ReaderOK
<1>2. ASSUME UNCHANGED reader PROVE ReaderTypes' /\ PlaceOK'
  BY <1>2 DEF reader, walk, ReaderOK, ReaderTypes, PlaceOK, TokenOK
<1>3. ASSUME NEW i, NEW s, AppendEvent(i, s) PROVE UNCHANGED reader
  BY <1>3 DEF AppendEvent
<1>4. ASSUME NEW r, PurgeEvent(r) PROVE UNCHANGED reader
  BY <1>4 DEF PurgeEvent
<1>5. ASSUME NEW u, RegisterUpcaster(u) PROVE UNCHANGED reader
  BY <1>5 DEF RegisterUpcaster
<1>6. UNCHANGED vars => UNCHANGED reader
  BY DEF vars
<1> QED
  BY <1>1, <1>2, <1>3, <1>4, <1>5, <1>6, Steps, FetchTypes, WalkTypes, PageTypes DEF ReaderOK

LEMMA InitReader == Init => ReaderOK
<1> SUFFICES ASSUME Init PROVE ReaderOK
  OBVIOUS
<1>1. ReaderTypes
  BY DEF Init, ReaderTypes, Place
<1>2. PlaceOK
  BY DEF Init, PlaceOK, Walking
<1> QED
  BY <1>1, <1>2, InitStore DEF ReaderOK

\* What the statements read and return has its type, whatever others write meanwhile.
THEOREM TypeCorrect == Spec => []TypeOK
<1>1. ReaderOK => TypeOK
  BY DEF ReaderOK, StoreOK, ReaderTypes, TypeOK
<1> QED
  BY <1>1, InitReader, NextReader, PTL DEF Spec
-----------------------------------------------------------------------------
(* The order of the pages.                                                  *)

Given == {taken[i] : i \in 1..Len(taken)}

\* What a token leaves behind, and what it leads to.
Behind(q, token, x) ==
  CASE q.kind = "range" -> x.at < token.next
    [] q.kind = "correlation" -> x.at = 0 /\ x.id <= token.after
    [] OTHER -> x.at <= token.depth
Beyond(q, token, y) ==
  CASE q.kind = "range" -> y.at >= token.next
    [] q.kind = "correlation" -> y.at = 0 /\ y.id > token.after
    [] OTHER -> y.at > token.depth

\* A budget lets at least one event through. The code accepts a max_results of 0.
BudgetsLetOneThrough == \A b \in Budget : b.results # None => b.results \in Nat \ {0}

\* What was taken comes before what is still in the buffer, ...
Placed == pc # "idle" /\ ~ ByTime => \A x \in Given, y \in buffer : Before(x, y)
\* ... and, in whatever order, each result was handed over once.
OnceEach ==
  /\ \A i, j \in 1..Len(taken) : i < j => taken[i] # taken[j]
  /\ \A x \in Given : x \notin buffer

\* What was handed over is behind the token that is asked with next, and a page is
\* beyond the token that it was asked with.
OrderOK ==
  /\ PagesAscend /\ Placed /\ OnceEach
  /\ cursor # None /\ pc \notin {"last", "ended"} => \A x \in Given \cup buffer : Behind(query, cursor, x)
  /\ cursor # None => \A y \in page : Beyond(query, cursor, y)
  /\ more # None => \A x \in Given \cup buffer \cup page : Behind(query, more, x)
  /\ pc \in Walking => /\ \A x \in page : x.at < depth
                       /\ cursor # None => cursor.depth < depth

LEMMA GivenItems ==
  ASSUME ReaderOK
  PROVE  Given \subseteq Item /\ Given \cup buffer \subseteq Item /\ (taken = <<>> => Given = {})
<1>1. taken \in Seq(Item) /\ buffer \subseteq Item
  BY DEF ReaderOK, ReaderTypes
<1>2. Given \subseteq Item
  BY <1>1 DEF Given
<1>3. taken = <<>> => Given = {}
  BY DEF Given
<1> QED
  BY <1>1, <1>2, <1>3

LEMMA AcrossToken ==
  ASSUME NEW token, TokenOK(token), NEW x \in Item, NEW y \in Item,
         Behind(query, token, x), Beyond(query, token, y)
  PROVE  Before(x, y)
<1>1. x.id \in Nat /\ x.at \in Nat /\ y.id \in Nat /\ y.at \in Nat
  BY ItemIs
<1>2. CASE query.kind = "range"
  BY <1>1, <1>2 DEF Behind, Beyond, Before, TokenOK
<1>3. CASE query.kind = "correlation"
  BY <1>1, <1>3 DEF Behind, Beyond, Before, TokenOK
<1>4. CASE query.kind = "walk"
  BY <1>1, <1>4 DEF Behind, Beyond, Before, TokenOK
<1> QED
  BY <1>2, <1>3, <1>4 DEF TokenOK

\* A page that is cut ends with an event, if the budget lets one through.
LEMMA NotEmpty ==
  ASSUME NEW M \in SUBSET Item, NEW b, IsPage({}, M, b), M # {},
         b.results # None => b.results \in Nat \ {0}
  PROVE  FALSE
<1> DEFINE f == First(M)
<1>1. ~ Fits({f}, b)
  <2>1. M \ {} = M /\ {} \cup {f} = {f}
    OBVIOUS
  <2> HIDE DEF f
  <2>2. f = First(M \ {})
    BY <2>1 DEF f
  <2> QED
    BY <2>1, <2>2 DEF IsPage
<1> HIDE DEF f
<1>2. Cardinality({f}) = 1
  BY FS_Singleton
<1> QED
  BY <1>1, <1>2 DEF Fits, TooMany

LEMMA PageableIs ==
  ASSUME StoreOK, query \in Query, query.kind \in {"range", "correlation"}
  PROVE  /\ \A y \in Results(query, Pageable) : cursor # None => Beyond(query, cursor, y)
         /\ query.kind = "range" =>
              \A x, y \in Results(query, Pageable) : x.at = y.at => x = y
         /\ query.kind = "correlation" => \A x \in Results(query, Pageable) : x.at = 0
<1>1. Selected(rows, query) \subseteq rows /\ Pageable \subseteq rows
  BY PageableAre
<1>2. CASE query.kind = "range"
  <2>1. \A r \in Pageable : r.stream = query.stream /\ r \in rows
                            /\ (cursor # None => r.version >= cursor.next)
    BY <1>1, <1>2 DEF Pageable, FromCursor, Selected
  <2>2. \A x \in Results(query, Pageable) :
          \E r \in Pageable : x = [id |-> r.id, at |-> r.version]
    BY <1>2 DEF Results, Result
  <2>3. \A y \in Results(query, Pageable) : cursor # None => Beyond(query, cursor, y)
    BY <1>2, <2>1, <2>2 DEF Beyond
  <2>4. \A x, y \in Results(query, Pageable) : x.at = y.at => x = y
    <3> TAKE x, y \in Results(query, Pageable)
    <3> HAVE x.at = y.at
    <3>1. PICK r \in Pageable : x = [id |-> r.id, at |-> r.version]
      BY <2>2
    <3>2. PICK s \in Pageable : y = [id |-> s.id, at |-> s.version]
      BY <2>2
    <3>3. r \in rows /\ s \in rows /\ r.stream = s.stream /\ r.version = s.version
      BY <2>1, <3>1, <3>2
    <3>4. r = s
      BY <3>3 DEF StoreOK
    <3> QED
      BY <3>1, <3>2, <3>4
  <2> QED
    BY <1>2, <2>3, <2>4
<1>3. CASE query.kind = "correlation"
  <2>1. \A r \in Pageable : cursor # None => r.id > cursor.after
    BY <1>3 DEF Pageable, FromCursor
  <2>2. \A x \in Results(query, Pageable) : \E r \in Pageable : x = [id |-> r.id, at |-> 0]
    BY <1>3 DEF Results, Result
  <2> QED
    BY <1>3, <2>1, <2>2 DEF Beyond
<1> QED
  BY <1>2, <1>3

\* A bounded page is beyond the token before it and behind the one after it.
LEMMA FetchOrder ==
  ASSUME ReaderOK, OrderOK, BudgetsLetOneThrough,
         \/ ReadRange \/ ReadBatch \/ ReadByCorrelation
         \/ \E b \in Budget : ReadRangeBounded(b) \/ ReadByCorrelationBounded(b)
  PROVE  OrderOK'
<1> DEFINE M == Results(query, Pageable)
           Handed == Given \cup buffer
<1>1. /\ pc = "ready" /\ buffer = {} /\ query \in Query
      /\ query.kind \in {"range", "correlation", "batch"}
      /\ query.kind = "batch" => how = "whole"
      /\ M \subseteq Item
  BY FetchIs
<1>2. PICK b : Fetch(M, b) /\ (how # "whole" => b \in Budget)
  <2>1. CASE how = "whole"
    BY <2>1, FetchIs
  <2>2. CASE how # "whole"
    BY <2>2, FetchIs
  <2> QED
    BY <2>1, <2>2
<1>3. Handed \subseteq Item /\ (cursor = None => Handed = {})
  BY <1>1, GivenItems DEF ReaderOK, PlaceOK
<1>4. cursor # None => TokenOK(cursor) /\ \A x \in Handed : Behind(query, cursor, x)
  BY <1>1 DEF OrderOK, ReaderOK, PlaceOK
<1>5. query.kind \in {"range", "correlation"} =>
        /\ \A y \in M : cursor # None => Beyond(query, cursor, y)
        /\ query.kind = "range" => \A x, y \in M : x.at = y.at => x = y
        /\ query.kind = "correlation" => \A x \in M : x.at = 0
  BY <1>1, PageableIs DEF ReaderOK
<1> HIDE DEF M
<1>6. PICK P \in SUBSET M :
        /\ IsPage(P, M, b)
        /\ page' = P
        /\ more' = IF how = "whole" THEN None ELSE CursorAfter(query, P, M)
  BY <1>2 DEF Fetch
<1>7. pc' = "fetched" /\ UNCHANGED <<query, how, cursor, buffer, taken, depth>>
  BY <1>2 DEF Fetch, walk
<1>8. how # "whole" => (b.results # None => b.results \in Nat \ {0})
  BY <1>2 DEF BudgetsLetOneThrough
<1>9. cursor # None => query.kind \in {"range", "correlation"}
  BY <1>1, <1>4 DEF TokenOK
<1>10. ASSUME cursor # None, NEW x \in Handed, NEW y \in M PROVE Before(x, y)
  <2>1. x \in Item /\ y \in Item /\ Behind(query, cursor, x) /\ Beyond(query, cursor, y)
    BY <1>1, <1>3, <1>4, <1>5, <1>9, <1>10
  <2> QED
    BY <1>4, <1>10, <2>1, AcrossToken
<1>11. ASSUME more' # None, NEW x \in Handed \cup P PROVE Behind(query, more', x)
  <2> DEFINE f == First(M \ P)
  <2>1. how # "whole" /\ more' = CursorAfter(query, P, M) /\ P # M
    BY <1>6, <1>11 DEF CursorAfter
  <2>2. query.kind \in {"range", "correlation"}
    BY <1>1, <2>1
  <2>3. f \in M \ P /\ \A z \in P : Before(z, f)
    BY <1>1, <1>6, <2>1, CutIs
  <2>4. P # {}
    BY <1>1, <1>6, <1>8, <2>1, NotEmpty
  <2>5. x \in Item /\ f \in Item /\ \A z \in P : z \in Item
    BY <1>1, <1>3, <2>3
  <2>6. /\ f.at \in Nat /\ f.id \in Nat /\ x.at \in Nat /\ x.id \in Nat
        /\ \A z \in P : z.at \in Nat /\ z.id \in Nat
    BY <2>5, ItemIs
  <2>7. CASE query.kind = "range"
    <3>1. more'.next = f.at
      BY <2>1, <2>7 DEF CursorAfter
    <3>2. CASE x \in P
      <4>1. Before(x, f) /\ (x.at = f.at => x = f) /\ x # f
        BY <1>5, <2>3, <2>7, <3>2
      <4>2. x.at < f.at
        BY <2>6, <4>1 DEF Before
      <4> QED
        BY <2>7, <3>1, <4>2 DEF Behind
    <3>3. CASE x \in Handed
      <4>1. cursor # None /\ cursor.next \in Nat
        BY <1>3, <1>4, <2>7, <3>3 DEF TokenOK
      <4>2. x.at < cursor.next /\ f.at >= cursor.next
        BY <1>4, <1>5, <2>3, <2>7, <3>3, <4>1 DEF Behind, Beyond
      <4>3. x.at < f.at
        BY <2>6, <4>1, <4>2
      <4> QED
        BY <2>7, <3>1, <4>3 DEF Behind
    <3> QED
      BY <3>2, <3>3
  <2>8. CASE query.kind = "correlation"
    <3>1. more'.after = Max(Ids(P))
      BY <2>1, <2>4, <2>8 DEF CursorAfter
    <3>2. \A z \in M : z.at = 0
      BY <1>5, <2>8
    <3>3. Max(Ids(P)) \in Nat /\ Max(Ids(P)) \in Ids(P) /\ \A z \in P : z.id <= Max(Ids(P))
      BY <1>1, <1>6, <2>1, <2>3, <2>4, <3>2, CutIs
    <3>4. CASE x \in P
      BY <2>8, <3>1, <3>2, <3>3, <3>4 DEF Behind
    <3>5. CASE x \in Handed
      <4>1. cursor # None /\ cursor.after \in Nat
        BY <1>3, <1>4, <2>8, <3>5 DEF TokenOK
      <4>2. PICK z \in P : TRUE
        BY <2>4
      <4>3. x.at = 0 /\ x.id <= cursor.after /\ z.id > cursor.after /\ z.id \in Nat
        BY <1>4, <1>5, <2>6, <2>8, <3>5, <4>1 DEF Behind, Beyond
      <4>4. x.id <= Max(Ids(P))
        BY <2>6, <3>3, <4>1, <4>3
      <4> QED
        BY <2>8, <3>1, <4>3, <4>4 DEF Behind
    <3> QED
      BY <3>4, <3>5
  <2> QED
    BY <2>2, <2>7, <2>8
<1>12. cursor' # None => \A y \in page' : Beyond(query, cursor, y)'
  BY <1>5, <1>6, <1>7, <1>9 DEF Beyond
<1>13. cursor' # None => \A x \in (Given \cup buffer)' : Behind(query, cursor, x)'
  BY <1>4, <1>7 DEF Behind, Given
<1>14. more' # None => \A x \in (Given \cup buffer \cup page)' : Behind(query, more, x)'
  BY <1>6, <1>7, <1>11 DEF Behind, Given
<1>15. PagesAscend' /\ Placed' /\ OnceEach'
  BY <1>1, <1>7 DEF OrderOK, PagesAscend, Placed, OnceEach, ByTime, Given
<1> QED
  BY <1>7, <1>12, <1>13, <1>14, <1>15 DEF OrderOK, Walking
LEMMA WalkOrder ==
  ASSUME ReaderOK, OrderOK,
         \/ WalkWhole
         \/ \E b \in Budget : StartWalk(b)
         \/ ExpandForward \/ ExpandBackward \/ YieldLevel \/ EndWalk
  PROVE  OrderOK'
<1> DEFINE Handed == Given \cup buffer
<1>1. /\ UNCHANGED <<query, how, cursor, buffer, taken>>
      /\ buffer = {} \/ pc = "ready"
      /\ pc \notin {"idle", "last", "ended"} /\ query.kind = "walk"
  BY DEF WalkWhole, StartWalk, ExpandForward, ExpandBackward, YieldLevel, EndWalk, walk,
     ReaderOK, PlaceOK, Walking
<1>2. Handed \subseteq Item /\ (cursor = None => Handed = {})
  BY <1>1, GivenItems DEF ReaderOK, PlaceOK
<1>3. cursor # None => TokenOK(cursor) /\ cursor.depth \in Nat /\ \A x \in Handed : x.at <= cursor.depth
  BY <1>1 DEF OrderOK, ReaderOK, PlaceOK, TokenOK, Behind
<1>4. \A x \in Handed : x.at \in Nat
  BY <1>2, ItemIs
<1>5. /\ PagesAscend' /\ Placed' /\ OnceEach'
      /\ cursor' # None => \A x \in (Given \cup buffer)' : Behind(query, cursor, x)'
  BY <1>1 DEF OrderOK, PagesAscend, Placed, OnceEach, ByTime, Given, Behind
<1>6. depth \in Nat /\ page \subseteq Item
  BY DEF ReaderOK, ReaderTypes
<1>7. CASE WalkWhole
  <2>1. how = "whole" /\ cursor = None /\ more = None /\ more' = None /\ pc' \notin Walking
    BY <1>7 DEF WalkWhole, ReaderOK, PlaceOK, TokenOK, Walking
  <2> QED
    BY <1>1, <1>5, <2>1 DEF OrderOK
<1>8. CASE \E b \in Budget : StartWalk(b)
  <2>1. /\ page = {} /\ more = None /\ page' = {} /\ more' = None
        /\ depth' = IF cursor = None THEN 1 ELSE cursor.depth + 1
    BY <1>8 DEF StartWalk, ReaderOK, PlaceOK, Walking
  <2>2. cursor # None => cursor.depth < depth'
    BY <1>3, <2>1
  <2> QED
    BY <1>1, <1>5, <2>1, <2>2 DEF OrderOK
<1>9. CASE ExpandForward \/ ExpandBackward
  <2>1. pc \in Walking /\ UNCHANGED <<page, more, depth>>
    BY <1>9 DEF ExpandForward, ExpandBackward, Walking
  <2>2. more = None
    BY <2>1 DEF ReaderOK, PlaceOK, Walking
  <2> QED
    BY <1>1, <1>5, <2>1, <2>2 DEF OrderOK, Beyond
<1>10. CASE EndWalk
  <2>1. UNCHANGED page /\ more' = None /\ pc' \notin Walking
    BY <1>10 DEF EndWalk, Walking
  <2> QED
    BY <1>1, <1>5, <2>1 DEF OrderOK, Beyond
<1>11. CASE YieldLevel
  <2> DEFINE new == Sampled(level \ seen, query)
             with == page \cup {[id |-> i, at |-> depth] : i \in new}
  <2>1. /\ pc = "expanded" /\ depth \in Nat \ {0}
        /\ with \subseteq Item
        /\ \/ /\ more' = None /\ pc' = "fetched" /\ page' = page
           \/ /\ more' = [frontier |-> frontier, depth |-> depth - 1]
              /\ pc' = "fetched" /\ page' = page
           \/ /\ pc' = "expanding" /\ page' = with /\ depth' = depth + 1 /\ more' = more
    BY <1>11, YieldIs
  <2>2. /\ \A x \in page : x.at < depth /\ x.at \in Nat
        /\ cursor # None => cursor.depth < depth
        /\ more = None
    BY <1>6, <2>1, ItemIs DEF OrderOK, Walking, ReaderOK, PlaceOK
  <2>3. \A y \in with : y.at <= depth /\ (cursor # None => y.at > cursor.depth)
    <3>1. cursor # None => \A y \in page : y.at > cursor.depth
      BY <1>1 DEF OrderOK, Beyond
    <3>2. \A y \in with : y \in page \/ y.at = depth
      OBVIOUS
    <3> HIDE DEF with
    <3> QED
      BY <1>6, <2>2, <3>1, <3>2
  <2>4. CASE pc' = "expanding" /\ page' = with /\ depth' = depth + 1 /\ more' = more
    <3> HIDE DEF with
    <3>1. \A y \in page' : y.at < depth'
      <4>1. \A y \in with : y.at \in Nat
        BY <2>1, ItemIs
      <4> QED
        BY <1>6, <2>3, <2>4, <4>1
    <3>2. cursor' # None => cursor'.depth < depth' /\ \A y \in page' : Beyond(query, cursor, y)'
      BY <1>1, <1>3, <1>6, <2>2, <2>3, <2>4 DEF Beyond
    <3> QED
      BY <1>5, <2>2, <2>4, <3>1, <3>2 DEF OrderOK
  <2>5. CASE pc' = "fetched" /\ page' = page
    <3>1. cursor' # None => \A y \in page' : Beyond(query, cursor, y)'
      BY <1>1, <2>5 DEF OrderOK, Beyond
    <3>2. ASSUME more' = [frontier |-> frontier, depth |-> depth - 1]
          PROVE  \A x \in (Given \cup buffer \cup page)' : Behind(query, more, x)'
      <4>1. more'.depth = depth - 1
        BY <3>2
      <4>2. \A x \in Handed \cup page : x.at <= depth - 1
        <5>1. \A x \in page : x.at <= depth - 1
          BY <1>6, <2>2
        <5>2. \A x \in Handed : x.at <= depth - 1
          <6> HIDE DEF Handed
          <6> QED
            BY <1>2, <1>3, <1>4, <1>6, <2>2
        <5> QED
          BY <5>1, <5>2
      <4>3. (Given \cup buffer \cup page)' = Handed \cup page
        BY <1>1, <2>5 DEF Given
      <4> HIDE DEF Handed
      <4> QED
        BY <1>1, <4>1, <4>2, <4>3 DEF Behind
    <3>3. more' # None => \A x \in (Given \cup buffer \cup page)' : Behind(query, more, x)'
      BY <2>1, <2>2, <2>5, <3>2
    <3> QED
      BY <1>5, <2>5, <3>1, <3>3 DEF OrderOK, Walking
  <2> QED
    BY <2>1, <2>4, <2>5
<1> QED
  BY <1>7, <1>8, <1>9, <1>10, <1>11

\* A page is handed over after the one before it, and taken in its order, if it has one.
LEMMA PageOrder ==
  ASSUME ReaderOK, OrderOK,
         \/ \E q \in Query, h \in {"whole", "pages", "iterator"} : Ask(q, h)
         \/ \E b \in Budget : ReadAggregate(b)
         \/ UpcastPage \/ Take \/ Finish \/ Fail \/ AskAgain
  PROVE  OrderOK'
<1>1. ASSUME NEW q, NEW h, Ask(q, h) PROVE OrderOK'
  <2>1. /\ pc = "idle" /\ pc' = "ready"
        /\ UNCHANGED <<cursor, page, more, buffer, taken>>
    BY <1>1 DEF Ask
  <2>2. cursor = None /\ more = None /\ taken = <<>>
    BY <2>1 DEF ReaderOK, PlaceOK
  <2>3. Given' = {} /\ Len(taken') = 0
    BY <2>1, <2>2 DEF Given
  <2> QED
    BY <2>1, <2>2, <2>3 DEF OrderOK, PagesAscend, Placed, OnceEach, Walking
<1>2. ASSUME NEW b, ReadAggregate(b) PROVE OrderOK'
  <2>1. /\ pc = "ready" /\ query.kind = "aggregate"
        /\ pc' \in {"spinning", "failed", "last"}
        /\ UNCHANGED <<cursor, page, more, taken>>
    BY <1>2 DEF ReadAggregate
  <2>2. cursor = None /\ more = None /\ taken = <<>>
    BY <2>1 DEF ReaderOK, PlaceOK, TokenOK
  <2>3. Given' = {} /\ Len(taken') = 0
    BY <2>1, <2>2 DEF Given
  <2>4. PagesAscend' /\ Placed' /\ OnceEach'
    BY <2>3 DEF PagesAscend, Placed, OnceEach
  <2> QED
    BY <2>1, <2>2, <2>3, <2>4 DEF OrderOK, Walking
<1>3. CASE UpcastPage
  <2>1. /\ pc = "fetched" /\ page' = {} /\ more' = None
        /\ UNCHANGED <<query, how, taken>>
        /\ \/ pc' \in {"spinning", "failed"} /\ UNCHANGED <<cursor, buffer>>
           \/ buffer' = page /\ more = None /\ pc' = "last" /\ UNCHANGED cursor
           \/ buffer' = page /\ more # None /\ pc' = "ready" /\ cursor' = more
    BY <1>3 DEF UpcastPage
  <2>2. /\ pc' \notin Walking /\ PagesAscend' /\ Given' = Given
        /\ \A i, j \in 1..Len(taken') : i < j => taken'[i] # taken'[j]
    BY <2>1 DEF Walking, OrderOK, PagesAscend, OnceEach, ByTime, Given
  <2>3. buffer = {} /\ (cursor = None => Given = {}) /\ (cursor # None => TokenOK(cursor))
    BY <2>1, GivenItems DEF ReaderOK, PlaceOK
  <2>4. CASE pc' \in {"spinning", "failed"} /\ UNCHANGED <<cursor, buffer>>
    BY <2>1, <2>2, <2>3, <2>4 DEF OrderOK, Placed, OnceEach, Behind
  <2>5. CASE /\ buffer' = page
             /\ (more = None /\ pc' = "last") \/ (more # None /\ cursor' = more)
    <3>1. Placed' /\ OnceEach'
      <4> SUFFICES ASSUME NEW x \in Given, NEW y \in page PROVE Before(x, y) /\ x # y
        BY <2>2, <2>5 DEF Placed, OnceEach
      <4>1. cursor # None /\ TokenOK(cursor)
        BY <2>3
      <4>2. Behind(query, cursor, x) /\ Beyond(query, cursor, y)
        BY <2>1, <4>1 DEF OrderOK
      <4>3. x \in Item /\ y \in Item
        BY GivenItems DEF ReaderOK, ReaderTypes
      <4>4. Before(x, y)
        BY <4>1, <4>2, <4>3, AcrossToken
      <4>5. x.at \in Nat /\ x.id \in Nat
        BY <4>3, ItemIs
      <4> QED
        BY <4>4, <4>5 DEF Before
    <3>2. CASE more = None /\ pc' = "last"
      BY <2>1, <2>2, <2>5, <3>1, <3>2 DEF OrderOK
    <3>3. CASE more # None /\ cursor' = more
      <4>1. \A x \in (Given \cup buffer)' : Behind(query, cursor, x)'
        BY <2>1, <2>2, <2>5, <3>3 DEF OrderOK, Behind
      <4> QED
        BY <2>1, <2>2, <3>1, <4>1 DEF OrderOK
    <3> QED
      BY <2>1, <2>5, <3>2, <3>3
  <2> QED
    BY <2>1, <2>4, <2>5
<1>4. CASE Take
  <2>1. PICK f \in buffer :
          /\ f \in Item
          /\ ~ ByTime => \A y \in buffer \ {f} : Before(f, y)
          /\ taken' = Append(taken, f)
          /\ buffer' = buffer \ {f}
    BY <1>4, TakeIs
  <2>2. pc # "idle" /\ UNCHANGED <<query, how, pc, cursor, page, more, depth>>
    BY <1>4 DEF Take, walk
  <2>3. taken \in Seq(Item)
    BY DEF ReaderOK, ReaderTypes
  <2>4. /\ Len(taken') = Len(taken) + 1
        /\ \A i \in 1..Len(taken) : taken'[i] = taken[i]
        /\ taken'[Len(taken) + 1] = f
    BY <2>1, <2>3
  <2>5. Len(taken) \in Nat
    BY <2>3
  <2>6. \A x \in Given' : x \in Given \/ x = f
    <3> SUFFICES ASSUME NEW i \in 1..Len(taken') PROVE taken'[i] \in Given \/ taken'[i] = f
      BY DEF Given
    <3>1. i \in 1..Len(taken) \/ i = Len(taken) + 1
      BY <2>4, <2>5
    <3> QED
      BY <2>4, <3>1 DEF Given
  <2>7. /\ \A x \in Given : ~ ByTime => Before(x, f)
        /\ \A x \in Given : x # f
    BY <2>1, <2>2 DEF OrderOK, Placed, OnceEach
  <2>8. ASSUME NEW i \in 1..Len(taken'), NEW j \in 1..Len(taken'), i < j
        PROVE  taken'[i] # taken'[j] /\ (~ ByTime => Before(taken'[i], taken'[j]))
    <3>1. i \in 1..Len(taken) /\ taken'[i] = taken[i]
      BY <2>4, <2>5, <2>8
    <3>2. CASE j \in 1..Len(taken)
      BY <2>2, <2>4, <2>8, <3>1, <3>2 DEF OrderOK, PagesAscend, OnceEach
    <3>3. CASE j = Len(taken) + 1
      BY <2>4, <2>7, <3>1, <3>3 DEF Given
    <3> QED
      BY <2>4, <2>5, <3>2, <3>3
  <2>9. ByTime' = ByTime
    BY <2>2 DEF ByTime
  <2>10. PagesAscend'
    BY <2>8, <2>9 DEF PagesAscend
  <2>11. Placed'
    BY <2>1, <2>2, <2>6, <2>9 DEF OrderOK, Placed
  <2>12. OnceEach'
    BY <2>1, <2>6, <2>8 DEF OrderOK, OnceEach
  <2>13. \A x \in (Given \cup buffer)' : x \in Given \cup buffer
    BY <2>1, <2>6
  <2> QED
    BY <2>2, <2>10, <2>11, <2>12, <2>13 DEF OrderOK, Behind, Beyond
<1>5. CASE Finish \/ Fail \/ AskAgain
  BY <1>5 DEF Finish, Fail, AskAgain, walk, OrderOK, PagesAscend, Placed, OnceEach, ByTime, Given, Behind, Beyond, Walking,
     ReaderOK, PlaceOK
<1> QED
  BY <1>1, <1>2, <1>3, <1>4, <1>5

LEMMA NextOrder ==
  ASSUME ReaderOK, OrderOK, [Next]_vars,
         BudgetsLetOneThrough \/ pc = "idle" \/ query.kind = "walk"
  PROVE  OrderOK'
<1>1. ASSUME UNCHANGED reader PROVE OrderOK'
  BY <1>1 DEF reader, walk, OrderOK, PagesAscend, Placed, OnceEach, ByTime, Given, Behind, Beyond, Walking
<1>2. ASSUME NEW i, NEW s, AppendEvent(i, s) PROVE UNCHANGED reader
  BY <1>2 DEF AppendEvent
<1>3. ASSUME NEW r, PurgeEvent(r) PROVE UNCHANGED reader
  BY <1>3 DEF PurgeEvent
<1>4. ASSUME NEW u, RegisterUpcaster(u) PROVE UNCHANGED reader
  BY <1>4 DEF RegisterUpcaster
<1>5. UNCHANGED vars => UNCHANGED reader
  BY DEF vars
<1>6. ASSUME \/ ReadRange \/ ReadBatch \/ ReadByCorrelation
             \/ \E b \in Budget : ReadRangeBounded(b) \/ ReadByCorrelationBounded(b)
      PROVE  OrderOK'
  <2>1. pc = "ready" /\ query.kind \in {"range", "correlation", "batch"}
    BY <1>6, FetchIs
  <2>2. BudgetsLetOneThrough
    BY <2>1
  <2> QED
    BY <1>6, <2>2, FetchOrder
<1> QED
  BY <1>1, <1>2, <1>3, <1>4, <1>5, <1>6, Steps, WalkOrder, PageOrder

\* Whatever is appended or purged between the pages of a read that goes by versions, ids or
\* levels, they never go back or repeat, when every budget lets an event through.
THEOREM PagesAscendHolds == BudgetsLetOneThrough => (Spec => []PagesAscend)
<1> SUFFICES ASSUME BudgetsLetOneThrough PROVE Spec => []PagesAscend
  OBVIOUS
<1>1. Init => OrderOK
  BY DEF Init, OrderOK, PagesAscend, Placed, OnceEach, Given, Walking
<1>2. OrderOK => PagesAscend
  BY DEF OrderOK
<1>3. ReaderOK /\ OrderOK /\ [Next]_vars => ReaderOK' /\ OrderOK'
  BY NextReader, NextOrder
<1> QED
  BY <1>1, <1>2, <1>3, InitReader, PTL DEF Spec
-----------------------------------------------------------------------------
(* A walk in one direction.                                                 *)

Root(q) == [id |-> q.start, at |-> 0]

\* The step of a walk from one event to the next.
Leads(q, j, i) == IF q.direction = "forward" THEN Cause[i] = j ELSE Cause[j] = i

\* Every event of H is a step away from another one of H, a level up, or from the start.
Lineage(q, H) == \A x \in H : \E p \in H \cup {Root(q)} : x.at = p.at + 1 /\ Leads(q, p.id, x.id)
IdsAt(q, H, d) == {x.id : x \in {y \in H \cup {Root(q)} : y.at = d}}

\* Forward, an event has one cause: two levels of it would be two of its cause, and so
\* on to the start, which is not among its own consequences.
LEMMA ForwardUnique ==
  ASSUME NEW H \in SUBSET Item, query.start \in Id, query.direction = "forward", Lineage(query, H)
  PROVE  /\ \A x, y \in H : x.id = y.id => x = y
         /\ \A x \in H : x.id # query.start
<1>1. /\ \A x \in H : x.id \in Id /\ x.at \in Nat /\ x = [id |-> x.id, at |-> x.at]
      /\ Root(query).id = query.start /\ Root(query).at = 0
  BY ItemIs DEF Root
<1>2. \A x \in H : \E p \in H \cup {Root(query)} : x.at = p.at + 1 /\ Cause[x.id] = p.id
  BY DEF Lineage, Leads
<1>3. \A x \in H : x.id # query.start
  <2> SUFFICES ASSUME NEW x \in H, x.id = query.start PROVE FALSE
    OBVIOUS
  <2> DEFINE S == {y.id : y \in H}
  <2>1. S \in SUBSET Id /\ S # {}
    BY <1>1
  <2>2. \A i \in S : Cause[i] \in S
    <3> SUFFICES ASSUME NEW y \in H PROVE Cause[y.id] \in S
      OBVIOUS
    <3>1. PICK p \in H \cup {Root(query)} : Cause[y.id] = p.id
      BY <1>2
    <3>2. CASE p \in H
      BY <3>1, <3>2
    <3>3. CASE p = Root(query)
      <4>1. Cause[y.id] = x.id
        BY <1>1, <3>1, <3>3
      <4> QED
        BY <4>1
    <3> QED
      BY <3>2, <3>3
  <2> HIDE DEF S
  <2> QED
    BY <2>1, <2>2, CauseAssumption
<1> DEFINE S == {i \in Id : \E x, y \in H : x.id = i /\ y.id = i /\ x.at # y.at}
<1>4. \A i \in S : Cause[i] \in S
  <2> SUFFICES ASSUME NEW i \in S PROVE Cause[i] \in S
    OBVIOUS
  <2>1. PICK x \in H, y \in H : x.id = i /\ y.id = i /\ x.at # y.at
    OBVIOUS
  <2>2. PICK p \in H \cup {Root(query)} : x.at = p.at + 1 /\ Cause[i] = p.id
    BY <1>2, <2>1
  <2>3. PICK q \in H \cup {Root(query)} : y.at = q.at + 1 /\ Cause[i] = q.id
    BY <1>2, <2>1
  <2>4. p.at # q.at /\ p.id = q.id
    BY <2>1, <2>2, <2>3
  <2>5. p \in H /\ q \in H
    BY <1>1, <1>3, <2>4
  <2>6. p.id \in Id
    BY <1>1, <2>5
  <2> QED
    BY <2>2, <2>4, <2>5, <2>6
<1>5. S = {}
  <2>1. S \in SUBSET Id
    OBVIOUS
  <2> HIDE DEF S
  <2> QED
    BY <1>4, <2>1, CauseAssumption
<1> QED
  BY <1>1, <1>3, <1>5

\* Backward, a level holds one event: levels that repeat one would be a cycle of causes.
LEMMA BackwardUnique ==
  ASSUME NEW H \in SUBSET Item, query.start \in Id, query.direction = "backward", Lineage(query, H)
  PROVE  /\ \A x, y \in H : x.id = y.id => x = y
         /\ \A x \in H : x.id # query.start
<1> DEFINE All == H \cup {Root(query)}
<1>1. /\ \A x \in All : x.id \in Id /\ x.at \in Nat /\ x = [id |-> x.id, at |-> x.at]
      /\ Root(query) \in All /\ Root(query).at = 0 /\ H \subseteq All
      /\ \A x \in All : x \in H \/ x = Root(query)
  BY ItemIs DEF Root
<1>2. \A x \in H : \E p \in All : x.at = p.at + 1 /\ Cause[p.id] = x.id
  BY DEF Lineage, Leads
<1> HIDE DEF All
<1>3. \A x \in All : x.at # 0 => x \in H
  BY <1>1
<1>4. \A x \in H : x.at # 0
  <2> TAKE x \in H
  <2>1. PICK p \in All : x.at = p.at + 1
    BY <1>2
  <2>2. p.at \in Nat
    BY <1>1
  <2> QED
    BY <2>1, <2>2
<1>5. \A x, y \in All : x.at = y.at => x.id = y.id
  <2> DEFINE D == {d \in Nat : \E x, y \in All : x.at = d /\ y.at = d /\ x.id # y.id}
  <2>1. D = {}
    <3> SUFFICES ASSUME D # {} PROVE FALSE
      OBVIOUS
    <3>1. PICK d \in D : \A e \in D : d <= e
      <4>1. D \in SUBSET Nat
        OBVIOUS
      <4> HIDE DEF D
      <4> QED
        BY <4>1, LeastNumber
    <3>2. PICK x \in All, y \in All : x.at = d /\ y.at = d /\ x.id # y.id
      OBVIOUS
    <3>3. d \in Nat /\ d # 0
      BY <1>1, <1>4, <3>2
    <3>4. x \in H /\ y \in H
      BY <1>3, <3>2, <3>3
    <3>5. PICK p \in All : x.at = p.at + 1 /\ Cause[p.id] = x.id
      BY <1>2, <3>4
    <3>6. PICK q \in All : y.at = q.at + 1 /\ Cause[q.id] = y.id
      BY <1>2, <3>4
    <3>7. p.at = d - 1 /\ q.at = d - 1 /\ d - 1 \in Nat /\ ~ (d <= d - 1)
      BY <1>1, <3>2, <3>3, <3>5, <3>6
    <3>8. d - 1 \notin D
      <4> HIDE DEF D
      <4> QED
        BY <3>1, <3>7
    <3>9. p.id = q.id
      BY <3>7, <3>8
    <3> QED
      BY <3>2, <3>5, <3>6, <3>9
  <2> QED
    BY <1>1, <2>1
<1>6. ASSUME NEW y \in All, NEW d \in 0..y.at PROVE \E z \in All : z.at = d
  <2> DEFINE n == y.at
             Missing == {k \in 0..n : ~ \E z \in All : z.at = n - k}
  <2>1. n \in Nat
    BY <1>1
  <2>2. Missing = {}
    <3> SUFFICES ASSUME Missing # {} PROVE FALSE
      OBVIOUS
    <3>1. PICK k \in Missing : \A e \in Missing : k <= e
      <4>1. Missing \in SUBSET Nat
        BY <2>1
      <4> HIDE DEF Missing
      <4> QED
        BY <4>1, LeastNumber
    <3>2. k \in 0..n /\ ~ \E z \in All : z.at = n - k
      OBVIOUS
    <3>3. k # 0
      BY <2>1, <3>2
    <3>4. k - 1 \in 0..n /\ ~ (k <= k - 1)
      BY <2>1, <3>2, <3>3
    <3>5. k - 1 \notin Missing
      <4> HIDE DEF Missing
      <4> QED
        BY <3>1, <3>4
    <3>6. PICK z \in All : z.at = n - (k - 1)
      BY <3>4, <3>5
    <3>7. z.at # 0
      BY <2>1, <3>2, <3>6
    <3>8. PICK p \in All : z.at = p.at + 1
      BY <1>2, <1>3, <3>7
    <3>9. p.at = n - k
      <4> p.at \in Nat
        BY <1>1
      <4> QED
        BY <2>1, <3>2, <3>6, <3>8
    <3> QED
      BY <3>2, <3>9
  <2>3. n - d \in 0..n /\ n - (n - d) = d
    BY <2>1
  <2>4. n - d \notin Missing
    BY <2>2
  <2> QED
    BY <2>3, <2>4
<1>7. ASSUME NEW x \in All, NEW y \in All, x.id = y.id, x.at < y.at PROVE FALSE
  <2> DEFINE S == {z.id : z \in {w \in All : x.at <= w.at /\ w.at < y.at}}
  <2>1. S \in SUBSET Id /\ x.id \in S
    <3>1. x.at \in Nat /\ y.at \in Nat
      BY <1>1
    <3>2. x.at <= x.at
      BY <3>1
    <3> QED
      BY <1>1, <1>7, <3>2
  <2>2. ASSUME NEW z \in All, x.at <= z.at, z.at < y.at PROVE Cause[z.id] \in S
    <3>1. x.at \in Nat /\ y.at \in Nat /\ z.at \in Nat /\ z.at + 1 \in 0..y.at
      BY <1>1, <2>2
    <3>2. PICK w \in All : w.at = z.at + 1
      BY <1>6, <3>1
    <3>3. w \in H
      BY <1>3, <3>1, <3>2
    <3>4. PICK p \in All : w.at = p.at + 1 /\ Cause[p.id] = w.id
      BY <1>2, <3>3
    <3>5. p.at = z.at
      BY <1>1, <3>1, <3>2, <3>4
    <3>6. Cause[z.id] = w.id
      BY <1>5, <3>4, <3>5
    <3>7. CASE w.at < y.at
      <4>1. x.at <= w.at
        BY <2>2, <3>1, <3>2
      <4> QED
        BY <3>6, <3>7, <4>1
    <3>8. CASE w.at = y.at
      <4>1. w.id = x.id
        BY <1>5, <1>7, <3>8
      <4> QED
        BY <2>1, <3>6, <4>1
    <3> QED
      BY <3>1, <3>2, <3>7, <3>8
  <2>3. \A i \in S : Cause[i] \in S
    BY <2>2
  <2> HIDE DEF S
  <2> QED
    BY <2>1, <2>3, CauseAssumption
<1>8. ASSUME NEW x \in H, NEW y \in H, x.id = y.id PROVE x = y
  <2>1. x \in All /\ y \in All /\ x.at \in Nat /\ y.at \in Nat
    BY <1>1
  <2>2. x.at = y.at
    BY <1>7, <1>8, <2>1
  <2> QED
    BY <1>1, <1>8, <2>1, <2>2
<1>9. ASSUME NEW x \in H, x.id = query.start PROVE FALSE
  <2>1. /\ x \in All /\ x.at \in Nat /\ x.at # 0
        /\ Root(query) \in All /\ Root(query).at = 0 /\ Root(query).id = x.id
    BY <1>1, <1>4, <1>9 DEF Root
  <2>2. Root(query).at < x.at
    BY <2>1
  <2> HIDE DEF Root
  <2> QED
    BY <1>7, <2>1, <2>2
<1> QED
  BY <1>8, <1>9

OneWay == pc # "idle" /\ query.kind = "walk" /\ query.direction # "both"
Handed == Given \cup buffer

LEMMA TakeHanded ==
  ASSUME ReaderOK, Take
  PROVE  Handed' = Handed
<1>0. taken \in Seq(Item)
  BY DEF ReaderOK, ReaderTypes
<1>1. PICK f \in buffer : taken' = Append(taken, f) /\ buffer' = buffer \ {f}
  BY TakeIs
<1>2. /\ Len(taken) \in Nat /\ Len(taken') = Len(taken) + 1
      /\ \A i \in 1..Len(taken) : taken'[i] = taken[i]
      /\ taken'[Len(taken) + 1] = f
  BY <1>0, <1>1 DEF ReaderOK, ReaderTypes
<1>3. \A i : i \in 1..Len(taken') <=> i \in 1..Len(taken) \/ i = Len(taken) + 1
  BY <1>2
<1>4. Given' = Given \cup {f}
  BY <1>2, <1>3 DEF Given
<1> QED
  BY <1>1, <1>4 DEF Handed

\* At once each event comes in one way. By pages each has its lineage in this page or
\* what was handed over before, and what a token, the frontier or a statement names is on
\* the level of that lineage.
LineageOK ==
  /\ pc \notin {"returning", "expanded"} => level = {}
  /\ OneWay /\ how = "whole" => \A x, y \in Handed \cup page : x.id = y.id => x = y
  /\ OneWay /\ how # "whole" =>
       /\ pc # "returning"
       /\ Lineage(query, Handed) /\ Lineage(query, Handed \cup page)
       /\ cursor # None /\ pc \notin {"last", "ended"} =>
            cursor.frontier \subseteq IdsAt(query, Handed, cursor.depth)
       /\ more # None => more.frontier \subseteq IdsAt(query, Handed \cup page, more.depth)
       /\ pc \in Walking => frontier \subseteq IdsAt(query, Handed \cup page, depth - 1)
       /\ pc = "expanded" => \A i \in level : \E j \in frontier : Leads(query, j, i)

LEMMA FetchLineage ==
  ASSUME ReaderOK, LineageOK,
         \/ ReadRange \/ ReadBatch \/ ReadByCorrelation
         \/ \E b \in Budget : ReadRangeBounded(b) \/ ReadByCorrelationBounded(b)
  PROVE  LineageOK'
<1>1. pc = "ready" /\ query.kind # "walk"
  BY FetchIs
<1>2. pc' = "fetched" /\ UNCHANGED <<query, level>>
  BY FetchIs DEF Fetch, walk
<1> QED
  BY <1>1, <1>2 DEF LineageOK, OneWay

LEMMA WholeLineage ==
  ASSUME ReaderOK, LineageOK, WalkWhole
  PROVE  LineageOK'
<1>1. /\ pc \in {"ready", "merging"} /\ pc' \in {"merging", "fetched"}
      /\ query.kind = "walk" /\ how = "whole" /\ query \in Query
      /\ UNCHANGED <<query, how, buffer, taken, level>>
  BY DEF WalkWhole, walk, ReaderOK, PlaceOK
<1>2. level' = {}
  BY <1>1 DEF LineageOK
<1>3. CASE query.direction = "both"
  BY <1>1, <1>2, <1>3 DEF LineageOK, OneWay
<1>4. CASE query.direction # "both"
  <2>1. page' = Reached(rows, query, query.direction) /\ pc = "ready"
    BY <1>4 DEF WalkWhole, ReaderOK, PlaceOK
  <2>2. cursor = None
    BY <1>1 DEF ReaderOK, PlaceOK, TokenOK
  <2>3. Given = {} /\ buffer = {}
    BY <2>1, <2>2, GivenItems DEF ReaderOK, PlaceOK
  <2>4. (Handed \cup page)' = page'
    BY <1>1, <2>3 DEF Handed, Given
  <2>5. rows \in SUBSET Row
    BY DEF ReaderOK, StoreOK
  <2>6. \A x, y \in page' : x.id = y.id => x = y
    BY <1>1, <2>1, <2>5, ReachedItems
  <2> QED
    BY <1>1, <1>2, <2>4, <2>6 DEF LineageOK
<1> QED
  BY <1>3, <1>4

\* The levels that a walk by pages starts from and expands.
LEMMA ExpandLineage ==
  ASSUME ReaderOK, LineageOK,
         \/ \E b \in Budget : StartWalk(b)
         \/ ExpandForward \/ ExpandBackward \/ EndWalk
  PROVE  LineageOK'
<1>1. /\ pc \notin {"idle", "last", "ended"} /\ query.kind = "walk" /\ how # "whole"
      /\ UNCHANGED <<query, how, cursor, page, buffer, taken>>
      /\ query \in Query
  BY DEF StartWalk, ExpandForward, ExpandBackward, EndWalk, walk, ReaderOK, PlaceOK, Walking
<1>2. query.direction \in Direction
  BY <1>1, QueryAssumption
<1>3. Handed' = Handed /\ page' = page
  BY <1>1 DEF Handed, Given
<1>4. OneWay' => OneWay
  BY <1>1 DEF OneWay
<1>5. ~ (OneWay' /\ how' = "whole")
  BY <1>1
<1>6. OneWay => /\ pc # "returning" /\ query.direction \in {"forward", "backward"}
                /\ Lineage(query, Handed) /\ Lineage(query, Handed \cup page)
                /\ cursor # None => cursor.frontier \subseteq IdsAt(query, Handed, cursor.depth)
  BY <1>1, <1>2 DEF LineageOK, OneWay, Direction
<1>7. OneWay' => /\ Lineage(query, Handed)' /\ Lineage(query, Handed \cup page)'
                 /\ cursor' # None => cursor'.frontier \subseteq IdsAt(query, Handed, cursor.depth)'
  BY <1>1, <1>3, <1>4, <1>6
<1>8. depth \in Nat
  BY DEF ReaderOK, ReaderTypes
<1>9. ASSUME NEW b \in Budget, StartWalk(b) PROVE LineageOK'
  <2>1. /\ pc = "ready" /\ pc' = "expanding" /\ page = {} /\ more = None /\ UNCHANGED <<more, level>>
        /\ frontier' = IF cursor = None THEN {query.start} ELSE cursor.frontier
        /\ depth' = IF cursor = None THEN 1 ELSE cursor.depth + 1
    BY <1>9 DEF StartWalk, ReaderOK, PlaceOK, Walking
  <2>2. level' = {}
    BY <2>1 DEF LineageOK
  <2>3. OneWay' => frontier' \subseteq IdsAt(query, Handed \cup page, depth - 1)'
    <3> SUFFICES ASSUME OneWay PROVE frontier' \subseteq IdsAt(query, Handed \cup page, depth' - 1)
      BY <1>1, <1>3, <1>4
    <3>1. CASE cursor = None
      <4>1. depth' - 1 = 0 /\ frontier' = {query.start}
        BY <2>1, <3>1
      <4>2. Root(query).id = query.start /\ Root(query).at = 0
        BY DEF Root
      <4> QED
        BY <4>1, <4>2 DEF IdsAt
    <3>2. CASE cursor # None
      <4>1. cursor.depth \in Nat
        BY <1>1, <3>2 DEF ReaderOK, PlaceOK, TokenOK
      <4>2. depth' - 1 = cursor.depth /\ frontier' = cursor.frontier /\ Handed \cup page = Handed
        BY <2>1, <3>2, <4>1
      <4> QED
        BY <1>6, <3>2, <4>2
    <3> QED
      BY <3>1, <3>2
  <2> QED
    BY <1>5, <1>7, <2>1, <2>2, <2>3 DEF LineageOK
<1>10. CASE ExpandForward \/ ExpandBackward
  <2>1. /\ pc \in {"expanding", "returning"} /\ pc' \in {"returning", "expanded"}
        /\ UNCHANGED <<more, frontier, depth>>
    BY <1>10 DEF ExpandForward, ExpandBackward
  <2>2. more = None
    BY <2>1 DEF ReaderOK, PlaceOK
  <2>3. OneWay => /\ pc' = "expanded"
                  /\ frontier \subseteq IdsAt(query, Handed \cup page, depth - 1)
                  /\ \A i \in level' : \E j \in frontier : Leads(query, j, i)
    <3> SUFFICES ASSUME OneWay
                 PROVE  /\ pc' = "expanded"
                        /\ frontier \subseteq IdsAt(query, Handed \cup page, depth - 1)
                        /\ \A i \in level' : \E j \in frontier : Leads(query, j, i)
      OBVIOUS
    <3>1. pc = "expanding" /\ level = {} /\ query.direction \in {"forward", "backward"}
      BY <1>6, <2>1 DEF LineageOK
    <3>2. frontier \subseteq IdsAt(query, Handed \cup page, depth - 1)
      BY <1>1, <3>1 DEF LineageOK, Walking
    <3>3. CASE ExpandForward
      <4>1. pc' = "expanded" /\ level' = Children(rows, frontier) /\ query.direction = "forward"
        BY <3>1, <3>3 DEF ExpandForward
      <4>2. \A i \in level' : Cause[i] \in frontier
        BY <4>1 DEF Children
      <4> QED
        BY <3>2, <4>1, <4>2 DEF Leads
    <3>4. CASE ExpandBackward
      <4>1. pc' = "expanded" /\ level' = Parents(rows, frontier) /\ query.direction = "backward"
        BY <3>1, <3>4 DEF ExpandBackward
      <4>2. \A i \in level' : \E j \in frontier : Cause[j] = i
        BY <4>1 DEF Parents
      <4> QED
        BY <3>2, <4>1, <4>2 DEF Leads
    <3> QED
      BY <1>10, <3>3, <3>4
  <2>4. OneWay' => /\ frontier' \subseteq IdsAt(query, Handed \cup page, depth - 1)'
                   /\ \A i \in level' : \E j \in frontier' : Leads(query, j, i)'
    BY <1>1, <1>3, <1>4, <2>1, <2>3
  <2>5. OneWay' => pc' = "expanded"
    BY <1>4, <2>3
  <2> QED
    BY <1>5, <1>7, <2>1, <2>2, <2>4, <2>5 DEF LineageOK
<1>11. CASE EndWalk
  <2>1. pc = "expanding" /\ pc' = "fetched" /\ more' = None /\ level' = level
    BY <1>11 DEF EndWalk, walk
  <2> QED
    BY <1>5, <1>7, <2>1 DEF LineageOK, Walking
<1> QED
  BY <1>9, <1>10, <1>11

\* A level that is added to a page has its lineage there.
LEMMA YieldLineage ==
  ASSUME ReaderOK, LineageOK, YieldLevel
  PROVE  LineageOK'
<1> DEFINE new == Sampled(level \ seen, query)
           added == {[id |-> i, at |-> depth] : i \in new}
           S == Handed \cup page
<1>1. /\ new \subseteq level \ seen
      /\ pc = "expanded" /\ query.kind = "walk" /\ how # "whole" /\ depth \in Nat \ {0}
      /\ level' = {} /\ UNCHANGED <<query, how, cursor, buffer, taken>>
      /\ \/ /\ pc' = "fetched" /\ more' = None /\ page' = page
         \/ /\ pc' = "fetched" /\ page' = page
            /\ more' = [frontier |-> frontier, depth |-> depth - 1]
         \/ /\ pc' = "expanding" /\ page' = page \cup added /\ frontier' = new
            /\ depth' = depth + 1 /\ more' = more
  BY YieldIs
<1> HIDE DEF new
<1>2. more = None
  BY <1>1 DEF ReaderOK, PlaceOK
<1>3. Handed' = Handed /\ (OneWay' => OneWay) /\ ~ (OneWay' /\ how' = "whole")
  BY <1>1 DEF Handed, Given, OneWay
<1>4. OneWay => /\ Lineage(query, Handed) /\ Lineage(query, S)
                /\ cursor # None => cursor.frontier \subseteq IdsAt(query, Handed, cursor.depth)
                /\ frontier \subseteq IdsAt(query, S, depth - 1)
                /\ \A i \in new : \E j \in frontier : Leads(query, j, i)
  BY <1>1 DEF LineageOK, Walking
<1>5. OneWay => /\ Lineage(query, S \cup added)
                /\ new \subseteq IdsAt(query, S \cup added, depth + 1 - 1)
  <2> SUFFICES ASSUME OneWay PROVE Lineage(query, S \cup added) /\ new \subseteq IdsAt(query, S \cup added, depth + 1 - 1)
    OBVIOUS
  <2> HIDE DEF S
  <2>1. ASSUME NEW x \in added
        PROVE  \E p \in S \cup added \cup {Root(query)} : x.at = p.at + 1 /\ Leads(query, p.id, x.id)
    <3>1. PICK i \in new : x = [id |-> i, at |-> depth]
      OBVIOUS
    <3>2. PICK j \in frontier : Leads(query, j, i)
      BY <1>4
    <3>3. PICK p \in S \cup {Root(query)} : p.at = depth - 1 /\ p.id = j
      BY <1>4 DEF IdsAt
    <3>4. x.at = p.at + 1 /\ Leads(query, p.id, x.id)
      BY <1>1, <3>1, <3>2, <3>3
    <3> QED
      BY <3>3, <3>4
  <2>2. Lineage(query, S \cup added)
    <3> HIDE DEF added
    <3> QED
      BY <1>4, <2>1 DEF Lineage
  <2>3. ASSUME NEW i \in new PROVE i \in IdsAt(query, S \cup added, depth + 1 - 1)
    <3>1. [id |-> i, at |-> depth] \in added /\ depth + 1 - 1 = depth
      BY <1>1
    <3> QED
      BY <3>1 DEF IdsAt
  <2> QED
    BY <2>2, <2>3
<1> HIDE DEF added
<1>6. CASE page' = page /\ pc' = "fetched"
  <2>1. S' = S
    BY <1>3, <1>6
  <2>2. OneWay' /\ more' # None => more'.frontier \subseteq IdsAt(query, S, more.depth)'
    BY <1>1, <1>3, <1>4, <1>6, <2>1, <1>2 DEF IdsAt
  <2>3. OneWay' => /\ Lineage(query, Handed)' /\ Lineage(query, S)'
                   /\ cursor' # None => cursor'.frontier \subseteq IdsAt(query, Handed, cursor.depth)'
    BY <1>1, <1>3, <1>4, <2>1
  <2> QED
    BY <1>1, <1>3, <1>6, <2>2, <2>3 DEF LineageOK, Walking
<1>7. CASE pc' = "expanding" /\ page' = page \cup added /\ frontier' = new /\ depth' = depth + 1
           /\ more' = more
  <2>1. S' = S \cup added
    BY <1>3, <1>7
  <2>2. OneWay' => /\ Lineage(query, Handed)' /\ Lineage(query, S)'
                   /\ cursor' # None => cursor'.frontier \subseteq IdsAt(query, Handed, cursor.depth)'
                   /\ frontier' \subseteq IdsAt(query, S, depth - 1)'
    BY <1>1, <1>3, <1>4, <1>5, <1>7, <2>1
  <2> QED
    BY <1>1, <1>2, <1>3, <1>7, <2>2 DEF LineageOK
<1> QED
  BY <1>1, <1>6, <1>7

LEMMA PageLineage ==
  ASSUME ReaderOK, LineageOK,
         \/ \E q \in Query, h \in {"whole", "pages", "iterator"} : Ask(q, h)
         \/ \E b \in Budget : ReadAggregate(b)
         \/ UpcastPage \/ Take \/ Finish \/ Fail \/ AskAgain
  PROVE  LineageOK'
<1>1. ASSUME NEW q, NEW h, Ask(q, h) PROVE LineageOK'
  <2>1. /\ pc = "idle" /\ pc' = "ready"
        /\ UNCHANGED <<cursor, page, more, buffer, taken, level>>
    BY <1>1 DEF Ask, walk
  <2>2. cursor = None /\ more = None /\ page = {} /\ buffer = {} /\ Given = {} /\ level = {}
    BY <2>1, GivenItems DEF ReaderOK, PlaceOK, Walking, LineageOK
  <2>3. (Handed \cup page)' = {} /\ Handed' = {}
    BY <2>1, <2>2 DEF Handed, Given
  <2> QED
    BY <2>1, <2>2, <2>3 DEF LineageOK, Lineage, Walking
<1>2. ASSUME NEW b, ReadAggregate(b) PROVE LineageOK'
  <2>1. /\ pc = "ready" /\ query.kind = "aggregate"
        /\ pc' \in {"spinning", "failed", "last"}
        /\ UNCHANGED <<query, level>>
    BY <1>2 DEF ReadAggregate, walk
  <2> QED
    BY <2>1 DEF LineageOK, OneWay
<1>3. CASE UpcastPage
  <2>1. /\ pc = "fetched" /\ page' = {} /\ more' = None /\ buffer = {}
        /\ UNCHANGED <<query, how, taken, level>>
        /\ \/ pc' \in {"spinning", "failed"} /\ UNCHANGED <<cursor, buffer>>
           \/ buffer' = page /\ more = None /\ pc' = "last" /\ UNCHANGED cursor
           \/ buffer' = page /\ more # None /\ pc' = "ready" /\ cursor' = more
    BY <1>3 DEF UpcastPage, walk, ReaderOK, PlaceOK
  <2>2. level' = {} /\ pc' \notin Walking /\ (OneWay' => OneWay)
    BY <2>1 DEF Walking, LineageOK, OneWay
  <2>3. CASE pc' \in {"spinning", "failed"} /\ UNCHANGED <<cursor, buffer>>
    <3>1. Handed' = Handed /\ (Handed \cup page)' = Handed
      BY <2>1, <2>3 DEF Handed, Given
    <3> QED
      BY <2>1, <2>2, <2>3, <3>1 DEF LineageOK, Walking
  <2>4. CASE /\ buffer' = page
             /\ (more = None /\ pc' = "last") \/ (more # None /\ cursor' = more)
    <3>1. Handed' = Handed \cup page /\ (Handed \cup page)' = Handed \cup page
      BY <2>1, <2>4 DEF Handed, Given
    <3> QED
      BY <2>1, <2>2, <2>4, <3>1 DEF LineageOK, Walking
  <2> QED
    BY <2>1, <2>3, <2>4
<1>4. CASE Take
  <2>1. UNCHANGED <<query, how, pc, cursor, page, more, frontier, level, depth>>
    BY <1>4 DEF Take, walk
  <2>2. Handed' = Handed
    BY <1>4, TakeHanded
  <2> QED
    BY <2>1, <2>2 DEF LineageOK, OneWay
<1>5. CASE Finish \/ Fail \/ AskAgain
  <2>1. /\ UNCHANGED <<query, how, cursor, more, buffer, taken>>
        /\ pc # "idle" /\ pc' \notin Walking /\ pc \notin {"expanded", "fetched"}
        /\ level' = {} /\ (page' = page \/ page' = {})
        /\ pc' \in {"last", "ended"} \/ pc \notin {"last", "ended"}
    BY <1>5 DEF Finish, Fail, AskAgain, walk, LineageOK, Walking
  <2>2. Handed' = Handed /\ more = None /\ (OneWay' => OneWay)
    BY <2>1 DEF Handed, Given, OneWay, ReaderOK, PlaceOK
  <2>3. Lineage(query, Handed) => Lineage(query, Handed \cup {})
    OBVIOUS
  <2>4. OneWay' => /\ Lineage(query, Handed)' /\ Lineage(query, Handed \cup page)'
    \/ how' = "whole"
    BY <2>1, <2>2, <2>3 DEF LineageOK
  <2>5. (OneWay /\ how = "whole")' =>
           \A x, y \in (Handed \cup page)' : x.id = y.id => x = y
    BY <2>1, <2>2 DEF LineageOK
  <2>6. (OneWay /\ how # "whole")' /\ cursor' # None /\ pc' \notin {"last", "ended"} =>
           cursor'.frontier \subseteq IdsAt(query, Handed, cursor.depth)'
    BY <2>1, <2>2 DEF LineageOK
  <2> QED
    BY <2>1, <2>2, <2>4, <2>5, <2>6 DEF LineageOK, Walking
<1> QED
  BY <1>1, <1>2, <1>3, <1>4, <1>5

LEMMA NextLineage ==
  ASSUME ReaderOK, LineageOK, [Next]_vars
  PROVE  LineageOK'
<1>1. ASSUME UNCHANGED reader PROVE LineageOK'
  <2>1. UNCHANGED <<query, how, pc, cursor, page, more, buffer, taken, frontier, level, depth>>
    BY <1>1 DEF reader, walk
  <2> QED
    BY <2>1 DEF LineageOK, OneWay, Handed, Given, Walking
<1>2. ASSUME NEW i, NEW s, AppendEvent(i, s) PROVE UNCHANGED reader
  BY <1>2 DEF AppendEvent
<1>3. ASSUME NEW r, PurgeEvent(r) PROVE UNCHANGED reader
  BY <1>3 DEF PurgeEvent
<1>4. ASSUME NEW u, RegisterUpcaster(u) PROVE UNCHANGED reader
  BY <1>4 DEF RegisterUpcaster
<1>5. UNCHANGED vars => UNCHANGED reader
  BY DEF vars
<1> QED
  BY <1>1, <1>2, <1>3, <1>4, <1>5, Steps, FetchLineage, WholeLineage, ExpandLineage,
     YieldLineage, PageLineage

WalkOrderOK == pc = "idle" \/ query.kind = "walk" => OrderOK
WalkOK == ReaderOK /\ WalkOrderOK /\ LineageOK

LEMMA InitWalk == Init => WalkOK
<1>1. Init => WalkOrderOK /\ LineageOK
  BY DEF Init, WalkOrderOK, OrderOK, PagesAscend, Placed, OnceEach, Given, Walking, LineageOK, OneWay
<1> QED
  BY <1>1, InitReader DEF WalkOK

LEMMA NextWalk ==
  ASSUME WalkOK, [Next]_vars
  PROVE  WalkOK'
<1> USE DEF WalkOK
<1>1. ReaderOK' /\ LineageOK'
  BY NextReader, NextLineage
<1>2. ASSUME (pc = "idle" \/ query.kind = "walk")' PROVE OrderOK'
  <2>1. CASE pc = "idle" \/ query.kind = "walk"
    BY <2>1, NextOrder DEF WalkOrderOK
  <2>2. CASE pc # "idle" /\ query.kind # "walk"
    BY <1>2, <2>2, QueryStays
  <2> QED
    BY <2>1, <2>2
<1> QED
  BY <1>1, <1>2 DEF WalkOrderOK

\* Whatever happens between its pages, a walk in one direction gives no event twice: no
\* event has two causes, and none is its own.
THEOREM NoEventTwiceHolds == Spec => []NoEventTwice
<1>1. WalkOK => NoEventTwice
  <2> SUFFICES ASSUME ReaderOK, WalkOrderOK, LineageOK, OneWay PROVE NoRepeats
    BY DEF NoEventTwice, OneWay, WalkOK
  <2>1. \A x, y \in Handed : x.id = y.id => x = y
    <3>1. CASE how = "whole"
      BY <3>1 DEF LineageOK
    <3>2. CASE how # "whole"
      <4>1. Lineage(query, Handed) /\ Handed \in SUBSET Item
        BY <3>2, GivenItems DEF LineageOK, Handed
      <4>2. query.start \in Id /\ query.direction \in {"forward", "backward"}
        BY QueryAssumption DEF OneWay, ReaderOK, PlaceOK, Direction
      <4> QED
        BY <4>1, <4>2, ForwardUnique, BackwardUnique
    <3> QED
      BY <3>1, <3>2
  <2>2. OnceEach
    BY DEF OneWay, OrderOK, WalkOrderOK
  <2>3. taken \in Seq(Item)
    BY DEF ReaderOK, ReaderTypes
  <2>4. \A i \in 1..Len(taken) : taken[i] \in Handed /\ taken[i].at \in Nat /\ taken[i].id \in Nat
    <3>1. \A i \in 1..Len(taken) : taken[i] \in Item
      BY <2>3
    <3> QED
      BY <3>1, ItemIs DEF Handed, Given
  <2>5. ASSUME NEW i \in 1..Len(taken), NEW j \in 1..Len(taken), i < j
        PROVE  taken[i].id # taken[j].id
    <3>1. taken[i] # taken[j]
      BY <2>2, <2>5 DEF OnceEach
    <3> QED
      BY <2>1, <2>4, <3>1
  <2>6. Len(taken) \in Nat
    BY <2>3
  <2> QED
    BY <2>5, <2>6 DEF NoRepeats
<1> QED
  BY <1>1, InitWalk, NextWalk, PTL DEF Spec
-----------------------------------------------------------------------------
(* Answers on more rows.                                                    *)

LEMMA IdsGrow ==
  ASSUME NEW T, NEW R \in SUBSET T
  PROVE  Ids(R) \subseteq Ids(T)
BY DEF Ids

LEMMA ExpandGrows ==
  ASSUME NEW T, NEW R \in SUBSET T, NEW G, NEW F \in SUBSET G, NEW dir
  PROVE  Expand(R, dir, F) \subseteq Expand(T, dir, G)
<1>1. Ids(R) \subseteq Ids(T)
  BY IdsGrow
<1> QED
  BY <1>1 DEF Expand, Children, Parents

LEMMA LevelsGrow ==
  ASSUME NEW T \in SUBSET Row, NEW R \in SUBSET T, NEW q \in Query, q.kind = "walk", NEW dir
  PROVE  \A d \in 0..q.depth : Levels(R, q, dir)[d] \subseteq Levels(T, q, dir)[d]
<1> DEFINE l == Levels(R, q, dir)
           m == Levels(T, q, dir)
           Wrong == {d \in 0..q.depth : ~ (l[d] \subseteq m[d])}
<1>1. /\ q.depth \in Nat
      /\ l[0] = m[0]
      /\ \A d \in 1..q.depth : l[d] = Expand(R, dir, l[d - 1]) /\ m[d] = Expand(T, dir, m[d - 1])
  <2>1. R \in SUBSET Row
    OBVIOUS
  <2>2. AreLevels(q, R, dir, l) /\ AreLevels(q, T, dir, m)
    BY <2>1, LevelsAre
  <2> QED
    BY <2>2 DEF AreLevels
<1> HIDE DEF l, m
<1>2. Wrong = {}
  <2> SUFFICES ASSUME Wrong # {} PROVE FALSE
    OBVIOUS
  <2>1. PICK d \in Wrong : \A e \in Wrong : d <= e
    <3>1. Wrong \in SUBSET Nat
      BY <1>1
    <3> HIDE DEF Wrong
    <3> QED
      BY <3>1, LeastNumber
  <2>2. d \in 0..q.depth /\ ~ (l[d] \subseteq m[d])
    OBVIOUS
  <2>3. d # 0
    BY <1>1, <2>2
  <2>4. d \in 1..q.depth /\ d - 1 \in 0..q.depth /\ ~ (d <= d - 1)
    BY <1>1, <2>2, <2>3
  <2>5. d - 1 \notin Wrong
    <3> HIDE DEF Wrong
    <3> QED
      BY <2>1, <2>4
  <2>6. l[d - 1] \subseteq m[d - 1]
    BY <2>4, <2>5
  <2> HIDE DEF Wrong
  <2>7. Expand(R, dir, l[d - 1]) \subseteq Expand(T, dir, m[d - 1])
    BY <2>6, ExpandGrows
  <2> QED
    BY <1>1, <2>2, <2>4, <2>7
<1> QED
  BY <1>2 DEF l, m

\* After an empty level all are empty.
LEMMA LevelsEnd ==
  ASSUME NEW R \in SUBSET Row, NEW q \in Query, q.kind = "walk", NEW dir,
         NEW d \in 0..q.depth, Levels(R, q, dir)[d] = {}
  PROVE  \A e \in 0..q.depth : d <= e => Levels(R, q, dir)[e] = {}
<1> DEFINE l == Levels(R, q, dir)
           Wrong == {e \in 0..q.depth : d <= e /\ l[e] # {}}
<1>1. /\ q.depth \in Nat /\ d \in Nat
      /\ \A e \in 1..q.depth : l[e] = Expand(R, dir, l[e - 1])
  <2>1. AreLevels(q, R, dir, l)
    BY LevelsAre
  <2> QED
    BY <2>1 DEF AreLevels
<1>2. l[d] = {}
  OBVIOUS
<1> HIDE DEF l
<1>3. Wrong = {}
  <2> SUFFICES ASSUME Wrong # {} PROVE FALSE
    OBVIOUS
  <2>1. PICK e \in Wrong : \A f \in Wrong : e <= f
    <3>1. Wrong \in SUBSET Nat
      BY <1>1
    <3> HIDE DEF Wrong
    <3> QED
      BY <3>1, LeastNumber
  <2>2. e \in 0..q.depth /\ d <= e /\ l[e] # {} /\ e # d
    BY <1>2
  <2>3. e \in 1..q.depth /\ e - 1 \in 0..q.depth /\ d <= e - 1 /\ ~ (e <= e - 1)
    BY <1>1, <2>2
  <2>4. e - 1 \notin Wrong
    <3> HIDE DEF Wrong
    <3> QED
      BY <2>1, <2>3
  <2>5. l[e - 1] = {}
    BY <2>3, <2>4
  <2>6. Expand(R, dir, {}) = {}
    BY DEF Expand, Children, Parents
  <2> HIDE DEF Wrong
  <2> QED
    BY <1>1, <2>2, <2>3, <2>5, <2>6
<1> QED
  BY <1>3 DEF l

Statement == {"range", "correlation", "batch"}

LEMMA SelectedGrows ==
  ASSUME NEW T, NEW R \in SUBSET T, NEW q, q.kind \in Statement
  PROVE  /\ Selected(R, q) \subseteq Selected(T, q)
         /\ Results(q, Selected(R, q)) \subseteq Results(q, Selected(T, q))
<1>1. Selected(R, q) \subseteq Selected(T, q)
  BY DEF Selected, Statement
<1> QED
  BY <1>1 DEF Results

LEMMA AnswerIs ==
  ASSUME NEW R, NEW q, q.kind \in Statement
  PROVE  Answer(R, q) = Ids(Results(q, Selected(R, q)))
<1>1. Answer(R, q) = Ids(Selected(R, q))
  BY DEF Answer, Statement
<1>2. \A S : Ids(Results(q, S)) = Ids(S)
  <2> TAKE S
  <2>1. \A r : Result(q, r).id = r.id
    BY DEF Result
  <2> QED
    BY <2>1 DEF Ids, Results
<1> QED
  BY <1>1, <1>2

LEMMA WalkAnswer ==
  ASSUME NEW R \in SUBSET Row, NEW q \in Query, q.kind = "walk"
  PROVE  /\ q.direction # "both" =>
              Answer(R, q) = UNION {Levels(R, q, q.direction)[d] : d \in 1..q.depth}
         /\ q.direction = "both" =>
              Answer(R, q) = Ids(Reached(R, q, "forward")) \cup Ids(Reached(R, q, "backward"))
BY ReachedItems DEF Answer

LEMMA ReachedGrows ==
  ASSUME NEW T \in SUBSET Row, NEW R \in SUBSET T, NEW q \in Query, q.kind = "walk", NEW dir
  PROVE  Ids(Reached(R, q, dir)) \subseteq Ids(Reached(T, q, dir))
<1>1. R \in SUBSET Row
  OBVIOUS
<1>2. /\ Ids(Reached(R, q, dir)) = UNION {Levels(R, q, dir)[d] : d \in 1..q.depth}
      /\ Ids(Reached(T, q, dir)) = UNION {Levels(T, q, dir)[d] : d \in 1..q.depth}
  BY <1>1, ReachedItems
<1>3. \A d \in 1..q.depth : d \in 0..q.depth
  BY LevelsAre DEF AreLevels
<1>4. \A d \in 1..q.depth : Levels(R, q, dir)[d] \subseteq Levels(T, q, dir)[d]
  BY <1>3, LevelsGrow
<1> QED
  BY <1>2, <1>4

LEMMA AnswerGrows ==
  ASSUME NEW T \in SUBSET Row, NEW R \in SUBSET T, NEW q \in Query
  PROVE  Answer(R, q) \subseteq Answer(T, q)
<1>1. CASE q.kind \in Statement
  <2>1. Results(q, Selected(R, q)) \in SUBSET Results(q, Selected(T, q))
    BY <1>1, SelectedGrows
  <2>2. Ids(Results(q, Selected(R, q))) \subseteq Ids(Results(q, Selected(T, q)))
    BY <2>1, IdsGrow
  <2> QED
    BY <1>1, <2>2, AnswerIs
<1>2. CASE q.kind = "walk"
  <2>1. R \in SUBSET Row /\ \A dir : Ids(Reached(R, q, dir)) \subseteq Ids(Reached(T, q, dir))
    BY <1>2, ReachedGrows
  <2> QED
    BY <1>2, <2>1 DEF Answer
<1>3. CASE q.kind = "aggregate"
  BY <1>3 DEF Answer
<1> QED
  BY <1>1, <1>2, <1>3, QueryAssumption DEF Statement
-----------------------------------------------------------------------------
(* An aggregate selects what its pattern matches.                           *)

\* A function of the places 1 to n + 1 can be made from the last one down.
MadeDownward(n, X, B, F) ==
  \E m \in [1..(n + 1) -> SUBSET X] : m[n + 1] = B /\ \A i \in 1..n : m[i] = F[i][m[i + 1]]

LEMMA Downward ==
  ASSUME NEW n \in Nat, NEW X, NEW B \in SUBSET X, NEW F \in [1..n -> [SUBSET X -> SUBSET X]]
  PROVE  MadeDownward(n, X, B, F)
<1> DEFINE Part(k, m) == /\ m \in [(n + 1 - k)..(n + 1) -> SUBSET X]
                         /\ m[n + 1] = B
                         /\ \A i \in (n + 1 - k)..n : m[i] = F[i][m[i + 1]]
           Missing == {k \in 0..n : ~ \E m : Part(k, m)}
<1>1. Missing = {}
  <2> SUFFICES ASSUME Missing # {} PROVE FALSE
    OBVIOUS
  <2>1. PICK k \in Missing : \A e \in Missing : k <= e
    <3>1. Missing \in SUBSET Nat
      OBVIOUS
    <3> HIDE DEF Missing
    <3> QED
      BY <3>1, LeastNumber
  <2>2. k \in 0..n /\ ~ \E m : Part(k, m)
    OBVIOUS
  <2>3. k # 0
    <3>1. Part(0, [i \in (n + 1 - 0)..(n + 1) |-> B])
      OBVIOUS
    <3> HIDE DEF Part
    <3> QED
      BY <2>2, <3>1
  <2>4. k \in 1..n /\ k - 1 \in 0..n /\ ~ (k <= k - 1)
    BY <2>2, <2>3
  <2>5. k - 1 \notin Missing
    <3> HIDE DEF Missing
    <3> QED
      BY <2>1, <2>4
  <2>6. PICK g : Part(k - 1, g)
    BY <2>4, <2>5
  <2> HIDE DEF Missing
  <2> DEFINE a == n + 1 - k
             h == [i \in a..(n + 1) |-> IF i = a THEN F[a][g[a + 1]] ELSE g[i]]
  <2>7. /\ a \in 1..n /\ a + 1 \in 2..(n + 1) /\ n + 1 - (k - 1) = a + 1
        /\ \A i \in a..(n + 1) : i = a \/ i \in (a + 1)..(n + 1)
        /\ \A i \in a..n : i = a \/ i \in (a + 1)..n
        /\ \A i \in a..n : i + 1 \in (a + 1)..(n + 1)
        /\ \A i \in (a + 1)..(n + 1) : i \in a..(n + 1) /\ i # a
        /\ n + 1 \in (a + 1)..(n + 1)
    BY <2>4
  <2> HIDE DEF a
  <2>8. /\ g \in [(a + 1)..(n + 1) -> SUBSET X]
        /\ g[n + 1] = B
        /\ \A i \in (a + 1)..n : g[i] = F[i][g[i + 1]]
    BY <2>6, <2>7
  <2> HIDE DEF Part
  <2>9. F[a] \in [SUBSET X -> SUBSET X] /\ g[a + 1] \in SUBSET X
    <3>1. F[a] \in [SUBSET X -> SUBSET X]
      BY <2>7
    <3>2. a + 1 \in (a + 1)..(n + 1)
      BY <2>7
    <3> QED
      BY <2>8, <3>1, <3>2
  <2>10. F[a][g[a + 1]] \in SUBSET X
    BY <2>9
  <2>11. h \in [a..(n + 1) -> SUBSET X]
    BY <2>7, <2>8, <2>10
  <2>12. h[a] = F[a][g[a + 1]] /\ \A i \in (a + 1)..(n + 1) : h[i] = g[i]
    BY <2>7
  <2> HIDE DEF h
  <2>13. \A i \in a..n : h[i] = F[i][h[i + 1]]
    <3> TAKE i \in a..n
    <3>1. h[i + 1] = g[i + 1]
      BY <2>7, <2>12
    <3>2. CASE i = a
      BY <2>12, <3>1, <3>2
    <3>3. CASE i \in (a + 1)..n
      <4>1. i \in (a + 1)..(n + 1)
        BY <2>7, <3>3
      <4> QED
        BY <2>8, <2>12, <3>1, <3>3, <4>1
    <3> QED
      BY <2>7, <3>2, <3>3
  <2>14. h[n + 1] = B
    BY <2>7, <2>8, <2>12
  <2>15. Part(k, h)
    BY <2>11, <2>13, <2>14 DEF Part, a
  <2> QED
    BY <2>2, <2>15
<1>2. n \in 0..n /\ n \notin Missing /\ n + 1 - n = 1
  <2>1. n \in 0..n /\ n + 1 - n = 1
    OBVIOUS
  <2> HIDE DEF Missing
  <2> QED
    BY <1>1, <2>1
<1>3. PICK m : Part(n, m)
  BY <1>2
<1> HIDE DEF Missing
<1>4. m \in [1..(n + 1) -> SUBSET X] /\ m[n + 1] = B /\ \A i \in 1..n : m[i] = F[i][m[i + 1]]
  BY <1>2, <1>3
<1> QED
  BY <1>4 DEF MadeDownward

\* The tables of Matches and of SqlGlob.
MatchAt(p, s, i, after) ==
  IF i > Len(p) THEN {Len(s) + 1}
  ELSE IF p[i] = DoubleStar THEN {j \in 1..(Len(s) + 1) : \E k \in after : j <= k}
  ELSE {j \in 1..Len(s) : (p[i] = Star \/ p[i] = s[j]) /\ j + 1 \in after}
IsMatch(p, s, m) == m = [i \in 1..(Len(p) + 1) |-> MatchAt(p, s, i, m[i + 1])]

GlobAt(p, s, i, after) ==
  IF i > Len(p) THEN {Len(s) + 1}
  ELSE IF IsWildcard(p[i]) THEN {j \in 1..(Len(s) + 1) : \E k \in after : j <= k}
  ELSE {j \in 1..Len(s) : p[i] = s[j] /\ j + 1 \in after}
IsGlob(p, s, m) == m = [i \in 1..(Len(p) + 1) |-> GlobAt(p, s, i, m[i + 1])]

LEMMA MatchExists ==
  ASSUME NEW T, NEW p \in Seq(T), NEW s \in Seq(T)
  PROVE  IsMatch(p, s, CHOOSE m : IsMatch(p, s, m))
<1> DEFINE n == Len(p)
           X == 1..(Len(s) + 1)
           F == [i \in 1..n |-> [A \in SUBSET X |-> MatchAt(p, s, i, A)]]
<1>1. n \in Nat /\ Len(s) \in Nat /\ {Len(s) + 1} \in SUBSET X
  OBVIOUS
<1>2. \A i, A : MatchAt(p, s, i, A) \in SUBSET X
  BY <1>1 DEF MatchAt
<1>3. F \in [1..n -> [SUBSET X -> SUBSET X]]
  BY <1>2
<1>4. PICK m \in [1..(n + 1) -> SUBSET X] :
        m[n + 1] = {Len(s) + 1} /\ \A i \in 1..n : m[i] = F[i][m[i + 1]]
  <2> HIDE DEF F, X, n
  <2>1. MadeDownward(n, X, {Len(s) + 1}, F)
    BY <1>1, <1>3, Downward
  <2> QED
    BY <2>1 DEF MadeDownward
<1>5. \A i \in 1..(n + 1) : m[i] = MatchAt(p, s, i, m[i + 1])
  <2> TAKE i \in 1..(n + 1)
  <2>1. CASE i = n + 1
    <3> HIDE DEF F, X
    <3>1. i > Len(p)
      BY <1>1, <2>1
    <3>2. MatchAt(p, s, i, m[i + 1]) = {Len(s) + 1}
      BY <3>1 DEF MatchAt
    <3> QED
      BY <1>4, <2>1, <3>2
  <2>2. CASE i \in 1..n
    <3>1. m[i + 1] \in SUBSET X
      BY <1>1, <2>2
    <3> HIDE DEF X
    <3> QED
      BY <1>4, <2>2, <3>1
  <2> QED
    BY <1>1, <2>1, <2>2
<1>6. IsMatch(p, s, m)
  <2> HIDE DEF X, F
  <2> QED
    BY <1>5 DEF IsMatch
<1> QED
  BY <1>6

LEMMA GlobExists ==
  ASSUME NEW T, NEW p \in Seq(T), NEW s \in Seq(T)
  PROVE  IsGlob(p, s, CHOOSE m : IsGlob(p, s, m))
<1> DEFINE n == Len(p)
           X == 1..(Len(s) + 1)
           F == [i \in 1..n |-> [A \in SUBSET X |-> GlobAt(p, s, i, A)]]
<1>1. n \in Nat /\ Len(s) \in Nat /\ {Len(s) + 1} \in SUBSET X
  OBVIOUS
<1>2. \A i, A : GlobAt(p, s, i, A) \in SUBSET X
  BY <1>1 DEF GlobAt
<1>3. F \in [1..n -> [SUBSET X -> SUBSET X]]
  BY <1>2
<1>4. PICK m \in [1..(n + 1) -> SUBSET X] :
        m[n + 1] = {Len(s) + 1} /\ \A i \in 1..n : m[i] = F[i][m[i + 1]]
  <2> HIDE DEF F, X, n
  <2>1. MadeDownward(n, X, {Len(s) + 1}, F)
    BY <1>1, <1>3, Downward
  <2> QED
    BY <2>1 DEF MadeDownward
<1>5. \A i \in 1..(n + 1) : m[i] = GlobAt(p, s, i, m[i + 1])
  <2> TAKE i \in 1..(n + 1)
  <2>1. CASE i = n + 1
    <3> HIDE DEF F, X
    <3>1. i > Len(p)
      BY <1>1, <2>1
    <3>2. GlobAt(p, s, i, m[i + 1]) = {Len(s) + 1}
      BY <3>1 DEF GlobAt
    <3> QED
      BY <1>4, <2>1, <3>2
  <2>2. CASE i \in 1..n
    <3>1. m[i + 1] \in SUBSET X
      BY <1>1, <2>2
    <3> HIDE DEF X
    <3> QED
      BY <1>4, <2>2, <3>1
  <2> QED
    BY <1>1, <2>1, <2>2
<1>6. IsGlob(p, s, m)
  <2> HIDE DEF X, F
  <2> QED
    BY <1>5 DEF IsGlob
<1> QED
  BY <1>6

\* A pattern without ** matches segment by segment.
LEMMA PlainMatch ==
  ASSUME NEW T, NEW p \in Seq(T), NEW s \in Seq(T), Matches(p, s), ~ HasDoubleStar(p)
  PROVE  /\ Len(p) = Len(s)
         /\ \A i \in 1..Len(p) : p[i] = Star \/ p[i] = s[i]
<1> DEFINE m == CHOOSE m : IsMatch(p, s, m)
           n == Len(p)
           l == Len(s)
<1>1. 1 \in m[1]
  BY DEF Matches, IsMatch, MatchAt
<1>2. IsMatch(p, s, m)
  BY MatchExists
<1> HIDE DEF m
<1>3. n \in Nat /\ l \in Nat
  OBVIOUS
<1>4. /\ m[n + 1] = {l + 1}
      /\ \A i \in 1..n : m[i] = {j \in 1..l : (p[i] = Star \/ p[i] = s[j]) /\ j + 1 \in m[i + 1]}
  <2>1. \A i \in 1..n : p[i] # DoubleStar
    BY DEF HasDoubleStar
  <2>2. \A i \in 1..(n + 1) : m[i] = MatchAt(p, s, i, m[i + 1])
    BY <1>2 DEF IsMatch
  <2>3. n + 1 \in 1..(n + 1) /\ n + 1 > n /\ \A i \in 1..n : i \in 1..(n + 1) /\ ~ (i > n)
    BY <1>3
  <2> QED
    BY <2>1, <2>2, <2>3 DEF MatchAt
<1> DEFINE Wrong == {i \in 1..(n + 1) : i \notin m[i]}
<1>5. Wrong = {}
  <2> SUFFICES ASSUME Wrong # {} PROVE FALSE
    OBVIOUS
  <2>1. PICK i \in Wrong : \A e \in Wrong : i <= e
    <3>1. Wrong \in SUBSET Nat
      BY <1>3
    <3> HIDE DEF Wrong
    <3> QED
      BY <3>1, LeastNumber
  <2>2. i # 1
    BY <1>1
  <2>3. i - 1 \in 1..n /\ i - 1 \notin Wrong /\ i \in 1..(n + 1) /\ i \notin m[i]
    BY <1>3, <2>1, <2>2
  <2>4. i - 1 \in m[i - 1]
    BY <1>3, <2>3
  <2> HIDE DEF Wrong
  <2>5. i - 1 + 1 \in m[i - 1 + 1]
    BY <1>4, <2>3, <2>4
  <2> QED
    BY <1>3, <2>3, <2>5
<1>6. n + 1 \in m[n + 1]
  BY <1>3, <1>5
<1>7. n = l
  BY <1>3, <1>4, <1>6
<1>8. \A i \in 1..n : i \in m[i]
  BY <1>3, <1>5
<1> HIDE DEF Wrong
<1> QED
  BY <1>3, <1>4, <1>7, <1>8

LEMMA SpelledIs ==
  ASSUME NEW X, "/" \in X, NEW s \in Seq(X), s # <<>>
  PROVE  /\ Spelled(s) \in Seq(X)
         /\ Len(Spelled(s)) = 2 * Len(s) - 1
         /\ \A i \in 1..(2 * Len(s) - 1) :
              Spelled(s)[i] = IF i % 2 = 1 THEN s[(i + 1) \div 2] ELSE "/"
<1> DEFINE n == Len(s)
<1>1. n \in Nat \ {0} /\ 2 * n - 1 \in Nat
  BY LenProperties, EmptySeq
<1>2. \A i \in 1..(2 * n - 1) : i % 2 = 1 => (i + 1) \div 2 \in 1..n
  <2> HIDE DEF n
  <2> QED
    BY <1>1
<1>3. Spelled(s) \in [1..(2 * n - 1) -> X]
  <2>1. \A j \in 1..n : s[j] \in X
    BY LenProperties
  <2>2. Spelled(s) = [i \in 1..(2 * n - 1) |-> IF i % 2 = 1 THEN s[(i + 1) \div 2] ELSE "/"]
    BY DEF Spelled
  <2> HIDE DEF n
  <2>3. \A i \in 1..(2 * n - 1) : (IF i % 2 = 1 THEN s[(i + 1) \div 2] ELSE "/") \in X
    BY <1>2, <2>1
  <2> QED
    BY <2>2, <2>3
<1>4. Spelled(s) \in Seq(X)
  BY <1>1, <1>3, SeqDef
<1>5. Len(Spelled(s)) = 2 * n - 1
  BY <1>1, <1>3, <1>4, LenProperties
<1> QED
  BY <1>4, <1>5 DEF Spelled

\* What a pattern without ** matches, GLOB matches too.
LEMMA GlobMatches ==
  ASSUME NEW T, NEW p \in Seq(T), NEW s \in Seq(T), p # <<>>, s # <<>>,
         Matches(p, s), ~ HasDoubleStar(p)
  PROVE  SqlGlob(p, s)
<1> DEFINE pt == Spelled(p)
           st == Spelled(s)
           m == CHOOSE m : IsGlob(pt, st, m)
           n == Len(pt)
<1>1. SqlGlob(p, s) = (1 \in m[1])
  BY DEF SqlGlob, IsGlob, GlobAt
<1> DEFINE X == T \cup {"/"}
<1>0. p \in Seq(X) /\ s \in Seq(X) /\ "/" \in X
  <2>1. T \in SUBSET X /\ "/" \in X
    OBVIOUS
  <2> HIDE DEF X
  <2> QED
    BY <2>1
<1> HIDE DEF X
<1>2. pt \in Seq(X) /\ st \in Seq(X)
  BY <1>0, SpelledIs
<1>3. IsGlob(pt, st, m)
  BY <1>2, GlobExists
<1> HIDE DEF m
<1>4. Len(p) = Len(s) /\ \A i \in 1..Len(p) : p[i] = Star \/ p[i] = s[i]
  BY PlainMatch
<1>5. /\ n \in Nat \ {0} /\ Len(st) = n
      /\ \A i \in 1..n : pt[i] = Star \/ pt[i] = st[i]
  <2>1. /\ Len(p) \in Nat \ {0} /\ n = 2 * Len(p) - 1 /\ Len(st) = n
        /\ \A i \in 1..n : /\ pt[i] = IF i % 2 = 1 THEN p[(i + 1) \div 2] ELSE "/"
                           /\ st[i] = IF i % 2 = 1 THEN s[(i + 1) \div 2] ELSE "/"
    BY <1>4, <1>0, SpelledIs, LenProperties, EmptySeq
  <2> HIDE DEF n, pt, st
  <2>2. \A i \in 1..n : i % 2 = 1 => (i + 1) \div 2 \in 1..Len(p)
    BY <2>1
  <2> QED
    BY <1>4, <2>1, <2>2
<1>6. \A i \in 1..(n + 1) : m[i] = GlobAt(pt, st, i, m[i + 1])
  BY <1>3 DEF IsGlob
<1> HIDE DEF n, pt, st
<1> DEFINE Wrong == {k \in 0..n : n + 1 - k \notin m[n + 1 - k]}
<1>7. Wrong = {}
  <2> SUFFICES ASSUME Wrong # {} PROVE FALSE
    OBVIOUS
  <2>1. PICK k \in Wrong : \A e \in Wrong : k <= e
    <3>1. Wrong \in SUBSET Nat
      BY <1>5
    <3> HIDE DEF Wrong
    <3> QED
      BY <3>1, LeastNumber
  <2> DEFINE i == n + 1 - k
  <2>2. k \in 0..n /\ i \in 1..(n + 1) /\ i \notin m[i]
    BY <1>5
  <2>3. CASE k = 0
    <3>1. i = n + 1 /\ m[i] = GlobAt(pt, st, i, m[i + 1])
      BY <1>5, <1>6, <2>3
    <3>2. m[i] = {n + 1}
      BY <1>5, <3>1 DEF GlobAt, n
    <3> QED
      BY <2>2, <3>1, <3>2
  <2>4. CASE k # 0
    <3>1. k - 1 \in 0..n /\ ~ (k <= k - 1) /\ i \in 1..n /\ n + 1 - (k - 1) = i + 1
      BY <1>5, <2>2, <2>4
    <3>2. k - 1 \notin Wrong
      <4> HIDE DEF Wrong
      <4> QED
        BY <2>1, <3>1
    <3>3. i + 1 \in m[i + 1]
      BY <3>1, <3>2
    <3> HIDE DEF Wrong, i
    <3>4. m[i] = GlobAt(pt, st, i, m[i + 1]) /\ i <= Len(pt) /\ Len(st) = Len(pt)
      BY <1>5, <1>6, <2>2, <3>1 DEF n
    <3>5. i \in 1..Len(st) /\ i \in 1..(Len(st) + 1) /\ i <= i + 1
      BY <1>5, <3>1, <3>4 DEF n
    <3>6. IsWildcard(pt[i]) \/ pt[i] = st[i]
      BY <1>5, <3>1 DEF IsWildcard
    <3>7. i \in m[i]
      BY <3>3, <3>4, <3>5, <3>6 DEF GlobAt
    <3> QED
      BY <2>2, <3>7
  <2> QED
    BY <2>3, <2>4
<1>8. n \in 0..n /\ n \notin Wrong /\ n + 1 - n = 1
  <2>1. n \in 0..n /\ n + 1 - n = 1
    BY <1>5
  <2> HIDE DEF Wrong
  <2> QED
    BY <1>7, <2>1
<1> QED
  BY <1>1, <1>8-----------------------------------------------------------------------------
(* Whole answers.                                                           *)

\* The reads that NothingSkipped speaks of, and those that sample no level.
Relevant ==
  /\ pc # "idle"
  /\ query.kind = "walk" /\ query.direction = "both" => how = "whole"
  /\ query.kind = "aggregate" => ~ HasDoubleStar(query.pattern)
Counts == Relevant /\ ~ (query.kind = "walk" /\ query.sample # None)

\* What was read by pages of a walk is on its level of the answer.
Belongs(R, q, h, x) ==
  IF q.kind = "walk" /\ h # "whole"
  THEN x.at \in 1..q.depth /\ x.id \in Levels(R, q, q.direction)[x.at]
  ELSE x.id \in Answer(R, q)

\* H has the whole answer, or all of it that a token leaves behind.
Covers(R, q, H) == Answer(R, q) \subseteq Ids(H)
CoversTo(R, q, token, H) ==
  IF q.kind = "walk"
  THEN /\ \A e \in 1..token.depth : Levels(R, q, q.direction)[e] \subseteq IdsAt(q, H, e)
       /\ Levels(R, q, q.direction)[token.depth] \subseteq token.frontier
  ELSE \A x \in Results(q, Selected(R, q)) : Behind(q, token, x) => x \in H

\* Nothing is read that is not in the answer ...
BelongsOK ==
  Relevant =>
    /\ \A x \in Handed \cup page : Belongs(ever, query, how, x)
    /\ query.kind = "walk" /\ cursor # None => cursor.depth <= query.depth
    /\ query.kind = "walk" /\ more # None => more.depth <= query.depth
    /\ pc \in Walking => depth - 1 <= query.depth
    /\ pc \in {"returning", "expanded"} => depth <= query.depth
    /\ pc = "expanded" => level \subseteq Levels(ever, query, query.direction)[depth]

\* ... and what the answer has on the rows that were always there is not passed over by
\* a token, by the frontier of a walk or at the end.
CoverOK ==
  Counts =>
    /\ cursor # None /\ pc \notin {"last", "ended"} => CoversTo(throughout, query, cursor, Handed)
    /\ more # None => CoversTo(throughout, query, more, Handed \cup page)
    /\ pc = "fetched" /\ complete => Covers(throughout, query, Handed \cup page)
    /\ pc \in {"last", "ended"} /\ complete => Covers(throughout, query, Handed)
    /\ pc = "merging" => Ids(Reached(throughout, query, "forward")) \subseteq Ids(page)
    /\ pc \in Walking =>
         /\ CoversTo(throughout, query, [frontier |-> frontier, depth |-> depth - 1],
                     Handed \cup page)
         /\ seen \subseteq Ids(Handed \cup page) \cup {query.start}
    /\ pc = "expanded" => Levels(throughout, query, query.direction)[depth] \subseteq level

LEMMA BelongsGrows ==
  ASSUME NEW T \in SUBSET Row, NEW R \in SUBSET T, NEW q \in Query, NEW h, NEW x,
         Belongs(R, q, h, x)
  PROVE  Belongs(T, q, h, x)
<1>1. CASE q.kind = "walk" /\ h # "whole"
  <2>1. x.at \in 1..q.depth /\ x.id \in Levels(R, q, q.direction)[x.at]
    BY <1>1 DEF Belongs
  <2>2. x.at \in 0..q.depth
    BY <1>1, <2>1, QueryAssumption
  <2>3. Levels(R, q, q.direction)[x.at] \subseteq Levels(T, q, q.direction)[x.at]
    BY <1>1, <2>2, LevelsGrow
  <2> QED
    BY <1>1, <2>1, <2>3 DEF Belongs
<1>2. CASE ~ (q.kind = "walk" /\ h # "whole")
  BY <1>2, AnswerGrows DEF Belongs
<1> QED
  BY <1>1, <1>2

LEMMA CoversShrinks ==
  ASSUME NEW T \in SUBSET Row, NEW R \in SUBSET T, NEW q \in Query, NEW H, Covers(T, q, H)
  PROVE  Covers(R, q, H)
BY AnswerGrows DEF Covers

LEMMA CoversToShrinks ==
  ASSUME NEW T \in SUBSET Row, NEW R \in SUBSET T, NEW q \in Query, NEW H, NEW token,
         q.kind \in {"range", "correlation", "walk"},
         q.kind = "walk" => token.depth \in Nat /\ token.depth <= q.depth,
         CoversTo(T, q, token, H)
  PROVE  CoversTo(R, q, token, H)
<1>1. CASE q.kind = "walk"
  <2>1. /\ q.depth \in Nat /\ token.depth \in 0..q.depth
        /\ \A e \in 1..token.depth : e \in 0..q.depth
    BY <1>1, QueryAssumption
  <2>2. \A e \in 0..q.depth : Levels(R, q, q.direction)[e] \subseteq Levels(T, q, q.direction)[e]
    BY <1>1, LevelsGrow
  <2>3. /\ \A e \in 1..token.depth : Levels(T, q, q.direction)[e] \subseteq IdsAt(q, H, e)
        /\ Levels(T, q, q.direction)[token.depth] \subseteq token.frontier
    BY <1>1 DEF CoversTo
  <2>4. \A e \in 1..token.depth : Levels(R, q, q.direction)[e] \subseteq IdsAt(q, H, e)
    BY <2>1, <2>2, <2>3
  <2>5. Levels(R, q, q.direction)[token.depth] \subseteq token.frontier
    BY <2>1, <2>2, <2>3
  <2> QED
    BY <1>1, <2>4, <2>5 DEF CoversTo
<1>2. CASE q.kind # "walk"
  <2>1. Results(q, Selected(R, q)) \subseteq Results(q, Selected(T, q))
    BY <1>2, SelectedGrows DEF Statement
  <2> QED
    BY <1>2, <2>1 DEF CoversTo
<1> QED
  BY <1>1, <1>2

\* Others append and purge.
LEMMA OthersAnswer ==
  ASSUME ReaderOK, BelongsOK, CoverOK, StoreOK',
         UNCHANGED reader, throughout' \subseteq throughout, ever \subseteq ever'
  PROVE  BelongsOK' /\ CoverOK'
<1>1. UNCHANGED <<query, how, pc, cursor, page, more, buffer, complete, taken, frontier, level,
                  seen, depth>>
  BY DEF reader, walk
<1>2. Handed' = Handed /\ (Relevant' <=> Relevant) /\ (Counts' <=> Counts)
  BY <1>1 DEF Handed, Given, Relevant, Counts
<1>3. CASE ~ Relevant
  BY <1>2, <1>3 DEF BelongsOK, CoverOK, Counts
<1>4. CASE Relevant
  <2>1. query \in Query /\ pc # "idle"
    BY <1>4 DEF Relevant, ReaderOK, PlaceOK
  <2>2. ever' \in SUBSET Row /\ ever \in SUBSET ever'
    BY DEF StoreOK
  <2>3. throughout \in SUBSET Row /\ throughout' \in SUBSET throughout
    BY DEF ReaderOK, StoreOK
  <2>4. \A x \in (Handed \cup page)' : Belongs(ever', query, how, x)
    BY <1>1, <1>2, <1>4, <2>1, <2>2, BelongsGrows DEF BelongsOK
  <2>5. ASSUME pc \in Walking
        PROVE  /\ query.kind = "walk" /\ depth - 1 \in 0..query.depth /\ depth - 1 \in Nat
               /\ pc = "expanded" => depth \in 0..query.depth
    BY <1>4, <2>5, QueryAssumption DEF ReaderOK, ReaderTypes, PlaceOK, BelongsOK, Walking
  <2>6. pc = "expanded" => level \subseteq Levels(ever', query, query.direction)[depth]
    BY <1>4, <2>1, <2>2, <2>5, LevelsGrow DEF BelongsOK, Walking
  <2>7. BelongsOK'
    BY <1>1, <1>2, <1>4, <2>4, <2>6 DEF BelongsOK
  <2>8. CASE ~ Counts
    BY <1>2, <2>7, <2>8 DEF CoverOK
  <2>9. CASE Counts
    <3>1. cursor # None /\ pc \notin {"last", "ended"} =>
            CoversTo(throughout', query, cursor, Handed)
      BY <1>4, <2>1, <2>3, <2>9, CoversToShrinks
      DEF CoverOK, BelongsOK, ReaderOK, PlaceOK, TokenOK
    <3>2. more # None => CoversTo(throughout', query, more, Handed \cup page)
      BY <1>4, <2>1, <2>3, <2>9, CoversToShrinks
      DEF CoverOK, BelongsOK, ReaderOK, PlaceOK, TokenOK
    <3>3. pc = "fetched" /\ complete => Covers(throughout', query, Handed \cup page)
      BY <2>1, <2>3, <2>9, CoversShrinks DEF CoverOK
    <3>4. pc \in {"last", "ended"} /\ complete => Covers(throughout', query, Handed)
      BY <2>1, <2>3, <2>9, CoversShrinks DEF CoverOK
    <3>5. pc = "merging" => Ids(Reached(throughout', query, "forward")) \subseteq Ids(page)
      BY <2>1, <2>3, <2>9, ReachedGrows DEF CoverOK, ReaderOK, PlaceOK
    <3>6. pc \in Walking =>
            /\ CoversTo(throughout', query, [frontier |-> frontier, depth |-> depth - 1],
                        Handed \cup page)
            /\ seen \subseteq Ids(Handed \cup page) \cup {query.start}
      <4> DEFINE token == [frontier |-> frontier, depth |-> depth - 1]
      <4> SUFFICES ASSUME pc \in Walking
                   PROVE  /\ CoversTo(throughout', query, token, Handed \cup page)
                          /\ seen \subseteq Ids(Handed \cup page) \cup {query.start}
        OBVIOUS
      <4>1. token.depth = depth - 1 /\ CoversTo(throughout, query, token, Handed \cup page)
        BY <2>9 DEF CoverOK
      <4> HIDE DEF token
      <4>2. CoversTo(throughout', query, token, Handed \cup page)
        BY <2>1, <2>3, <2>5, <4>1, CoversToShrinks
      <4> QED
        BY <2>9, <4>2 DEF CoverOK
    <3>7. pc = "expanded" => Levels(throughout', query, query.direction)[depth] \subseteq level
      BY <2>1, <2>3, <2>5, <2>9, LevelsGrow DEF CoverOK, Walking
    <3>8. CoverOK'
      BY <1>1, <1>2, <3>1, <3>2, <3>3, <3>4, <3>5, <3>6, <3>7 DEF CoverOK
    <3> QED
      BY <2>7, <3>8
  <2> QED
    BY <2>8, <2>9
<1> QED
  BY <1>3, <1>4
\* A statement passes over what is behind its token only ...
LEMMA RestIsPageable ==
  ASSUME StoreOK, query \in Query, query.kind \in Statement,
         NEW x \in Results(query, Selected(rows, query)),
         \/ cursor = None
         \/ TokenOK(cursor) /\ ~ Behind(query, cursor, x)
  PROVE  x \in Results(query, Pageable)
<1>1. PICK r \in Selected(rows, query) : x = Result(query, r)
  BY DEF Results
<1>2. r \in rows /\ r.id \in Nat /\ r.version \in Nat
  <2>1. Selected(rows, query) \subseteq rows
    BY PageableAre DEF Statement
  <2>2. r \in Row
    BY <2>1 DEF StoreOK
  <2> QED
    BY <2>1, <2>2, IdAssumption DEF Row
<1>3. r \in Pageable
  <2>1. CASE cursor = None
    BY <2>1 DEF Pageable, FromCursor
  <2>2. CASE cursor # None /\ query.kind = "range"
    <3>1. ~ (r.version < cursor.next) /\ cursor.next \in Nat
      BY <1>1, <2>2 DEF Behind, TokenOK, Result
    <3>2. r.version >= cursor.next
      BY <1>2, <3>1
    <3> QED
      BY <2>2, <3>2 DEF Pageable, FromCursor
  <2>3. CASE cursor # None /\ query.kind = "correlation"
    <3>1. ~ (r.id <= cursor.after) /\ cursor.after \in Nat
      BY <1>1, <2>3 DEF Behind, TokenOK, Result
    <3>2. r.id > cursor.after
      BY <1>2, <3>1
    <3> QED
      BY <2>3, <3>2 DEF Pageable, FromCursor
  <2> QED
    BY <2>1, <2>2, <2>3 DEF TokenOK, Statement
<1> QED
  BY <1>1, <1>3 DEF Results

\* ... and the token that it ends with has nothing behind it that the page leaves out.
LEMMA CutLeaves ==
  ASSUME NEW M \in SUBSET Item, NEW P \in SUBSET M, NEW b, IsPage(P, M, b), P # M,
         query.kind \in {"range", "correlation"},
         query.kind # "range" => \A x \in M : x.at = 0,
         NEW x \in M \ P
  PROVE  ~ Behind(query, CursorAfter(query, P, M), x)
<1> DEFINE f == First(M \ P)
<1>1. f \in M \ P /\ (x = f \/ Before(f, x))
  BY CutIs
<1>2. x.at \in Nat /\ x.id \in Nat /\ f.at \in Nat /\ f.id \in Nat /\ x.id # 0
  <2>1. x.id \in Id
    BY ItemIs
  <2> HIDE DEF f
  <2> QED
    BY <1>1, <2>1, ItemIs, IdAssumption
<1>3. CASE query.kind = "range"
  <2>1. CursorAfter(query, P, M).next = f.at
    BY <1>3 DEF CursorAfter
  <2> HIDE DEF f
  <2>2. f.at <= x.at
    BY <1>1, <1>2 DEF Before
  <2> QED
    BY <1>2, <1>3, <2>1, <2>2 DEF Behind
<1>4. CASE query.kind = "correlation" /\ P = {}
  <2>1. CursorAfter(query, P, M).after = 0
    BY <1>4 DEF CursorAfter
  <2> QED
    BY <1>2, <1>4, <2>1 DEF Behind
<1>5. CASE query.kind = "correlation" /\ P # {}
  <2>1. CursorAfter(query, P, M).after = Max(Ids(P))
    BY <1>5 DEF CursorAfter
  <2>2. Max(Ids(P)) \in Nat /\ Max(Ids(P)) \in Ids(P)
    <3>1. (\A y \in P : y.at = 0) /\ f.at = 0
      BY <1>1, <1>5
    <3> QED
      BY <1>5, <3>1, CutIs
  <2> HIDE DEF f
  <2>3. PICK p \in P : p.id = Max(Ids(P))
    BY <2>2 DEF Ids
  <2>4. Before(p, x) /\ p.at = 0 /\ x.at = 0
    BY <1>5 DEF IsPage
  <2>5. p.id < x.id
    BY <2>4 DEF Before
  <2> QED
    BY <1>2, <1>5, <2>1, <2>2, <2>3, <2>5 DEF Behind
<1> QED
  BY <1>3, <1>4, <1>5

LEMMA FetchAnswer ==
  ASSUME ReaderOK, BelongsOK, CoverOK,
         \/ ReadRange \/ ReadBatch \/ ReadByCorrelation
         \/ \E b \in Budget : ReadRangeBounded(b) \/ ReadByCorrelationBounded(b)
  PROVE  BelongsOK' /\ CoverOK'
<1> DEFINE M == Results(query, Pageable)
           All(R) == Results(query, Selected(R, query))
<1>1. PICK b : Fetch(M, b)
  BY FetchIs
<1>2. /\ pc = "ready" /\ query \in Query /\ query.kind \in Statement
      /\ query.kind = "batch" => how = "whole"
      /\ M \in SUBSET Item
  BY FetchIs DEF Statement
<1>3. PICK P \in SUBSET M :
        /\ IsPage(P, M, b)
        /\ page' = P
        /\ more' = IF how = "whole" THEN None ELSE CursorAfter(query, P, M)
        /\ complete' = (P = M)
  BY <1>1 DEF Fetch
<1>4. /\ pc' = "fetched"
      /\ UNCHANGED <<query, how, cursor, buffer, taken, throughout, ever>>
  BY <1>1 DEF Fetch, store
<1>5. Handed' = Handed /\ (Relevant' <=> Relevant) /\ (Counts' <=> Counts)
  BY <1>2, <1>4 DEF Handed, Given, Relevant, Counts
<1>6. M \subseteq All(rows)
  <2>1. Pageable \subseteq Selected(rows, query)
    BY DEF Pageable, FromCursor
  <2> QED
    BY <2>1 DEF Results
<1>7. query.kind # "walk" /\ query.kind # "aggregate"
  BY <1>2 DEF Statement
<1>8. Relevant => BelongsOK'
  <2> SUFFICES ASSUME Relevant PROVE BelongsOK'
    OBVIOUS
  <2>1. rows \in SUBSET ever /\ ever \in SUBSET Row
    BY <1>2 DEF ReaderOK, StoreOK
  <2>2. \A x \in All(rows) : x.id \in Answer(rows, query)
    BY <1>2, AnswerIs DEF Ids
  <2>3. Answer(rows, query) \subseteq Answer(ever, query)
    BY <1>2, <2>1, AnswerGrows
  <2> HIDE DEF M, All
  <2>4. \A x \in P : Belongs(ever, query, how, x)
    BY <1>6, <1>7, <2>2, <2>3 DEF Belongs
  <2>5. \A x \in Handed : Belongs(ever, query, how, x)
    BY DEF BelongsOK
  <2> QED
    BY <1>3, <1>4, <1>5, <1>7, <2>4, <2>5 DEF BelongsOK, Walking
<1>9. Counts => CoverOK'
  <2> SUFFICES ASSUME Counts PROVE CoverOK'
    OBVIOUS
  <2>1. All(throughout) \subseteq All(rows)
    <3>1. throughout \in SUBSET rows
      BY DEF ReaderOK, StoreOK
    <3> QED
      BY <1>2, <3>1, SelectedGrows
  <2>2. cursor # None => TokenOK(cursor) /\ CoversTo(throughout, query, cursor, Handed)
    BY <1>2, <2>1 DEF ReaderOK, PlaceOK, CoverOK
  <2>3. \A x \in All(throughout) : x \in M \/ x \in Handed
    <3> TAKE x \in All(throughout)
    <3>1. x \in All(rows)
      BY <2>1
    <3>2. cursor # None /\ Behind(query, cursor, x) => x \in Handed
      BY <1>7, <2>2 DEF CoversTo
    <3> QED
      BY <1>2, <2>2, <3>1, <3>2, RestIsPageable DEF ReaderOK
  <2>4. Answer(throughout, query) = Ids(All(throughout))
    BY <1>2, AnswerIs
  <2>5. query.kind # "range" => \A x \in M : x.at = 0
    BY ResultsAt
  <2> HIDE DEF M
  <2>6. P = M => Covers(throughout, query, Handed \cup P)
    <3> HIDE DEF All
    <3> QED
      BY <2>3, <2>4 DEF Covers, Ids
  <2>7. more' # None => CoversTo(throughout, query, more', Handed \cup P)
    <3> SUFFICES ASSUME more' # None PROVE CoversTo(throughout, query, more', Handed \cup P)
      OBVIOUS
    <3>1. how # "whole" /\ more' = CursorAfter(query, P, M) /\ P # M
      BY <1>3 DEF CursorAfter
    <3>2. query.kind \in {"range", "correlation"}
      BY <1>2, <3>1 DEF Statement
    <3>3. \A x \in M \ P : ~ Behind(query, more', x)
      BY <1>2, <1>3, <2>5, <3>1, <3>2, CutLeaves
    <3>4. \A x \in All(throughout) : Behind(query, more', x) => x \in Handed \cup P
      <4> HIDE DEF All
      <4> QED
        BY <2>3, <3>3
    <3> QED
      BY <1>7, <3>4 DEF CoversTo
  <2>8. complete' => P = M
    BY <1>3, Zenon
  <2>9. complete' => Covers(throughout, query, Handed \cup P)
    BY <2>6, <2>8
  <2> QED
    BY <1>2, <1>3, <1>4, <1>5, <2>2, <2>7, <2>9 DEF CoverOK, Walking
<1> QED
  BY <1>5, <1>8, <1>9 DEF BelongsOK, CoverOK, Counts
LEMMA WholeAnswer ==
  ASSUME ReaderOK, BelongsOK, CoverOK, WalkWhole
  PROVE  BelongsOK' /\ CoverOK'
<1> DEFINE Fwd(R) == Ids(Reached(R, query, "forward"))
           Bwd(R) == Ids(Reached(R, query, "backward"))
           Unmet == {y \in Reached(rows, query, "backward") : y.id \notin Ids(page)}
           Ancestors == {[x EXCEPT !.at = @ + query.depth] : x \in Unmet}
<1>1. /\ pc \in {"ready", "merging"} /\ pc' \in {"merging", "fetched"}
      /\ query.kind = "walk" /\ how = "whole" /\ query \in Query
      /\ UNCHANGED <<query, how, cursor, more, buffer, taken, throughout, ever>>
  BY DEF WalkWhole, store, ReaderOK, PlaceOK
<1>2. cursor = None /\ more = None
  BY <1>1 DEF ReaderOK, PlaceOK, TokenOK
<1>3. Handed' = Handed /\ (Relevant' <=> Relevant) /\ (Counts' <=> Counts)
  BY <1>1 DEF Handed, Given, Relevant, Counts
<1>4. /\ rows \in SUBSET Row /\ rows \in SUBSET ever /\ ever \in SUBSET Row
      /\ throughout \in SUBSET Row /\ throughout \in SUBSET rows
  BY <1>1 DEF ReaderOK, StoreOK
<1>5. /\ Answer(rows, query) \subseteq Answer(ever, query)
      /\ Fwd(throughout) \subseteq Fwd(rows) /\ Bwd(throughout) \subseteq Bwd(rows)
      /\ Answer(throughout, query) \subseteq Answer(rows, query)
  BY <1>1, <1>4, AnswerGrows, ReachedGrows
<1>6. query.direction = "both" =>
        /\ Answer(rows, query) = Fwd(rows) \cup Bwd(rows)
        /\ Answer(throughout, query) = Fwd(throughout) \cup Bwd(throughout)
  BY <1>1 DEF Answer
<1>7. query.direction # "both" => Answer(rows, query) = Ids(Reached(rows, query, query.direction))
  BY <1>1 DEF Answer
<1>8. \/ /\ pc = "ready" /\ query.direction # "both"
         /\ page' = Reached(rows, query, query.direction) /\ pc' = "fetched"
      \/ /\ pc = "ready" /\ query.direction = "both"
         /\ page' = Reached(rows, query, "forward") /\ pc' = "merging"
      \/ /\ pc = "merging" /\ query.direction = "both"
         /\ page' = page \cup Ancestors
         /\ pc' = "fetched"
  BY DEF WalkWhole, ReaderOK, PlaceOK
<1>9. Ids(page \cup Ancestors) = Ids(page) \cup Bwd(rows)
  <2>1. Reached(rows, query, "backward") \subseteq Item
    BY <1>1, <1>4, ReachedItems
  <2>2. \A x \in Unmet : [x EXCEPT !.at = @ + query.depth].id = x.id
    BY <2>1 DEF Item
  <2>3. Ids(Ancestors) = Ids(Unmet)
    BY <2>2 DEF Ids
  <2>4. Ids(page) \cup Ids(Unmet) = Ids(page) \cup Bwd(rows)
    BY DEF Ids
  <2>5. Ids(page \cup Ancestors) = Ids(page) \cup Ids(Ancestors)
    BY DEF Ids
  <2> QED
    BY <2>3, <2>4, <2>5
<1>10. Ids(page') = CASE pc = "merging" -> Ids(page) \cup Bwd(rows)
                      [] pc = "ready" /\ query.direction = "both" -> Fwd(rows)
                      [] OTHER -> Answer(rows, query)
  BY <1>7, <1>8, <1>9
<1> HIDE DEF Fwd, Bwd, Ancestors
<1>11. \A H : (\A x \in H : Belongs(ever, query, how, x)) <=> Ids(H) \subseteq Answer(ever, query)
  BY <1>1 DEF Belongs, Ids
<1>12. ASSUME Relevant PROVE BelongsOK'
  <2>1. Ids(Handed \cup page) \subseteq Answer(ever, query)
    BY <1>11, <1>12 DEF BelongsOK
  <2>2. Ids(Handed) \subseteq Answer(ever, query) /\ Ids(page) \subseteq Answer(ever, query)
    BY <2>1 DEF Ids
  <2>3. Ids(page') \subseteq Answer(ever, query)
    BY <1>5, <1>6, <1>8, <1>10, <2>2
  <2>4. Ids(Handed \cup page') \subseteq Answer(ever, query)
    BY <2>2, <2>3 DEF Ids
  <2>5. \A x \in Handed \cup page' : Belongs(ever, query, how, x)
    BY <1>11, <2>4
  <2> QED
    BY <1>1, <1>2, <1>3, <2>5 DEF BelongsOK, Walking
<1>13. ASSUME Counts PROVE CoverOK'
  <2>1. pc = "merging" => Fwd(throughout) \subseteq Ids(page)
    BY <1>13 DEF CoverOK, Fwd
  <2>2. pc' = "fetched" => Answer(throughout, query) \subseteq Ids(page')
    BY <1>5, <1>6, <1>8, <1>10, <2>1
  <2>3. pc' = "merging" => Fwd(throughout) \subseteq Ids(page')
    BY <1>5, <1>8, <1>10
  <2>4. Ids(page') \subseteq Ids(Handed \cup page')
    BY DEF Ids
  <2>5. pc' = "fetched" => Covers(throughout, query, Handed \cup page')
    BY <2>2, <2>4 DEF Covers
  <2> QED
    BY <1>1, <1>2, <1>3, <2>3, <2>5 DEF CoverOK, Walking, Fwd
<1> QED
  BY <1>3, <1>12, <1>13 DEF BelongsOK, CoverOK

\* The GLOB of an aggregate leaves out nothing that its pattern matches.
LEMMA AggregateAnswer ==
  ASSUME ReaderOK, BelongsOK, CoverOK, NEW b, ReadAggregate(b)
  PROVE  BelongsOK' /\ CoverOK'
<1> DEFINE Matching(R) == {r \in R : Matches(query.pattern, r.stream)}
<1>1. /\ pc = "ready" /\ query.kind = "aggregate" /\ query \in Query
      /\ pc' \in {"spinning", "failed", "last"}
      /\ UNCHANGED <<query, how, cursor, page, more, taken, throughout, ever>>
  BY DEF ReadAggregate, store, ReaderOK, PlaceOK
<1>2. cursor = None /\ more = None /\ page = {}
  BY <1>1 DEF ReaderOK, PlaceOK, TokenOK, Walking
<1>3. PICK R \in SUBSET Selected(rows, query) : \E C :
        /\ C = {} <=> R = Selected(rows, query)
        /\ \/ pc' \in {"spinning", "failed"} /\ buffer' = buffer
           \/ pc' = "last" /\ buffer' = Results(query, Matching(R)) /\ complete' = (C = {})
  BY DEF ReadAggregate
<1>4. complete' /\ pc' = "last" => R = Selected(rows, query)
  BY <1>1, <1>3, Zenon
<1>5. /\ rows \in SUBSET Row /\ rows \in SUBSET ever /\ ever \in SUBSET Row
      /\ throughout \in SUBSET rows
  BY <1>1 DEF ReaderOK, StoreOK
<1>6. \A T : Answer(T, query) = {r.id : r \in {x \in T : Matches(query.pattern, x.stream)
                                                     /\ OfType(query, x)}}
  BY <1>1 DEF Answer
<1>7. Selected(rows, query) = {r \in rows : SqlGlob(query.pattern, r.stream) /\ OfType(query, r)}
  BY <1>1 DEF Selected
<1>8. \A x \in Results(query, Matching(R)) : x.id \in Answer(ever, query)
  <2> SUFFICES ASSUME NEW r \in Matching(R) PROVE Result(query, r).id \in Answer(ever, query)
    BY DEF Results
  <2>1. r \in ever /\ Matches(query.pattern, r.stream) /\ OfType(query, r)
    BY <1>5, <1>7
  <2>2. Result(query, r).id = r.id
    BY DEF Result
  <2> QED
    BY <1>6, <2>1, <2>2
<1>9. ~ HasDoubleStar(query.pattern) /\ R = Selected(rows, query) =>
        Answer(throughout, query) \subseteq Ids(Results(query, Matching(R)))
  <2> SUFFICES ASSUME ~ HasDoubleStar(query.pattern), R = Selected(rows, query),
                      NEW i \in Answer(throughout, query)
               PROVE  i \in Ids(Results(query, Matching(R)))
    OBVIOUS
  <2>1. PICK r \in throughout : r.id = i /\ Matches(query.pattern, r.stream) /\ OfType(query, r)
    BY <1>6
  <2>2. r \in rows /\ r.stream \in Stream
    BY <1>5, <2>1 DEF Row
  <2>3. /\ query.pattern \in Seq(STRING) /\ query.pattern # <<>>
        /\ r.stream \in Seq(STRING) /\ r.stream # <<>>
    BY <1>1, <2>2, QueryAssumption, NameAssumption
  <2>4. SqlGlob(query.pattern, r.stream)
    BY <2>1, <2>3, GlobMatches
  <2>5. r \in Matching(R)
    BY <1>7, <2>1, <2>2, <2>4
  <2>6. Result(query, r) \in Results(query, Matching(R)) /\ Result(query, r).id = i
    BY <2>1, <2>5 DEF Results, Result
  <2> QED
    BY <2>6 DEF Ids
<1> HIDE DEF Matching
<1>10. ASSUME Relevant PROVE BelongsOK' /\ CoverOK'
  <2>1. \A x \in Handed : Belongs(ever, query, how, x)
    BY <1>10 DEF BelongsOK
  <2>2. \A x \in Handed' : x \in Handed \/ x \in Results(query, Matching(R))
    BY <1>1, <1>3 DEF Handed, Given
  <2>3. \A x \in Handed' : Belongs(ever, query, how, x)
    BY <1>1, <1>8, <2>1, <2>2 DEF Belongs
  <2>4. BelongsOK'
    BY <1>1, <1>2, <2>3 DEF BelongsOK, Walking
  <2>5. complete' /\ pc' = "last" => Covers(throughout, query, Handed')
    <3> SUFFICES ASSUME complete', pc' = "last" PROVE Covers(throughout, query, Handed')
      OBVIOUS
    <3>1. Answer(throughout, query) \subseteq Ids(Results(query, Matching(R)))
      BY <1>1, <1>4, <1>9, <1>10 DEF Relevant
    <3>2. Results(query, Matching(R)) \subseteq Handed'
      BY <1>3 DEF Handed
    <3> QED
      BY <3>1, <3>2 DEF Covers, Ids
  <2>6. CoverOK'
    BY <1>1, <1>2, <2>5 DEF CoverOK, Walking
  <2> QED
    BY <2>4, <2>6
<1> QED
  BY <1>1, <1>10 DEF BelongsOK, CoverOK, Counts, Relevant
\* When a token is as deep as the walk goes, it leaves the whole answer behind.
LEMMA CoversAll ==
  ASSUME NEW R \in SUBSET Row, NEW q \in Query, q.kind = "walk", q.direction # "both", NEW H,
         \A e \in 1..q.depth : Levels(R, q, q.direction)[e] \subseteq IdsAt(q, H, e)
  PROVE  Covers(R, q, H)
<1>1. Answer(R, q) = UNION {Levels(R, q, q.direction)[d] : d \in 1..q.depth}
  BY WalkAnswer
<1>2. \A e \in 1..q.depth : IdsAt(q, H, e) \subseteq Ids(H)
  <2>1. \A e \in 1..q.depth : e # 0
    BY QueryAssumption
  <2> QED
    BY <2>1 DEF IdsAt, Ids, Root
<1> QED
  BY <1>1, <1>2 DEF Covers

\* A walk by pages in one direction, and its events.
LEMMA ByPages ==
  ASSUME ReaderOK, LineageOK, BelongsOK, Relevant, query.kind = "walk", how # "whole"
  PROVE  /\ OneWay /\ query \in Query
         /\ query.start \in Id /\ query.depth \in Nat /\ query.direction \in {"forward", "backward"}
         /\ \A d \in 0..query.depth :
              IdsAt(query, Handed \cup page, d) \subseteq Levels(ever, query, query.direction)[d]
         /\ rows \in SUBSET ever /\ ever \in SUBSET Row
         /\ throughout \in SUBSET rows /\ throughout \in SUBSET Row
<1>1. query \in Query /\ pc # "idle" /\ OneWay
  BY DEF Relevant, ReaderOK, PlaceOK, OneWay
<1>2. query.start \in Id /\ query.depth \in Nat /\ query.direction \in {"forward", "backward"}
  BY <1>1, QueryAssumption DEF OneWay, Direction
<1>3. /\ rows \in SUBSET ever /\ ever \in SUBSET Row
      /\ throughout \in SUBSET rows /\ throughout \in SUBSET Row
  BY <1>1 DEF ReaderOK, StoreOK
<1>4. Levels(ever, query, query.direction)[0] = {query.start}
  BY <1>1, <1>3, LevelsAre DEF AreLevels
<1>5. \A x \in Handed \cup page : x.id \in Levels(ever, query, query.direction)[x.at]
  BY DEF BelongsOK, Belongs
<1>6. \A x \in Handed \cup page \cup {Root(query)} :
        x.id \in Levels(ever, query, query.direction)[x.at]
  BY <1>4, <1>5 DEF Root
<1> QED
  BY <1>1, <1>2, <1>3, <1>6 DEF IdsAt

LEMMA StartAnswer ==
  ASSUME ReaderOK, LineageOK, BelongsOK, CoverOK, NEW b \in Budget, StartWalk(b)
  PROVE  BelongsOK' /\ CoverOK'
<1>1. /\ pc = "ready" /\ pc' = "expanding" /\ page = {} /\ more = None
      /\ query.kind = "walk" /\ how # "whole"
      /\ UNCHANGED <<query, how, cursor, page, more, buffer, taken, throughout, ever>>
      /\ frontier' = IF cursor = None THEN {query.start} ELSE cursor.frontier
      /\ depth' = IF cursor = None THEN 1 ELSE cursor.depth + 1
      /\ seen' = frontier'
  BY DEF StartWalk, store, ReaderOK, PlaceOK, Walking
<1>2. Handed' = Handed /\ (Relevant' <=> Relevant) /\ (Counts' <=> Counts)
  BY <1>1 DEF Handed, Given, Relevant, Counts
<1>3. cursor # None => cursor.depth \in Nat
  BY <1>1 DEF ReaderOK, PlaceOK, TokenOK
<1>4. depth' - 1 = IF cursor = None THEN 0 ELSE cursor.depth
  BY <1>1, <1>3
<1>5. ASSUME Relevant PROVE BelongsOK'
  <2>1. query.depth \in Nat
    BY <1>1, <1>5, ByPages
  <2>2. depth' - 1 <= query.depth
    BY <1>1, <1>4, <1>5, <2>1 DEF BelongsOK
  <2> QED
    BY <1>1, <1>2, <1>5, <2>2 DEF BelongsOK
<1>6. ASSUME Counts PROVE CoverOK'
  <2> DEFINE token == [frontier |-> frontier', depth |-> depth' - 1]
  <2>1. OneWay /\ query \in Query /\ query.start \in Id /\ throughout \in SUBSET Row
    BY <1>1, <1>6, ByPages DEF Counts
  <2>2. cursor # None => /\ CoversTo(throughout, query, cursor, Handed)
                         /\ cursor.frontier \subseteq IdsAt(query, Handed, cursor.depth)
    BY <1>1, <1>6, <2>1 DEF CoverOK, LineageOK
  <2>3. Handed \cup page = Handed
    BY <1>1
  <2>4. CoversTo(throughout, query, token, Handed)
    <3>1. CASE cursor = None
      <4>1. token.depth = 0 /\ token.frontier = {query.start}
        BY <1>1, <1>4, <3>1
      <4>2. Levels(throughout, query, query.direction)[0] = {query.start}
        BY <1>1, <2>1, LevelsAre DEF AreLevels
      <4> HIDE DEF token
      <4> QED
        BY <1>1, <4>1, <4>2 DEF CoversTo
    <3>2. CASE cursor # None
      <4>1. token.depth = cursor.depth /\ token.frontier = cursor.frontier
        BY <1>1, <1>4, <3>2
      <4> HIDE DEF token
      <4> QED
        BY <1>1, <2>2, <3>2, <4>1 DEF CoversTo
    <3> QED
      BY <3>1, <3>2
  <2>5. seen' \subseteq Ids(Handed) \cup {query.start}
    BY <1>1, <2>2 DEF IdsAt, Ids, Root
  <2> QED
    BY <1>1, <1>2, <1>6, <2>2, <2>3, <2>4, <2>5 DEF CoverOK
<1> QED
  BY <1>2, <1>5, <1>6 DEF BelongsOK, CoverOK

LEMMA ExpandAnswer ==
  ASSUME ReaderOK, LineageOK, BelongsOK, CoverOK, ExpandForward \/ ExpandBackward
  PROVE  BelongsOK' /\ CoverOK'
<1> DEFINE dir == query.direction
<1>1. /\ pc \in {"expanding", "returning"} /\ pc' \in {"returning", "expanded"}
      /\ query.kind = "walk" /\ how # "whole" /\ depth \in Nat /\ depth >= 1 /\ more = None
      /\ UNCHANGED <<query, how, cursor, page, more, buffer, taken, frontier, seen, depth,
                     throughout, ever>>
  BY DEF ExpandForward, ExpandBackward, store, ReaderOK, ReaderTypes, PlaceOK, Walking
<1>2. Handed' = Handed /\ (Relevant' <=> Relevant) /\ (Counts' <=> Counts)
  BY <1>1 DEF Handed, Given, Relevant, Counts
<1>3. ASSUME Relevant
      PROVE  /\ depth \in 1..query.depth /\ depth - 1 \in 0..query.depth
             /\ pc' = "expanded" /\ level' = Expand(rows, dir, frontier)
  <2>1. OneWay /\ dir \in {"forward", "backward"} /\ query.depth \in Nat
    BY <1>1, <1>3, ByPages
  <2>2. pc = "expanding" /\ level = {}
    BY <1>1, <2>1 DEF LineageOK
  <2>3. depth <= query.depth
    BY <2>2 DEF ExpandForward, ExpandBackward
  <2>4. pc' = "expanded" /\ level' = Expand(rows, dir, frontier)
    BY <2>1, <2>2 DEF ExpandForward, ExpandBackward, Expand
  <2> QED
    BY <1>1, <2>1, <2>3, <2>4
<1>4. ASSUME Relevant
      PROVE  level' \subseteq Levels(ever, query, dir)[depth]
  <2>1. frontier \subseteq IdsAt(query, Handed \cup page, depth - 1)
    BY <1>1, <1>3, <1>4, ByPages DEF LineageOK, Walking
  <2>2. frontier \subseteq Levels(ever, query, dir)[depth - 1]
    BY <1>1, <1>3, <1>4, <2>1, ByPages
  <2>3. query \in Query /\ rows \in SUBSET ever /\ ever \in SUBSET Row
    BY <1>1, <1>4, ByPages
  <2>4. Levels(ever, query, dir)[depth] = Expand(ever, dir, Levels(ever, query, dir)[depth - 1])
    BY <1>1, <1>3, <1>4, <2>3, LevelsAre DEF AreLevels
  <2>5. Expand(rows, dir, frontier) \subseteq Expand(ever, dir, Levels(ever, query, dir)[depth - 1])
    BY <2>2, <2>3, ExpandGrows
  <2> QED
    BY <1>3, <1>4, <2>4, <2>5
<1>5. ASSUME Relevant PROVE BelongsOK'
  BY <1>1, <1>2, <1>3, <1>4, <1>5 DEF BelongsOK, Walking
<1>6. ASSUME Counts PROVE CoverOK'
  <2>1. Relevant
    BY <1>6 DEF Counts
  <2>2. query \in Query /\ throughout \in SUBSET rows /\ throughout \in SUBSET Row
    BY <1>1, <2>1, ByPages
  <2>3. /\ CoversTo(throughout, query, [frontier |-> frontier, depth |-> depth - 1], Handed \cup page)
        /\ seen \subseteq Ids(Handed \cup page) \cup {query.start}
    BY <1>1, <1>6 DEF CoverOK, Walking
  <2>4. Levels(throughout, query, dir)[depth - 1] \subseteq frontier
    BY <1>1, <2>3 DEF CoversTo
  <2>5. Levels(throughout, query, dir)[depth] =
          Expand(throughout, dir, Levels(throughout, query, dir)[depth - 1])
    BY <1>1, <1>3, <2>1, <2>2, LevelsAre DEF AreLevels
  <2>6. Levels(throughout, query, dir)[depth] \subseteq level'
    BY <1>3, <2>1, <2>2, <2>4, <2>5, ExpandGrows
  <2>7. cursor # None => CoversTo(throughout, query, cursor, Handed)
    BY <1>1, <1>6 DEF CoverOK
  <2> QED
    BY <1>1, <1>2, <1>3, <2>1, <2>3, <2>6, <2>7 DEF CoverOK, Walking
<1> QED
  BY <1>2, <1>5, <1>6 DEF BelongsOK, CoverOK

LEMMA EndAnswer ==
  ASSUME ReaderOK, LineageOK, BelongsOK, CoverOK, EndWalk
  PROVE  BelongsOK' /\ CoverOK'
<1>1. /\ pc = "expanding" /\ pc' = "fetched" /\ more' = None /\ depth > query.depth
      /\ query.kind = "walk" /\ how # "whole" /\ depth \in Nat
      /\ UNCHANGED <<query, how, cursor, page, buffer, taken, throughout, ever>>
  BY DEF EndWalk, store, ReaderOK, ReaderTypes, PlaceOK, Walking
<1>2. Handed' = Handed /\ (Relevant' <=> Relevant) /\ (Counts' <=> Counts)
  BY <1>1 DEF Handed, Given, Relevant, Counts
<1>3. ASSUME Relevant PROVE BelongsOK'
  BY <1>1, <1>2, <1>3 DEF BelongsOK, Walking
<1>4. ASSUME Counts PROVE CoverOK'
  <2>1. Relevant
    BY <1>4 DEF Counts
  <2>2. query \in Query /\ query.depth \in Nat /\ throughout \in SUBSET Row /\ query.direction # "both"
    BY <1>1, <2>1, ByPages
  <2>3. depth - 1 = query.depth
    BY <1>1, <2>1, <2>2 DEF BelongsOK, Walking
  <2>4. CoversTo(throughout, query, [frontier |-> frontier, depth |-> depth - 1], Handed \cup page)
    BY <1>1, <1>4 DEF CoverOK, Walking
  <2>5. \A e \in 1..query.depth :
          Levels(throughout, query, query.direction)[e] \subseteq IdsAt(query, Handed \cup page, e)
    BY <1>1, <2>3, <2>4 DEF CoversTo
  <2>6. Covers(throughout, query, Handed \cup page)
    BY <1>1, <2>2, <2>5, CoversAll
  <2>7. cursor # None => CoversTo(throughout, query, cursor, Handed)
    BY <1>1, <1>4 DEF CoverOK
  <2> QED
    BY <1>1, <1>2, <2>6, <2>7 DEF CoverOK, Walking
<1> QED
  BY <1>2, <1>3, <1>4 DEF BelongsOK, CoverOK
\* The next level of a walk has none of the events that are to be skipped.
LEMMA FreshLevel ==
  ASSUME ReaderOK, OrderOK, LineageOK, OneWay, how # "whole", pc = "expanded",
         seen \subseteq Ids(Handed \cup page) \cup {query.start}
  PROVE  level \cap seen = {}
<1> DEFINE S == Handed \cup page
<1> SUFFICES ASSUME NEW i \in level, i \in seen PROVE FALSE
  OBVIOUS
<1> DEFINE x == [id |-> i, at |-> depth]
           H == S \cup {x}
<1>1. /\ S \subseteq Item /\ x \in Item /\ depth \in Nat /\ depth >= 1
      /\ query.start \in Id /\ query.direction \in {"forward", "backward"}
  <2>1. S \subseteq Item
    BY GivenItems DEF Handed, ReaderOK, ReaderTypes
  <2>2. depth \in Nat /\ depth >= 1 /\ i \in Id
    BY DEF ReaderOK, ReaderTypes, PlaceOK, Walking
  <2>3. query.start \in Id /\ query.direction \in {"forward", "backward"}
    BY QueryAssumption DEF OneWay, ReaderOK, PlaceOK, Direction
  <2> QED
    BY <2>1, <2>2, <2>3 DEF Item
<1>2. \A y \in S : y.at < depth
  <2>1. \A y \in page : y.at < depth
    BY DEF OrderOK, Walking
  <2>2. \A y \in Handed : y.at < depth
    <3>1. CASE cursor = None
      <4>1. Handed = {}
        BY <3>1, GivenItems DEF ReaderOK, PlaceOK, Handed
      <4> QED
        BY <4>1
    <3>2. CASE cursor # None
      <4>1. cursor.depth \in Nat /\ cursor.depth < depth /\ query.kind = "walk"
        BY <3>2 DEF ReaderOK, PlaceOK, TokenOK, OrderOK, Walking, OneWay
      <4>2. \A y \in Handed : y.at <= cursor.depth
        BY <3>2, <4>1 DEF OrderOK, Behind, Handed
      <4>3. \A y \in Handed : y.at \in Nat
        BY <1>1, ItemIs
      <4> QED
        BY <1>1, <4>1, <4>2, <4>3
    <3> QED
      BY <3>1, <3>2
  <2> QED
    BY <2>1, <2>2
<1>3. Lineage(query, H)
  <2>1. /\ Lineage(query, S)
        /\ frontier \subseteq IdsAt(query, S, depth - 1)
        /\ \E j \in frontier : Leads(query, j, i)
    BY DEF LineageOK, Walking
  <2> HIDE DEF S
  <2>2. PICK p \in S \cup {Root(query)} : p.at = depth - 1 /\ Leads(query, p.id, i)
    BY <2>1 DEF IdsAt
  <2>3. x.at = p.at + 1 /\ Leads(query, p.id, x.id)
    BY <1>1, <2>2
  <2> HIDE DEF x
  <2> QED
    BY <2>1, <2>2, <2>3 DEF Lineage
<1>4. /\ \A y, z \in H : y.id = z.id => y = z
      /\ \A y \in H : y.id # query.start
  <2> HIDE DEF S, x
  <2>1. H \in SUBSET Item
    BY <1>1
  <2> HIDE DEF H
  <2> QED
    BY <1>1, <1>3, <2>1, ForwardUnique, BackwardUnique
<1>5. x \in H /\ x.id = i /\ x.at = depth
  OBVIOUS
<1> HIDE DEF x
<1>6. i # query.start
  BY <1>4, <1>5
<1>7. PICK y \in S : y.id = i
  BY <1>6 DEF Ids
<1>8. y = x
  BY <1>4, <1>5, <1>7
<1> QED
  BY <1>1, <1>2, <1>5, <1>7, <1>8

LEMMA YieldAnswer ==
  ASSUME ReaderOK, OrderOK, LineageOK, BelongsOK, CoverOK, YieldLevel
  PROVE  BelongsOK' /\ CoverOK'
<1> DEFINE dir == query.direction
           new == Sampled(level \ seen, query)
           added == {[id |-> i, at |-> depth] : i \in new}
           S == Handed \cup page
<1>1. /\ new \subseteq level \ seen
      /\ pc = "expanded" /\ query.kind = "walk" /\ how # "whole" /\ depth \in Nat \ {0}
      /\ UNCHANGED <<query, how, cursor, buffer, taken, throughout, ever>>
      /\ \/ /\ new = {} /\ pc' = "fetched" /\ more' = None /\ page' = page
         \/ /\ new # {} /\ pc' = "fetched" /\ complete' = FALSE /\ page' = page
            /\ more' = [frontier |-> frontier, depth |-> depth - 1]
         \/ /\ pc' = "expanding" /\ page' = page \cup added /\ frontier' = new
            /\ seen' = seen \cup new /\ depth' = depth + 1 /\ more' = more
  BY YieldIs DEF store
<1>2. more = None
  BY <1>1 DEF ReaderOK, PlaceOK
<1>3. Handed' = Handed /\ (Relevant' <=> Relevant) /\ (Counts' <=> Counts)
  BY <1>1 DEF Handed, Given, Relevant, Counts
<1>4. Counts /\ seen \cap level = {} => new = level
  <2> SUFFICES ASSUME Counts, seen \cap level = {} PROVE new = level
    OBVIOUS
  <2>1. query.sample = None /\ level \ seen = level
    BY <1>1 DEF Counts
  <2> QED
    BY <2>1 DEF Sampled
<1> HIDE DEF new
<1>5. depth + 1 - 1 = depth /\ depth - 1 \in Nat
  BY <1>1
<1>6. \A x \in added : x.at = depth /\ x.id \in new
  OBVIOUS
<1>7. \A i \in new : \E x \in added : x.at = depth /\ x.id = i
  <2> TAKE i \in new
  <2>1. [id |-> i, at |-> depth] \in added
    OBVIOUS
  <2> QED
    BY <2>1
<1> HIDE DEF added
<1>8. ASSUME Relevant
      PROVE  /\ query.depth \in Nat /\ depth \in 1..query.depth /\ depth \in 0..query.depth
             /\ depth - 1 <= query.depth
             /\ level \subseteq Levels(ever, query, dir)[depth]
             /\ OneWay /\ query \in Query /\ throughout \in SUBSET Row /\ dir # "both"
  <2>1. /\ query.depth \in Nat /\ OneWay /\ query \in Query /\ throughout \in SUBSET Row
        /\ dir # "both"
    BY <1>1, <1>8, ByPages
  <2>2. depth <= query.depth /\ level \subseteq Levels(ever, query, dir)[depth]
    BY <1>1, <1>8 DEF BelongsOK
  <2> QED
    BY <1>1, <2>1, <2>2
<1>9. ASSUME Relevant PROVE BelongsOK'
  <2>1. \A x \in S : Belongs(ever, query, how, x)
    BY <1>9 DEF BelongsOK
  <2>2. \A x \in added : Belongs(ever, query, how, x)
    BY <1>1, <1>6, <1>8, <1>9 DEF Belongs
  <2>3. cursor # None => cursor.depth <= query.depth
    BY <1>1, <1>9 DEF BelongsOK
  <2>4. more' # None => more'.depth <= query.depth
    BY <1>1, <1>2, <1>8, <1>9
  <2>5. \A x \in (Handed \cup page)' : Belongs(ever, query, how, x)
    BY <1>1, <1>3, <2>1, <2>2
  <2>6. pc' \in Walking => pc' = "expanding" /\ depth' - 1 <= query.depth
    BY <1>1, <1>5, <1>8, <1>9 DEF Walking
  <2> QED
    BY <1>1, <1>3, <1>9, <2>3, <2>4, <2>5, <2>6 DEF BelongsOK, Walking
<1>10. ASSUME Counts PROVE CoverOK'
  <2> DEFINE l == Levels(throughout, query, dir)
             token == [frontier |-> frontier, depth |-> depth - 1]
  <2>1. Relevant
    BY <1>10 DEF Counts
  <2>2. /\ CoversTo(throughout, query, token, S)
        /\ seen \subseteq Ids(S) \cup {query.start}
        /\ l[depth] \subseteq level
    BY <1>1, <1>10 DEF CoverOK, Walking
  <2>3. new = level
    BY <1>1, <1>4, <1>8, <1>10, <2>1, <2>2, FreshLevel
  <2>4. cursor # None => CoversTo(throughout, query, cursor, Handed)
    BY <1>1, <1>10 DEF CoverOK
  <2>5. \A e \in 1..(depth - 1) : l[e] \subseteq IdsAt(query, S, e)
    BY <1>1, <2>2 DEF CoversTo
  <2>6. CASE new = {} /\ pc' = "fetched" /\ more' = None /\ page' = page
    <3>1. \A e \in depth..query.depth : l[e] = {}
      <4>1. l[depth] = {}
        BY <2>2, <2>3, <2>6
      <4>2. \A e \in 0..query.depth : depth <= e => l[e] = {}
        BY <1>1, <1>8, <2>1, <4>1, LevelsEnd
      <4> HIDE DEF l
      <4> QED
        BY <1>8, <2>1, <4>2
    <3>2. \A e \in 1..query.depth : l[e] \subseteq IdsAt(query, S, e)
      <4> HIDE DEF l, S
      <4>1. \A e \in 1..query.depth : e \in 1..(depth - 1) \/ e \in depth..query.depth
        BY <1>1, <1>8, <2>1
      <4> QED
        BY <2>5, <3>1, <4>1
    <3>3. Covers(throughout, query, S)
      BY <1>1, <1>8, <2>1, <3>2, CoversAll
    <3> QED
      BY <1>1, <1>3, <2>4, <2>6, <3>3 DEF CoverOK, Walking
  <2>7. CASE /\ pc' = "fetched" /\ complete' = FALSE /\ page' = page /\ more' = token
    <3>1. CoversTo(throughout, query, more', S)
      BY <2>2, <2>7
    <3> QED
      BY <1>1, <1>3, <2>4, <2>7, <3>1 DEF CoverOK, Walking
  <2>8. CASE /\ pc' = "expanding" /\ page' = page \cup added /\ frontier' = new
             /\ seen' = seen \cup new /\ depth' = depth + 1 /\ more' = more
    <3>1. \A e \in 1..depth : l[e] \subseteq IdsAt(query, S \cup added, e)
      <4> TAKE e \in 1..depth
      <4>1. CASE e = depth
        <5>1. new \subseteq IdsAt(query, S \cup added, depth)
          BY <1>7 DEF IdsAt
        <5> QED
          BY <2>2, <2>3, <4>1, <5>1
      <4>2. CASE e # depth
        <5>1. e \in 1..(depth - 1)
          BY <1>1, <4>2
        <5>2. IdsAt(query, S, e) \subseteq IdsAt(query, S \cup added, e)
          BY DEF IdsAt
        <5> HIDE DEF l, S
        <5> QED
          BY <2>5, <5>1, <5>2
      <4> QED
        BY <4>1, <4>2
    <3> DEFINE next == [frontier |-> frontier', depth |-> depth' - 1]
    <3>2. next.depth = depth /\ next.frontier = new
      <4>1. depth' - 1 = depth /\ frontier' = new
        BY <1>1, <2>8
      <4> QED
        BY <4>1
    <3> HIDE DEF next, l
    <3>3. CoversTo(throughout, query, next, S \cup added)
      <4>1. \A e \in 1..next.depth : l[e] \subseteq IdsAt(query, S \cup added, e)
        BY <3>1, <3>2
      <4>2. l[next.depth] \subseteq next.frontier
        BY <2>2, <2>3, <3>2
      <4> QED
        BY <1>1, <4>1, <4>2 DEF CoversTo, l
    <3>4. seen' \subseteq Ids(S \cup added) \cup {query.start}
      <4>1. new \subseteq Ids(S \cup added) /\ Ids(S) \subseteq Ids(S \cup added)
        BY <1>7 DEF Ids
      <4> QED
        BY <2>2, <2>8, <4>1
    <3>5. (Handed \cup page)' = S \cup added
      BY <1>3, <2>8
    <3> HIDE DEF S
    <3> QED
      BY <1>1, <1>2, <1>3, <2>4, <2>8, <3>3, <3>4, <3>5 DEF CoverOK, next
  <2> QED
    BY <1>1, <2>6, <2>7, <2>8
<1> QED
  BY <1>3, <1>9, <1>10 DEF BelongsOK, CoverOK
LEMMA PageAnswer ==
  ASSUME ReaderOK, BelongsOK, CoverOK,
         \/ \E q \in Query, h \in {"whole", "pages", "iterator"} : Ask(q, h)
         \/ UpcastPage \/ Take \/ Finish \/ Fail \/ AskAgain
  PROVE  BelongsOK' /\ CoverOK'
<1>1. ASSUME NEW q, NEW h, Ask(q, h) PROVE BelongsOK' /\ CoverOK'
  <2>1. /\ pc = "idle" /\ pc' = "ready"
        /\ UNCHANGED <<cursor, page, more, buffer, taken>>
    BY <1>1 DEF Ask
  <2>2. cursor = None /\ more = None /\ page = {} /\ buffer = {} /\ Given = {}
    BY <2>1, GivenItems DEF ReaderOK, PlaceOK, Walking
  <2>3. (Handed \cup page)' = {}
    BY <2>1, <2>2 DEF Handed, Given
  <2> QED
    BY <2>1, <2>2, <2>3 DEF BelongsOK, CoverOK, Walking
<1>2. CASE UpcastPage
  <2>1. /\ pc = "fetched" /\ page' = {} /\ more' = None /\ buffer = {}
        /\ UNCHANGED <<query, how, taken, complete, throughout, ever>>
        /\ \/ pc' \in {"spinning", "failed"} /\ UNCHANGED <<cursor, buffer>>
           \/ buffer' = page /\ more = None /\ pc' = "last" /\ UNCHANGED cursor
           \/ buffer' = page /\ more # None /\ pc' = "ready" /\ cursor' = more
    BY <1>2 DEF UpcastPage, store, ReaderOK, PlaceOK
  <2>2. (Relevant' <=> Relevant) /\ (Counts' <=> Counts) /\ pc' \notin Walking
    BY <2>1 DEF Relevant, Counts, Walking
  <2>3. CASE pc' \in {"spinning", "failed"} /\ UNCHANGED <<cursor, buffer>>
    <3>1. Handed' = Handed /\ (Handed \cup page)' = Handed
      BY <2>1, <2>3 DEF Handed, Given
    <3> QED
      BY <2>1, <2>2, <2>3, <3>1 DEF BelongsOK, CoverOK, Walking
  <2>4. CASE buffer' = page /\ more = None /\ pc' = "last" /\ UNCHANGED cursor
    <3>1. Handed' = Handed \cup page /\ (Handed \cup page)' = Handed \cup page
      BY <2>1, <2>4 DEF Handed, Given
    <3> QED
      BY <2>1, <2>2, <2>4, <3>1 DEF BelongsOK, CoverOK, Walking
  <2>5. CASE buffer' = page /\ more # None /\ pc' = "ready" /\ cursor' = more
    <3>1. Handed' = Handed \cup page /\ (Handed \cup page)' = Handed \cup page
      BY <2>1, <2>5 DEF Handed, Given
    <3> QED
      BY <2>1, <2>2, <2>5, <3>1 DEF BelongsOK, CoverOK, Walking
  <2> QED
    BY <2>1, <2>3, <2>4, <2>5
<1>3. CASE Take
  <2>1. UNCHANGED <<query, how, pc, cursor, page, more, frontier, level, seen, depth, complete,
                    throughout, ever>>
    BY <1>3 DEF Take, walk, store
  <2>2. Handed' = Handed
    BY <1>3, TakeHanded
  <2>3. (Relevant' <=> Relevant) /\ (Counts' <=> Counts)
    BY <2>1 DEF Relevant, Counts
  <2> QED
    BY <2>1, <2>2, <2>3 DEF BelongsOK, CoverOK
<1>4. CASE Finish \/ Fail \/ AskAgain
  <2>1. /\ UNCHANGED <<query, how, cursor, more, buffer, taken, complete, throughout, ever>>
        /\ pc # "idle" /\ pc' \notin Walking \cup {"idle", "merging", "fetched"}
        /\ pc # "fetched" /\ (page' = page \/ page' = {})
        /\ \/ pc = "last" /\ pc' = "ended"
           \/ pc \notin {"last", "ended"} /\ pc' \notin {"last", "ended"}
    BY <1>4 DEF Finish, Fail, AskAgain, store, Walking
  <2>2. Handed' = Handed /\ more = None
    BY <2>1 DEF Handed, Given, ReaderOK, PlaceOK
  <2>3. (Relevant' <=> Relevant) /\ (Counts' <=> Counts)
    BY <2>1 DEF Relevant, Counts
  <2>4. Relevant => \A x \in (Handed \cup page)' : Belongs(ever, query, how, x)
    BY <2>1, <2>2 DEF BelongsOK
  <2>5. BelongsOK'
    BY <2>1, <2>2, <2>3, <2>4 DEF BelongsOK, Walking
  <2>6. CoverOK'
    BY <2>1, <2>2, <2>3 DEF CoverOK, Walking
  <2> QED
    BY <2>5, <2>6
<1> QED
  BY <1>1, <1>2, <1>3, <1>4

AnswerOK == BelongsOK /\ CoverOK

LEMMA NextAnswer ==
  ASSUME WalkOK, AnswerOK, [Next]_vars
  PROVE  AnswerOK'
<1> USE DEF AnswerOK, WalkOK
<1>1. StoreOK'
  BY NextStore DEF ReaderOK
<1>2. ASSUME UNCHANGED reader, throughout' \subseteq throughout, ever \subseteq ever'
      PROVE  AnswerOK'
  BY <1>1, <1>2, OthersAnswer
<1>3. ASSUME NEW i, NEW s, AppendEvent(i, s)
      PROVE  UNCHANGED reader /\ throughout' \subseteq throughout /\ ever \subseteq ever'
  BY <1>3 DEF AppendEvent
<1>4. ASSUME NEW r, PurgeEvent(r)
      PROVE  UNCHANGED reader /\ throughout' \subseteq throughout /\ ever \subseteq ever'
  BY <1>4 DEF PurgeEvent
<1>5. ASSUME NEW u, RegisterUpcaster(u)
      PROVE  UNCHANGED reader /\ throughout' \subseteq throughout /\ ever \subseteq ever'
  BY <1>5 DEF RegisterUpcaster
<1>6. UNCHANGED vars => UNCHANGED reader /\ throughout' \subseteq throughout /\ ever \subseteq ever'
  BY DEF vars, store
<1>7. YieldLevel => OrderOK
  BY YieldIs DEF WalkOrderOK
<1> QED
  BY <1>2, <1>3, <1>4, <1>5, <1>6, <1>7, Steps, FetchAnswer, WholeAnswer, AggregateAnswer,
     StartAnswer, ExpandAnswer, YieldAnswer, EndAnswer, PageAnswer

\* A read that has ended gave nothing but events of its answer, and unless it was cut by its
\* limit or a budget, all of those that were stored throughout, whatever was appended and
\* purged between its statements and wherever its pages were cut.
THEOREM NothingSkippedHolds == Spec => []NothingSkipped
<1>1. Init => AnswerOK
  BY DEF Init, AnswerOK, BelongsOK, CoverOK, Relevant, Counts
<1>2. WalkOK /\ AnswerOK => NothingSkipped
  <2> SUFFICES ASSUME ReaderOK, AnswerOK, pc = "ended", Relevant PROVE Answered
    BY DEF NothingSkipped, Relevant, WalkOK
  <2>1. buffer = {} /\ page = {} /\ query \in Query
    BY DEF ReaderOK, PlaceOK, Walking
  <2>2. Handed \cup page = Given /\ Handed = Given
    BY <2>1 DEF Handed
  <2>3. {taken[i].id : i \in 1..Len(taken)} = Ids(Given)
    BY DEF Ids, Given
  <2>4. Ids(Given) \subseteq Answer(ever, query)
    <3> SUFFICES ASSUME NEW x \in Given PROVE x.id \in Answer(ever, query)
      BY DEF Ids
    <3>1. Belongs(ever, query, how, x)
      BY <2>2 DEF AnswerOK, BelongsOK
    <3>2. CASE query.kind = "walk" /\ how # "whole"
      <4>1. /\ query.direction # "both" /\ ever \in SUBSET Row
            /\ x.at \in 1..query.depth /\ x.id \in Levels(ever, query, query.direction)[x.at]
        BY <3>1, <3>2 DEF Belongs, Relevant, ReaderOK, StoreOK
      <4>2. Answer(ever, query) =
              UNION {Levels(ever, query, query.direction)[d] : d \in 1..query.depth}
        BY <2>1, <3>2, <4>1, WalkAnswer
      <4> QED
        BY <4>1, <4>2
    <3> QED
      BY <3>1, <3>2 DEF Belongs
  <2>5. complete /\ ~ (query.kind = "walk" /\ query.sample # None) =>
          Answer(throughout, query) \subseteq Ids(Given)
    BY <2>2 DEF AnswerOK, CoverOK, Counts, Covers
  <2> QED
    BY <2>3, <2>4, <2>5 DEF Answered
<1> QED
  BY <1>1, <1>2, NextAnswer, InitWalk, NextWalk, PTL DEF Spec
=============================================================================
