--------------------------- MODULE Branches_proofs ----------------------------
(***************************************************************************)
(* Proofs about the catalogue, for any processes, threads, branches,       *)
(* patterns and statements. About branches: types, truth of the cached     *)
(* chains, finality of the closing of a branch, and that careful callers   *)
(* find no ancestor missing. About opening: a whole file is stamped, once, *)
(* and given. About reducers: the most specific one is the only one.       *)
(***************************************************************************)
EXTENDS Catalogue, TLAPS, SequenceTheorems, WellFoundedInduction

Locked(t) == pc[t] \in {"created", "closing"}

\* Between SELECT and UPDATE the branch is there and open: the mutex keeps other
\* closings of this process away.
CloserHasRow == \A t \in Thread : pc[t] = "closing" => target[t] \in There \ {Main}

-----------------------------------------------------------------------------
(* Types.                                                                   *)

LEMMA RootFirstType ==
  ASSUME NEW S, NEW s \in Seq(S)
  PROVE  RootFirst(s) \in Seq(S) /\ Len(RootFirst(s)) = Len(s)
<1> DEFINE n == Len(s)
<1>1. n \in Nat /\ s \in [1..n -> S]
  BY LenProperties
<1>2. \A i \in 1..n : n + 1 - i \in 1..n
  BY <1>1, SMT
<1>3. RootFirst(s) \in [1..n -> S]
  BY <1>1, <1>2 DEF RootFirst
<1> QED
  BY <1>1, <1>3, SeqDef, LenProperties

LEMMA InitTypes == Init => TypeOK /\ CloserHasRow
<1> SUFFICES ASSUME Init PROVE TypeOK /\ CloserHasRow
  OBVIOUS
<1> USE DEF Init
<1>1. walk \in [Thread -> Seq(Segment)]
  BY EmptySeq
<1> QED
  BY <1>1 DEF TypeOK, CloserHasRow, NoChains

LEMMA LeaveTypes ==
  ASSUME TypeOK, NEW T, Leave(T)
  PROVE  /\ pc' \in [Thread -> {"idle", "created", "closing", "walking", "looping"}]
         /\ target' \in [Thread -> Branch \cup {Main}]
         /\ outcome' \in [Thread -> {"promoted", "dead_end"}]
         /\ current' \in [Thread -> Branch \cup {Main}]
         /\ fork' \in [Thread -> Version \cup {None}]
         /\ walk' \in [Thread -> Seq(Segment)]
         /\ existed' \in [Thread -> BOOLEAN]
         /\ \A t \in Thread : pc'[t] # "idle" => t \notin T /\ pc'[t] = pc[t] /\ target'[t] = target[t]
BY EmptySeq DEF Leave, TypeOK

LEMMA StepTypes == TypeOK /\ CloserHasRow /\ [Next]_vars => TypeOK' /\ CloserHasRow'
<1> SUFFICES ASSUME TypeOK, CloserHasRow, [Next]_vars PROVE TypeOK' /\ CloserHasRow'
  OBVIOUS
<1>1. ASSUME NEW t \in Creator, NEW c \in Creation, Create(t, c) PROVE TypeOK' /\ CloserHasRow'
  <2>1. t \in Thread /\ [parent |-> c.parent, version |-> c.version, lifecycle |-> "ephemeral"] \in Row
    BY CreationAssumption, ThreadAssumption DEF Row, Lifecycle
  <2>2. c.branch \in Branch
    BY CreationAssumption
  <2>3. TypeOK'
    BY <1>1, <2>1, <2>2 DEF Create, TypeOK, walkVars
  <2>4. CloserHasRow'
    BY <1>1, <2>1, <2>2, NoneAssumption DEF Create, TypeOK, CloserHasRow, There
  <2> QED
    BY <2>3, <2>4
<1>2. ASSUME NEW t \in Closer, NEW b \in Branch, NEW l \in {"promoted", "dead_end"}, BeginClose(t, b, l)
      PROVE TypeOK' /\ CloserHasRow'
  <2>1. t \in Thread
    BY ThreadAssumption
  <2> QED
    BY <1>2, <2>1, BranchAssumption DEF BeginClose, TypeOK, walkVars, CloserHasRow, There
<1>3. ASSUME NEW t \in Resolver, NEW b \in Branch \cup {Main}, Resolve(t, b) PROVE TypeOK' /\ CloserHasRow'
  <2>1. t \in Thread
    BY ThreadAssumption
  <2>2. walk' \in [Thread -> Seq(Segment)]
    BY <1>3, <2>1, EmptySeq DEF Resolve, TypeOK
  <2>3. existed' \in [Thread -> BOOLEAN]
    <3>1. (b \in There) \in BOOLEAN
      OBVIOUS
    <3> QED
      BY <1>3, <3>1, Zenon DEF Resolve, TypeOK
  <2>4. TypeOK'
    BY <1>3, <2>1, <2>2, <2>3 DEF Resolve, TypeOK
  <2>5. CloserHasRow'
    BY <1>3, <2>1 DEF Resolve, TypeOK, CloserHasRow, There
  <2> QED
    BY <2>4, <2>5
<1>4. ASSUME NEW t \in Thread, ClearCache(t) PROVE TypeOK' /\ CloserHasRow'
  BY <1>4, LeaveTypes, ThreadAssumption DEF ClearCache, TypeOK, CloserHasRow, There, NoChains
<1>5. ASSUME NEW t \in Thread, Close(t) PROVE TypeOK' /\ CloserHasRow'
  <2>1. target[t] \in Branch /\ branches[target[t]] \in Row
    BY <1>5 DEF Close, CloserHasRow, There, TypeOK
  <2>2. branches' \in [Branch -> Row \cup {None}] /\ branches'[target[t]] \in Row
    BY <1>5, <2>1 DEF Close, TypeOK, Row, Lifecycle
  <2>3. \A b \in Branch : branches[b] # None => branches'[b] # None
    BY <1>5, <2>1, <2>2, NoneAssumption DEF Close, TypeOK
  <2> QED
    BY <1>5, <2>2, <2>3, LeaveTypes DEF Close, TypeOK, CloserHasRow, There
<1>6. ASSUME NEW t \in Thread, Walk(t) PROVE TypeOK' /\ CloserHasRow'
  <2>1. CASE WalkUp(t)
    <3>1. current[t] \in Branch /\ branches[current[t]] \in Row
      BY <2>1 DEF WalkUp, RowOf, TypeOK
    <3>2. /\ current' \in [Thread -> Branch \cup {Main}]
          /\ fork' \in [Thread -> Version \cup {None}]
      BY <2>1, <3>1 DEF WalkUp, RowOf, Fork, TypeOK, Row
    <3>3. [branch |-> current[t], to |-> fork[t]] \in Segment
      BY DEF TypeOK, Segment
    <3>4. walk' \in [Thread -> Seq(Segment)]
      BY <2>1, <3>3, AppendProperties DEF WalkUp, TypeOK
    <3> QED
      BY <2>1, <3>2, <3>4 DEF WalkUp, TypeOK, CloserHasRow, There
  <2>2. CASE WalkAround(t)
    BY <2>2 DEF WalkAround, TypeOK, walkVars, CloserHasRow, There
  <2>3. CASE WalkMisses(t)
    <3>1. target[t] \in Branch \cup {Main}
      BY DEF TypeOK
    <3>2. unresolved' \subseteq Branch \cup {Main}
      BY <2>3, <3>1 DEF WalkMisses, TypeOK
    <3> QED
      BY <2>3, <3>2, LeaveTypes DEF WalkMisses, TypeOK, CloserHasRow, There
  <2>4. CASE WalkEnds(t)
    <3>1. [branch |-> Main, to |-> fork[t]] \in Segment
      BY DEF TypeOK, Segment
    <3>2. Append(walk[t], [branch |-> Main, to |-> fork[t]]) \in Seq(Segment)
      BY <3>1, AppendProperties DEF TypeOK
    <3>3. RootFirst(Append(walk[t], [branch |-> Main, to |-> fork[t]])) \in Seq(Segment)
      BY <3>2, RootFirstType
    <3>4. cache' \in [Process -> [Branch \cup {Main} -> Seq(Segment) \cup {None}]]
      BY <2>4, <3>3, ThreadAssumption DEF WalkEnds, TypeOK
    <3> QED
      BY <2>4, <3>4, LeaveTypes DEF WalkEnds, TypeOK, CloserHasRow, There
  <2> QED
    BY <1>6, <2>1, <2>2, <2>3, <2>4 DEF Walk
<1>7. ASSUME NEW t \in Thread, Fail(t) PROVE TypeOK' /\ CloserHasRow'
  BY <1>7, LeaveTypes DEF Fail, TypeOK, CloserHasRow, There
<1>8. ASSUME NEW p \in Process, Restart(p) PROVE TypeOK' /\ CloserHasRow'
  BY <1>8, LeaveTypes DEF Restart, TypeOK, CloserHasRow, There, NoChains
<1>9. CASE UNCHANGED vars
  BY <1>9 DEF vars, walkVars, TypeOK, CloserHasRow, There
<1> QED
  BY <1>1, <1>2, <1>3, <1>4, <1>5, <1>6, <1>7, <1>8, <1>9 DEF Next

LEMMA Typed == Spec => [](TypeOK /\ CloserHasRow)
BY InitTypes, StepTypes, PTL DEF Spec

\* The table, the caches and the calls of the threads have their types, whatever threads
\* do in whatever order.
THEOREM TypeCorrect == Spec => []TypeOK
BY Typed, PTL

-----------------------------------------------------------------------------
(* Chains. A row never leaves the table, nor does its parent change, so    *)
(* what a walk has seen stays true until its chain is cached, and after.   *)

LEMMA TableSteps ==
  ASSUME [Next]_vars
  PROVE  \/ branches' = branches
         \/ \E t \in Creator, c \in Creation : Create(t, c)
         \/ \E t \in Thread : Close(t)
BY DEF Next, vars, walkVars, BeginClose, Resolve, ClearCache, Walk, WalkUp, WalkAround,
       WalkMisses, WalkEnds, Fail, Restart

LEMMA ForkedStays ==
  ASSUME TypeOK, CloserHasRow, [Next]_vars, NEW child, NEW parent, NEW v, Forked(child, parent, v)
  PROVE  Forked(child, parent, v)'
<1>1. ASSUME NEW t \in Creator, NEW c \in Creation, Create(t, c) PROVE Forked(child, parent, v)'
  BY <1>1 DEF Create, Forked, TypeOK
<1>2. ASSUME NEW t \in Thread, Close(t) PROVE Forked(child, parent, v)'
  <2>1. target[t] \in Branch /\ branches[target[t]] \in Row
    BY <1>2 DEF Close, CloserHasRow, There, TypeOK
  <2>2. branches'[target[t]] \in Row
    BY <1>2, <2>1 DEF Close, TypeOK, Row, Lifecycle
  <2>3. child = target[t] => branches'[child].parent = parent /\ branches'[child].version = v
    BY <1>2, <2>1 DEF Close, Forked, TypeOK, Row
  <2> QED
    BY <1>2, <2>1, <2>2, <2>3, NoneAssumption DEF Close, Forked, TypeOK
<1>3. CASE branches' = branches
  BY <1>3 DEF Forked
<1> QED
  BY <1>1, <1>2, <1>3, TableSteps

LEMMA LeadsStays ==
  ASSUME TypeOK, CloserHasRow, [Next]_vars, NEW chain \in Seq(Segment), NEW b, Leads(chain, b)
  PROVE  Leads(chain, b)'
<1> DEFINE links == 1..(Len(chain) - 1)
<1>1. \A i \in links : Forked(chain[i + 1].branch, chain[i].branch, chain[i].to)'
  BY ForkedStays DEF Leads
<1> QED
  BY <1>1 DEF Leads

\* What a resolution has collected so far.
WalkSound(t) ==
  LET w == walk[t]
  IN  /\ \A i \in 1..(Len(w) - 1) : Forked(w[i].branch, w[i + 1].branch, w[i + 1].to)
      /\ Len(w) = 0 => current[t] = target[t] /\ fork[t] = None
      /\ Len(w) > 0 => /\ w[1] = [branch |-> target[t], to |-> None]
                       /\ Forked(w[Len(w)].branch, current[t], fork[t])
WalksSound == \A t \in Thread : pc[t] = "walking" => WalkSound(t)

IInv == CachedChainsTrue /\ WalksSound

LEMMA OtherWalksSound ==
  ASSUME TypeOK, CloserHasRow, [Next]_vars, NEW t \in Thread, WalkSound(t),
         walk'[t] = walk[t], current'[t] = current[t], fork'[t] = fork[t], target'[t] = target[t]
  PROVE  WalkSound(t)'
<1>1. \A i \in 1..(Len(walk[t]) - 1) :
        Forked(walk[t][i].branch, walk[t][i + 1].branch, walk[t][i + 1].to)'
  BY ForkedStays DEF WalkSound
<1>2. Len(walk[t]) > 0 => Forked(walk[t][Len(walk[t])].branch, current[t], fork[t])'
  BY ForkedStays DEF WalkSound
<1> QED
  BY <1>1, <1>2 DEF WalkSound, Forked

LEMMA OtherCachesTrue ==
  ASSUME TypeOK, CloserHasRow, [Next]_vars, CachedChainsTrue,
         NEW p \in Process, NEW b \in Branch \cup {Main},
         cache'[p][b] \in {cache[p][b], None}
  PROVE  (cache[p][b] # None => Leads(cache[p][b], b))'
<1> SUFFICES ASSUME cache'[p][b] # None PROVE Leads(cache[p][b], b)'
  OBVIOUS
<1>1. PICK chain \in Seq(Segment) : chain = cache[p][b] /\ chain = cache'[p][b]
  BY DEF TypeOK
<1>2. Leads(chain, b)
  BY <1>1 DEF CachedChainsTrue
<1>3. Leads(chain, b)'
  BY <1>2, LeadsStays
<1> QED
  BY <1>1, <1>3 DEF Leads, Forked

LEMMA InitIInv == Init => IInv
BY DEF Init, IInv, CachedChainsTrue, WalksSound, NoChains

LEMMA LeaveSound ==
  ASSUME TypeOK, CloserHasRow, [Next]_vars, WalksSound, NEW T, Leave(T)
  PROVE  WalksSound'
<1> SUFFICES ASSUME NEW t \in Thread, pc'[t] = "walking" PROVE WalkSound(t)'
  BY DEF WalksSound
<1>1. /\ pc[t] = "walking"
      /\ walk'[t] = walk[t] /\ current'[t] = current[t] /\ fork'[t] = fork[t] /\ target'[t] = target[t]
  BY DEF Leave, TypeOK
<1>2. WalkSound(t)
  BY <1>1 DEF WalksSound
<1> QED
  BY <1>1, <1>2, OtherWalksSound

\* The segments a walk ends with, from the root down.
LEMMA EndOfWalk ==
  ASSUME TypeOK, NEW t \in Thread, WalkSound(t), current[t] = Main
  PROVE  LET end == [branch |-> Main, to |-> fork[t]]
         IN  Leads(RootFirst(Append(walk[t], end)), target[t])
<1> DEFINE end == [branch |-> Main, to |-> fork[t]]
           w == walk[t]
           s == Append(w, end)
           chain == RootFirst(s)
           n == Len(w)
<1>1. w \in Seq(Segment) /\ end \in Segment /\ n \in Nat
  BY LenProperties DEF TypeOK, Segment
<1>2. /\ s \in Seq(Segment) /\ Len(s) = n + 1 /\ s[n + 1] = end
      /\ \A i \in 1..n : s[i] = w[i]
  BY <1>1, AppendProperties
<1> HIDE DEF s, end, w
<1>3. Len(chain) = n + 1
  BY <1>2, RootFirstType
<1>4. \A i \in 1..(n + 1) : chain[i] = s[n + 2 - i]
  BY <1>1, <1>2 DEF RootFirst
<1>5. chain[1] = end
  BY <1>1, <1>2, <1>4
<1>6. chain[n + 1] = s[1]
  BY <1>1, <1>4
<1>7. s[1] = [branch |-> target[t], to |-> None]
  <2>1. CASE n = 0
    BY <2>1, <1>2 DEF WalkSound, w, end
  <2>2. CASE n > 0
    BY <2>2, <1>1, <1>2 DEF WalkSound, w
  <2> QED
    BY <2>1, <2>2, <1>1
<1>8. \A i \in 1..n : Forked(chain[i + 1].branch, chain[i].branch, chain[i].to)
  <2> TAKE i \in 1..n
  <2>1. chain[i + 1] = s[n + 1 - i] /\ chain[i] = s[n + 2 - i]
    BY <1>1, <1>4
  <2>2. n + 1 - i \in 1..n
    BY <1>1
  <2>3. s[n + 1 - i] = w[n + 1 - i]
    BY <1>2, <2>2
  <2>4. CASE i = 1
    <3>1. s[n + 2 - i] = end /\ n + 1 - i = n
      BY <2>4, <1>1, <1>2
    <3>2. Forked(w[n].branch, Main, fork[t])
      BY <2>2, <1>1 DEF WalkSound, w
    <3> QED
      BY <3>1, <3>2, <2>1, <2>3 DEF end
  <2>5. CASE i # 1
    <3>1. n + 1 - i \in 1..(n - 1) /\ n + 2 - i \in 1..n /\ (n + 1 - i) + 1 = n + 2 - i
      BY <2>5, <1>1
    <3>2. s[n + 2 - i] = w[n + 2 - i]
      BY <1>2, <3>1
    <3>3. \A k \in 1..(n - 1) : Forked(w[k].branch, w[k + 1].branch, w[k + 1].to)
      BY DEF WalkSound, w
    <3>4. Forked(w[n + 1 - i].branch, w[n + 2 - i].branch, w[n + 2 - i].to)
      BY <3>1, <3>3
    <3> QED
      BY <3>2, <3>4, <2>1, <2>3
  <2> QED
    BY <2>4, <2>5
<1> HIDE DEF chain
<1>9. Leads(chain, target[t])
  BY <1>1, <1>3, <1>5, <1>6, <1>7, <1>8 DEF Leads, end
<1> QED
  BY <1>9 DEF end, chain, s, w

LEMMA WalkUpSound ==
  ASSUME TypeOK, CloserHasRow, [Next]_vars, WalksSound, NEW t \in Thread, WalkUp(t)
  PROVE  WalkSound(t)'
<1> DEFINE w == walk[t]
           n == Len(w)
           b == current[t]
           seg == [branch |-> b, to |-> fork[t]]
<1>1. w \in Seq(Segment) /\ n \in Nat /\ seg \in Segment
  BY LenProperties DEF TypeOK, Segment
<1>2. /\ walk'[t] = Append(w, seg)
      /\ branches[b] # None
      /\ b \in Branch
      /\ fork'[t] = branches[b].version
      /\ current'[t] = branches[b].parent
      /\ target'[t] = target[t]
      /\ branches' = branches
      /\ pc[t] = "walking"
  BY DEF WalkUp, RowOf, Fork, TypeOK
<1>3. WalkSound(t)
  BY <1>2 DEF WalksSound
<1> HIDE DEF w, n, seg, b
<1>4. /\ Len(walk'[t]) = n + 1
      /\ walk'[t][n + 1] = seg
      /\ \A i \in 1..n : walk'[t][i] = w[i]
  BY <1>1, <1>2, AppendProperties DEF n
<1>5. Forked(b, current'[t], fork'[t])
  BY <1>2 DEF Forked
<1>6. n = 0 => b = target[t] /\ fork[t] = None
  BY <1>3 DEF WalkSound, n, w, b
<1>7. n > 0 => w[1] = [branch |-> target[t], to |-> None] /\ Forked(w[n].branch, b, fork[t])
  BY <1>3 DEF WalkSound, n, w, b
<1>8. \A i \in 1..(n - 1) : Forked(w[i].branch, w[i + 1].branch, w[i + 1].to)
  BY <1>3 DEF WalkSound, n, w
<1>9. walk'[t][1] = [branch |-> target[t], to |-> None]
  <2>1. CASE n = 0
    BY <2>1, <1>4, <1>6 DEF seg
  <2>2. CASE n > 0
    BY <2>2, <1>1, <1>4, <1>7
  <2> QED
    BY <2>1, <2>2, <1>1
<1>10. \A i \in 1..n : Forked(walk'[t][i].branch, walk'[t][i + 1].branch, walk'[t][i + 1].to)
  <2> TAKE i \in 1..n
  <2>1. CASE i = n
    BY <2>1, <1>1, <1>4, <1>7 DEF seg
  <2>2. CASE i # n
    <3>1. i \in 1..(n - 1) /\ i + 1 \in 1..n
      BY <2>2, <1>1
    <3> QED
      BY <3>1, <1>4, <1>8
  <2> QED
    BY <2>1, <2>2
<1> QED
  BY <1>1, <1>2, <1>4, <1>5, <1>9, <1>10 DEF WalkSound, Forked, seg

LEMMA StepIInv == TypeOK /\ CloserHasRow /\ IInv /\ [Next]_vars => IInv'
<1> SUFFICES ASSUME TypeOK, CloserHasRow, CachedChainsTrue, WalksSound, [Next]_vars
             PROVE  CachedChainsTrue' /\ WalksSound'
  BY DEF IInv
<1>1. ASSUME cache' = cache \/ \E p \in Process : cache' = [cache EXCEPT ![p] = NoChains]
      PROVE CachedChainsTrue'
  <2>1. \A p \in Process, b \in Branch \cup {Main} : cache'[p][b] \in {cache[p][b], None}
    <3>1. CASE cache' = cache
      BY <3>1
    <3>2. CASE \E p \in Process : cache' = [cache EXCEPT ![p] = NoChains]
      <4>1. PICK q \in Process : cache' = [cache EXCEPT ![q] = NoChains]
        BY <3>2
      <4>2. \A b \in Branch \cup {Main} : NoChains[b] = None
        BY DEF NoChains
      <4> TAKE p \in Process, b \in Branch \cup {Main}
      <4>3. cache'[p] = IF p = q THEN NoChains ELSE cache[p]
        BY <4>1 DEF TypeOK
      <4> QED
        BY <4>2, <4>3
    <3> QED
      BY <1>1, <3>1, <3>2
  <2> SUFFICES ASSUME NEW p \in Process, NEW b \in Branch \cup {Main}
               PROVE  (cache[p][b] # None => Leads(cache[p][b], b))'
    BY DEF CachedChainsTrue
  <2>2. cache'[p][b] \in {cache[p][b], None}
    BY <2>1
  <2> HIDE DEF CachedChainsTrue
  <2> QED
    BY <2>2, OtherCachesTrue, Zenon
<1>2. ASSUME NEW t \in Thread, \A u \in Thread \ {t} : pc'[u] = pc[u],
             \A u \in Thread \ {t} : walk'[u] = walk[u] /\ current'[u] = current[u],
             \A u \in Thread \ {t} : fork'[u] = fork[u] /\ target'[u] = target[u],
             pc'[t] = "walking" => WalkSound(t)'
      PROVE WalksSound'
  <2> SUFFICES ASSUME NEW u \in Thread \ {t}, pc'[u] = "walking" PROVE WalkSound(u)'
    BY <1>2 DEF WalksSound
  <2>1. WalkSound(u)
    BY <1>2 DEF WalksSound
  <2> QED
    BY <1>2, <2>1, OtherWalksSound
<1>3. ASSUME NEW t \in Creator, NEW c \in Creation, Create(t, c)
      PROVE  CachedChainsTrue' /\ WalksSound'
  BY <1>1, <1>2, <1>3, ThreadAssumption DEF Create, TypeOK, walkVars
<1>4. ASSUME NEW t \in Closer, NEW b \in Branch, NEW l \in {"promoted", "dead_end"}, BeginClose(t, b, l)
      PROVE  CachedChainsTrue' /\ WalksSound'
  BY <1>1, <1>2, <1>4, ThreadAssumption DEF BeginClose, TypeOK, walkVars
<1>5. ASSUME NEW t \in Resolver, NEW b \in Branch \cup {Main}, Resolve(t, b)
      PROVE  CachedChainsTrue' /\ WalksSound'
  <2>1. t \in Thread
    BY ThreadAssumption
  <2>2. WalkSound(t)'
    BY <1>5, <2>1 DEF Resolve, TypeOK, WalkSound
  <2> QED
    BY <1>1, <1>2, <1>5, <2>1, <2>2 DEF Resolve, TypeOK
<1>6. ASSUME NEW t \in Thread, ClearCache(t) \/ Close(t) \/ WalkMisses(t) \/ Fail(t)
      PROVE  CachedChainsTrue' /\ WalksSound'
  BY <1>1, <1>6, LeaveSound, ThreadAssumption DEF ClearCache, Close, WalkMisses, Fail
<1>7. ASSUME NEW t \in Thread, WalkUp(t) PROVE CachedChainsTrue' /\ WalksSound'
  <2>1. WalkSound(t)'
    BY <1>7, WalkUpSound
  <2> QED
    BY <1>1, <1>2, <1>7, <2>1 DEF WalkUp, TypeOK
<1>8. ASSUME NEW t \in Thread, WalkAround(t) PROVE CachedChainsTrue' /\ WalksSound'
  BY <1>1, <1>2, <1>8 DEF WalkAround, TypeOK, walkVars
<1>9. ASSUME NEW t \in Thread, WalkEnds(t) PROVE CachedChainsTrue' /\ WalksSound'
  <2>1. WalksSound'
    BY <1>9, LeaveSound DEF WalkEnds
  <2>2. ASSUME NEW p \in Process, NEW b \in Branch \cup {Main}
        PROVE  (cache[p][b] # None => Leads(cache[p][b], b))'
    <3>1. CASE p = ProcessOf[t] /\ b = target[t]
      <4> DEFINE chain == RootFirst(Append(walk[t], [branch |-> Main, to |-> fork[t]]))
      <4>1. WalkSound(t) /\ current[t] = Main
        BY <1>9 DEF WalkEnds, WalksSound
      <4>2. Leads(chain, b)
        BY <4>1, <3>1, EndOfWalk
      <4>3. [branch |-> Main, to |-> fork[t]] \in Segment /\ walk[t] \in Seq(Segment)
        BY DEF TypeOK, Segment
      <4>4. chain \in Seq(Segment)
        BY <4>3, AppendProperties, RootFirstType
      <4>5. cache'[p][b] = chain
        BY <1>9, <3>1 DEF WalkEnds, TypeOK
      <4> HIDE DEF chain
      <4>6. PICK c \in Seq(Segment) : c = chain
        BY <4>4
      <4>7. Leads(c, b)'
        BY <4>2, <4>6, LeadsStays
      <4> QED
        BY <4>5, <4>6, <4>7 DEF Leads, Forked
    <3>2. CASE ~ (p = ProcessOf[t] /\ b = target[t])
      <4>1. cache'[p][b] \in {cache[p][b], None}
        BY <1>9, <3>2 DEF WalkEnds, TypeOK
      <4> QED
        BY <4>1, OtherCachesTrue
    <3> QED
      BY <3>1, <3>2
  <2> QED
    BY <2>1, <2>2 DEF CachedChainsTrue
<1>10. ASSUME NEW p \in Process, Restart(p) PROVE CachedChainsTrue' /\ WalksSound'
  BY <1>1, <1>10, LeaveSound DEF Restart
<1>11. CASE UNCHANGED vars
  <2>1. WalksSound'
    BY <1>11, OtherWalksSound DEF WalksSound, vars, walkVars
  <2> QED
    BY <1>1, <1>11, <2>1 DEF vars, walkVars
<1> QED
  BY <1>3, <1>4, <1>5, <1>6, <1>7, <1>8, <1>9, <1>10, <1>11 DEF Next, Walk

\* Every chain a process answers from its cache is the chain of the table, with any number
\* of processes that create and close branches, and whether or not parents come first.
THEOREM CachedChainsTrueHolds == Spec => []CachedChainsTrue
<1>1. Init => IInv
  BY InitIInv
<1>2. TypeOK /\ CloserHasRow /\ IInv /\ [Next]_vars => IInv'
  BY StepIInv
<1>3. IInv => CachedChainsTrue
  BY DEF IInv
<1> QED
  BY <1>1, <1>2, <1>3, Typed, PTL DEF Spec

-----------------------------------------------------------------------------
(* Finality of the closing of a branch, when one process closes branches.   *)

OneHolder ==
  \A t, u \in Thread : ProcessOf[t] = ProcessOf[u] /\ Locked(t) /\ Locked(u) => t = u
ClosingIsOpen ==
  \A t \in Thread : pc[t] = "closing" =>
    t \in Closer /\ target[t] \in Branch /\ branches[target[t]].lifecycle = "ephemeral"

\* Every step but the taking of the mutex lets threads keep it or give it back.
LEMMA LockSteps ==
  ASSUME TypeOK, [Next]_vars
  PROVE  \/ \E t \in Creator, c \in Creation : Create(t, c)
         \/ \E t \in Closer, b \in Branch, l \in {"promoted", "dead_end"} : BeginClose(t, b, l)
         \/ \A t \in Thread : /\ Locked(t)' => Locked(t) /\ pc'[t] = pc[t]
                              /\ pc'[t] = "closing" => target'[t] = target[t]
<1>1. ASSUME NEW t \in Resolver, NEW b \in Branch \cup {Main}, Resolve(t, b)
      PROVE  \A u \in Thread : /\ Locked(u)' => Locked(u) /\ pc'[u] = pc[u]
                               /\ pc'[u] = "closing" => target'[u] = target[u]
  BY <1>1, ThreadAssumption DEF Resolve, Locked, TypeOK
<1>2. ASSUME NEW T, Leave(T)
      PROVE  \A u \in Thread : /\ Locked(u)' => Locked(u) /\ pc'[u] = pc[u]
                               /\ pc'[u] = "closing" => target'[u] = target[u]
  BY <1>2 DEF Leave, Locked, TypeOK
<1>3. ASSUME NEW t \in Thread, WalkUp(t) \/ WalkAround(t)
      PROVE  \A u \in Thread : /\ Locked(u)' => Locked(u) /\ pc'[u] = pc[u]
                               /\ pc'[u] = "closing" => target'[u] = target[u]
  BY <1>3 DEF WalkUp, WalkAround, Locked, TypeOK
<1>4. CASE UNCHANGED vars
  BY <1>4 DEF vars, Locked
<1> QED
  BY <1>1, <1>2, <1>3, <1>4
     DEF Next, Walk, ClearCache, Close, WalkMisses, WalkEnds, Fail, Restart

LEMMA OneHolderSteps == TypeOK /\ OneHolder /\ [Next]_vars => OneHolder'
<1> SUFFICES ASSUME TypeOK, OneHolder, [Next]_vars PROVE OneHolder'
  OBVIOUS
<1>1. ASSUME NEW t \in Thread, Unlocked(ProcessOf[t]), \A u \in Thread \ {t} : pc'[u] = pc[u]
      PROVE  OneHolder'
  BY <1>1 DEF OneHolder, Unlocked, Locked
<1>2. ASSUME NEW t \in Creator, NEW c \in Creation, Create(t, c) PROVE OneHolder'
  BY <1>1, <1>2, ThreadAssumption DEF Create, TypeOK
<1>3. ASSUME NEW t \in Closer, NEW b \in Branch, NEW l \in {"promoted", "dead_end"}, BeginClose(t, b, l)
      PROVE OneHolder'
  BY <1>1, <1>3, ThreadAssumption DEF BeginClose, TypeOK
<1>4. CASE \A t \in Thread : /\ Locked(t)' => Locked(t) /\ pc'[t] = pc[t]
                             /\ pc'[t] = "closing" => target'[t] = target[t]
  BY <1>4 DEF OneHolder
<1> QED
  BY <1>2, <1>3, <1>4, LockSteps

OneCloserProcess == \A t, u \in Closer : ProcessOf[t] = ProcessOf[u]

LEMMA ClosingSteps ==
  ASSUME OneCloserProcess
  PROVE  TypeOK /\ CloserHasRow /\ OneHolder /\ ClosingIsOpen /\ [Next]_vars => ClosingIsOpen'
<1> SUFFICES ASSUME TypeOK, CloserHasRow, OneHolder, ClosingIsOpen, [Next]_vars PROVE ClosingIsOpen'
  OBVIOUS
<1>1. ASSUME NEW t \in Creator, NEW c \in Creation, Create(t, c) PROVE ClosingIsOpen'
  <2> SUFFICES ASSUME NEW u \in Thread, pc'[u] = "closing"
               PROVE  u \in Closer /\ target[u] \in Branch /\ branches'[target[u]].lifecycle = "ephemeral"
    BY <1>1 DEF ClosingIsOpen, Create
  <2>1. pc[u] = "closing"
    BY <1>1, ThreadAssumption DEF Create, TypeOK
  <2> QED
    BY <1>1, <2>1 DEF Create, TypeOK, ClosingIsOpen
<1>2. ASSUME NEW t \in Closer, NEW b \in Branch, NEW l \in {"promoted", "dead_end"}, BeginClose(t, b, l)
      PROVE ClosingIsOpen'
  BY <1>2, ThreadAssumption DEF BeginClose, TypeOK, ClosingIsOpen
<1>3. ASSUME NEW t \in Thread, Close(t) PROVE ClosingIsOpen'
  <2> SUFFICES ASSUME NEW u \in Thread, pc'[u] = "closing"
               PROVE  u \in Closer /\ target'[u] \in Branch /\ branches'[target'[u]].lifecycle = "ephemeral"
    BY DEF ClosingIsOpen
  <2>1. u # t /\ pc[u] = "closing" /\ target'[u] = target[u]
    BY <1>3 DEF Close, Leave, TypeOK
  <2>2. t \in Closer /\ u \in Closer /\ Locked(t) /\ Locked(u)
    BY <1>3, <2>1 DEF Close, ClosingIsOpen, Locked
  <2> QED
    BY <2>1, <2>2 DEF OneCloserProcess, OneHolder
<1>4. ASSUME branches' = branches,
             \A t \in Thread : /\ Locked(t)' => Locked(t) /\ pc'[t] = pc[t]
                               /\ pc'[t] = "closing" => target'[t] = target[t]
      PROVE ClosingIsOpen'
  BY <1>4 DEF ClosingIsOpen, Locked
<1> QED
  BY <1>1, <1>2, <1>3, <1>4, LockSteps, TableSteps

\* A branch that is closed stays closed, and closed the same way, however many threads of
\* that process race to close it.
THEOREM ClosedForGoodHolds == ASSUME OneCloserProcess PROVE Spec => ClosedForGood
<1>1. Init => OneHolder /\ ClosingIsOpen
  BY DEF Init, OneHolder, ClosingIsOpen, Locked
<1>2. TypeOK /\ CloserHasRow /\ OneHolder /\ ClosingIsOpen /\ [Next]_vars => (OneHolder /\ ClosingIsOpen)'
  BY OneHolderSteps, ClosingSteps
<1>3. ASSUME TypeOK, ClosingIsOpen, [Next]_vars
      PROVE  \A b \in Branch : branches[b] # None /\ branches[b].lifecycle # "ephemeral" =>
               branches'[b] = branches[b]
  <2> TAKE b \in Branch
  <2> HAVE branches[b] # None /\ branches[b].lifecycle # "ephemeral"
  <2>1. ASSUME NEW t \in Creator, NEW c \in Creation, Create(t, c)
        PROVE  branches'[b] = branches[b]
    BY <2>1 DEF Create, TypeOK
  <2>2. ASSUME NEW t \in Thread, Close(t)
        PROVE  branches'[b] = branches[b]
    <3>1. b # target[t]
      BY <1>3, <2>2 DEF Close, ClosingIsOpen
    <3> QED
      BY <1>3, <2>2, <3>1 DEF Close, TypeOK
  <2> QED
    BY <1>3, <2>1, <2>2, TableSteps
<1> QED
  BY <1>1, <1>2, <1>3, Typed, PTL DEF Spec, ClosedForGood

-----------------------------------------------------------------------------
(* Careful callers.                                                         *)

Rooted == \A b \in Branch : branches[b] # None => branches[b].parent \in There
WalksFind == \A t \in Thread : pc[t] = "walking" /\ existed[t] => current[t] \in There
CareInv == careful => Rooted /\ WalksFind /\ unresolved = {}

LEMMA ThereStays ==
  ASSUME TypeOK, CloserHasRow, [Next]_vars
  PROVE  There \subseteq There'
<1> SUFFICES ASSUME NEW b \in Branch, branches[b] # None PROVE branches'[b] # None
  BY DEF There
<1> QED
  BY ForkedStays DEF Forked

\* What has a parent in the table keeps it, as rows keep their parent.
LEMMA RootedStays ==
  ASSUME TypeOK, CloserHasRow, [Next]_vars, careful, Rooted
  PROVE  Rooted'
<1> SUFFICES ASSUME NEW b \in Branch, branches'[b] # None PROVE branches'[b].parent \in There'
  BY DEF Rooted
<1>1. CASE branches[b] # None
  <2>1. Forked(b, branches[b].parent, branches[b].version)
    BY <1>1 DEF Forked
  <2>2. branches'[b].parent = branches[b].parent
    BY <2>1, ForkedStays DEF Forked
  <2> QED
    BY <1>1, <2>2, ThereStays DEF Rooted
<1>2. CASE branches[b] = None
  <2>1. PICK t \in Creator, c \in Creation : Create(t, c)
    <3>1. ASSUME NEW t \in Thread, Close(t) PROVE FALSE
      BY <1>2, <3>1 DEF Close, CloserHasRow, There, TypeOK
    <3> QED
      BY <1>2, <3>1, TableSteps
  <2>2. c.branch = b /\ branches'[b].parent = c.parent /\ c.parent \in There
    BY <1>2, <2>1 DEF Create, TypeOK
  <2> QED
    BY <2>2, ThereStays
<1> QED
  BY <1>1, <1>2

LEMMA CareSteps == TypeOK /\ CloserHasRow /\ CareInv /\ [Next]_vars => CareInv'
<1> SUFFICES ASSUME TypeOK, CloserHasRow, CareInv, [Next]_vars, careful PROVE CareInv'
  BY DEF Next, vars, Create, ClearCache, BeginClose, Close, Resolve, Walk, WalkUp, WalkAround,
         WalkMisses, WalkEnds, Fail, Restart, CareInv
<1>1. Rooted /\ WalksFind /\ unresolved = {}
  BY DEF CareInv
<1>2. Rooted'
  BY <1>1, RootedStays
<1>3. ASSUME NEW t \in Thread, WalkMisses(t) PROVE WalksFind' /\ unresolved' = {}
  <2>1. current[t] \notin There
    BY <1>3 DEF WalkMisses, RowOf, There, TypeOK
  <2>2. ~ existed[t]
    BY <1>1, <1>3, <2>1 DEF WalkMisses, WalksFind
  <2>3. WalksFind'
    BY <1>1, <1>3, ThereStays DEF WalkMisses, Leave, WalksFind, TypeOK
  <2> QED
    BY <1>1, <1>3, <2>2, <2>3 DEF WalkMisses
<1>4. ASSUME NEW t \in Thread, WalkUp(t) PROVE WalksFind' /\ unresolved' = {}
  <2>1. current[t] \in Branch /\ branches[current[t]] # None
    BY <1>4 DEF WalkUp, RowOf, TypeOK
  <2>2. current'[t] \in There /\ \A u \in Thread \ {t} : current'[u] = current[u]
    BY <1>1, <1>4, <2>1 DEF WalkUp, RowOf, Rooted, TypeOK
  <2> QED
    BY <1>1, <1>4, <2>2, ThereStays DEF WalkUp, WalksFind
<1>5. ASSUME NEW t \in Resolver, NEW b \in Branch \cup {Main}, Resolve(t, b)
      PROVE  WalksFind' /\ unresolved' = {}
  <2>1. t \in Thread
    BY ThreadAssumption
  <2>2. \A u \in Thread \ {t} : pc'[u] = pc[u] /\ existed'[u] = existed[u] /\ current'[u] = current[u]
    BY <1>5, <2>1 DEF Resolve, TypeOK
  <2>3. current'[t] = b /\ existed'[t] = (b \in There)
    BY <1>5, <2>1, Zenon DEF Resolve, TypeOK
  <2> QED
    BY <1>1, <1>5, <2>2, <2>3, ThereStays DEF Resolve, WalksFind
<1>6. ASSUME unresolved' = unresolved,
             \A u \in Thread : pc'[u] = "walking" =>
               pc[u] = "walking" /\ current'[u] = current[u] /\ existed'[u] = existed[u]
      PROVE  WalksFind' /\ unresolved' = {}
  BY <1>1, <1>6, ThereStays DEF WalksFind
<1>7. ASSUME NEW t \in Creator, NEW c \in Creation, Create(t, c) PROVE WalksFind' /\ unresolved' = {}
  BY <1>6, <1>7, ThreadAssumption DEF Create, TypeOK, walkVars
<1>8. ASSUME NEW t \in Closer, NEW b \in Branch, NEW l \in {"promoted", "dead_end"}, BeginClose(t, b, l)
      PROVE  WalksFind' /\ unresolved' = {}
  BY <1>6, <1>8, ThreadAssumption DEF BeginClose, TypeOK, walkVars
<1>9. ASSUME NEW T, Leave(T), unresolved' = unresolved PROVE WalksFind' /\ unresolved' = {}
  BY <1>6, <1>9 DEF Leave, TypeOK
<1>10. ASSUME NEW t \in Thread, WalkAround(t) PROVE WalksFind' /\ unresolved' = {}
  BY <1>6, <1>10 DEF WalkAround, TypeOK, walkVars
<1>11. ASSUME UNCHANGED vars PROVE WalksFind' /\ unresolved' = {}
  BY <1>6, <1>11 DEF vars, walkVars
<1>12. WalksFind' /\ unresolved' = {}
  BY <1>3, <1>4, <1>5, <1>7, <1>8, <1>9, <1>10, <1>11
     DEF Next, Walk, ClearCache, Close, WalkEnds, Fail, Restart
<1> QED
  BY <1>2, <1>12 DEF CareInv

\* Callers that create a branch after its parent never see a resolution of a branch that is
\* there miss one of its ancestors.
THEOREM ExistingResolvesHolds == Spec => []ExistingResolves
<1>1. Init => CareInv
  BY DEF Init, CareInv, Rooted, WalksFind
<1>2. TypeOK /\ CloserHasRow /\ CareInv /\ [Next]_vars => CareInv'
  BY CareSteps
<1>3. CareInv => ExistingResolves
  BY DEF CareInv, ExistingResolves
<1> QED
  BY <1>1, <1>2, <1>3, Typed, PTL DEF Spec

-----------------------------------------------------------------------------
(* Opening: the file is whole when it has a version, for any number of      *)
(* threads or processes that open it and of statements of the schema.       *)

\* A file with a version has its schema.
VersionedIsWhole == user_version # 0 => made = Statements

\* Who has run the last statement is alone, and nobody has written the version.
Creators ==
  \A p \in Thread :
    place[p] = "created" =>
      /\ user_version = 0
      /\ made = Statements
      /\ \A q \in Thread : place[q] = "created" => q = p

\* What a call knows of the file after each of its steps.
Migrated ==
  \A p \in Thread :
    /\ place[p] \in {"migrated", "described", "bootstrapped", "open"} => user_version = Opening!Current
    /\ place[p] \in {"described", "bootstrapped", "open"} => "meta" \in rows
    /\ place[p] \in {"bootstrapped", "open"} => "system" \in rows

FileInv == Opening!TypeOK /\ VersionedIsWhole /\ Creators /\ Migrated

LEMMA FileInit == Opening!Init => FileInv
<1> SUFFICES ASSUME Opening!Init PROVE FileInv
  OBVIOUS
<1>1. exists \in BOOLEAN /\ interrupted \in BOOLEAN
  BY Zenon DEF Opening!Init
<1>2. user_version \in {0, Opening!Current, Opening!Newer} /\ made \in 0 .. Statements /\ rows \subseteq Opening!Bootstrapped
  BY StatementsAssumption DEF Opening!Init, Opening!Current, Opening!Newer, Opening!Bootstrapped
<1>3. \A p \in Thread : place[p] = "closed" /\ next[p] = 1
  BY Zenon DEF Opening!Init
<1>4. Opening!TypeOK
  <2>1. place \in [Thread -> {"closed", "refused", "connecting", "connected", "creating",
                               "created", "migrated", "described", "bootstrapped", "open"}]
    BY DEF Opening!Init
  <2>2. next \in [Thread -> 1 .. Statements]
    <3>1. 1 \in 1 .. Statements
      BY StatementsAssumption
    <3> QED
      BY <3>1, Zenon DEF Opening!Init
  <2> QED
    BY <1>1, <1>2, <2>1, <2>2, Zenon DEF Opening!TypeOK
<1>5. VersionedIsWhole
  BY DEF Opening!Init, VersionedIsWhole
<1> QED
  BY <1>3, <1>4, <1>5 DEF FileInv, Creators, Migrated

\* The steps of a behaviour, one by one.
LEMMA FileSteps ==
  ASSUME [Opening!Next]_(Opening!vars)
  PROVE  \/ \E p \in Thread :
              \/ \E policy \in {"CreateIfMissing", "RequireExisting"} : Opening!Begin(p, policy)
              \/ Opening!Connect(p) \/ Opening!ReadVersion(p) \/ Opening!CreateNext(p) \/ Opening!Clash(p) \/ Opening!Stamp(p)
              \/ Opening!BootstrapMeta(p) \/ Opening!BootstrapSystem(p) \/ Opening!Opened(p) \/ Opening!Fail(p) \/ Opening!Close(p)
         \/ UNCHANGED Opening!vars
BY Zenon DEF Opening!Next, Opening!OpenStep

\* A failure leaves the file as it is.
LEMMA FailLeaves ==
  ASSUME NEW p \in Thread, Opening!Fail(p)
  PROVE  /\ place' = [place EXCEPT ![p] = "closed"]
         /\ next' = [next EXCEPT ![p] = 1]
         /\ UNCHANGED <<exists, user_version, made, rows>>
         /\ interrupted' \in BOOLEAN
BY Zenon DEF Opening!Fail, Opening!GoTo

\* Each step of a process leaves the places of the others alone.
LEMMA FileTypes == Opening!TypeOK /\ [Opening!Next]_(Opening!vars) => Opening!TypeOK'
<1> SUFFICES ASSUME Opening!TypeOK, [Opening!Next]_(Opening!vars) PROVE Opening!TypeOK'
  OBVIOUS
<1> USE StatementsAssumption DEF Opening!TypeOK, Opening!GoTo, Opening!Current, Opening!Newer, Opening!Bootstrapped
<1>1. ASSUME NEW p \in Thread, NEW policy, Opening!Begin(p, policy) PROVE Opening!TypeOK'
  BY <1>1 DEF Opening!Begin
<1>2. ASSUME NEW p \in Thread, Opening!Connect(p) PROVE Opening!TypeOK'
  BY <1>2 DEF Opening!Connect
<1>3. ASSUME NEW p \in Thread, Opening!ReadVersion(p) PROVE Opening!TypeOK'
  BY <1>3 DEF Opening!ReadVersion
<1>4. ASSUME NEW p \in Thread, Opening!CreateNext(p) PROVE Opening!TypeOK'
  BY <1>4 DEF Opening!CreateNext, Opening!Advance
<1>5. ASSUME NEW p \in Thread, Opening!Clash(p) PROVE Opening!TypeOK'
  BY <1>5 DEF Opening!Clash
<1>6. ASSUME NEW p \in Thread, Opening!Stamp(p) PROVE Opening!TypeOK'
  BY <1>6 DEF Opening!Stamp
<1>7. ASSUME NEW p \in Thread, Opening!BootstrapMeta(p) \/ Opening!BootstrapSystem(p) PROVE Opening!TypeOK'
  BY <1>7 DEF Opening!BootstrapMeta, Opening!BootstrapSystem
<1>8. ASSUME NEW p \in Thread, Opening!Opened(p) \/ Opening!Close(p) PROVE Opening!TypeOK'
  BY <1>8 DEF Opening!Opened, Opening!Close
<1>9. ASSUME NEW p \in Thread, Opening!Fail(p) PROVE Opening!TypeOK'
  <2>1. /\ place' = [place EXCEPT ![p] = "closed"]
        /\ next' = [next EXCEPT ![p] = 1]
        /\ UNCHANGED <<exists, user_version, made, rows>>
    BY <1>9, FailLeaves
  <2>2. exists' \in BOOLEAN /\ interrupted' \in BOOLEAN
    BY <1>9, FailLeaves, Zenon
  <2>3. /\ user_version' \in {0, 1, 2}
        /\ made' \in 0 .. Statements
        /\ rows' \subseteq {"meta", "system"}
        /\ place' \in [Thread -> {"closed", "refused", "connecting", "connected", "creating",
                                   "created", "migrated", "described", "bootstrapped", "open"}]
        /\ next' \in [Thread -> 1 .. Statements]
    BY <2>1
  <2> QED
    BY <2>2, <2>3, Zenon
<1>10. CASE UNCHANGED Opening!vars
  BY <1>10 DEF Opening!vars
<1> HIDE DEF Opening!TypeOK, Opening!GoTo, Opening!Current, Opening!Newer, Opening!Bootstrapped
<1> QED
  BY <1>1, <1>2, <1>3, <1>4, <1>5, <1>6, <1>7, <1>8, <1>9, <1>10, FileSteps

\* Only the one process that has made the last statement writes the version.
LEMMA FileCreators == FileInv /\ [Opening!Next]_(Opening!vars) => VersionedIsWhole' /\ Creators'
<1> SUFFICES ASSUME FileInv, [Opening!Next]_(Opening!vars) PROVE VersionedIsWhole' /\ Creators'
  OBVIOUS
<1> USE StatementsAssumption DEF FileInv, Opening!TypeOK, VersionedIsWhole, Creators, Opening!GoTo
<1>1. ASSUME NEW p \in Thread, NEW policy, Opening!Begin(p, policy)
      PROVE  VersionedIsWhole' /\ Creators'
  BY <1>1 DEF Opening!Begin
<1>2. ASSUME NEW p \in Thread, Opening!Connect(p) \/ Opening!ReadVersion(p) \/ Opening!Clash(p)
      PROVE  VersionedIsWhole' /\ Creators'
  BY <1>2 DEF Opening!Connect, Opening!ReadVersion, Opening!Clash
<1>3. ASSUME NEW p \in Thread, Opening!CreateNext(p) PROVE VersionedIsWhole' /\ Creators'
  <2>1. made \in Nat /\ made < Statements /\ made' = made + 1 /\ user_version' = user_version
    BY <1>3 DEF Opening!CreateNext
  <2>2. user_version = 0 /\ \A q \in Thread : place[q] # "created"
    BY <2>1
  <2>3. place'[p] = "created" => made' = Statements
    BY <1>3, <2>2 DEF Opening!CreateNext, Opening!Advance
  <2>4. \A q \in Thread : q # p => place'[q] = place[q]
    BY <1>3 DEF Opening!CreateNext, Opening!Advance
  <2> QED
    BY <2>1, <2>2, <2>3, <2>4
<1>4. ASSUME NEW p \in Thread, Opening!Stamp(p) PROVE VersionedIsWhole' /\ Creators'
  BY <1>4 DEF Opening!Stamp
<1>5. ASSUME NEW p \in Thread, Opening!BootstrapMeta(p) \/ Opening!BootstrapSystem(p)
      PROVE  VersionedIsWhole' /\ Creators'
  BY <1>5 DEF Opening!BootstrapMeta, Opening!BootstrapSystem
<1>6. ASSUME NEW p \in Thread, Opening!Opened(p) \/ Opening!Fail(p) \/ Opening!Close(p)
      PROVE  VersionedIsWhole' /\ Creators'
  BY <1>6, FailLeaves DEF Opening!Opened, Opening!Close
<1>7. CASE UNCHANGED Opening!vars
  BY <1>7 DEF Opening!vars
<1> HIDE DEF FileInv, Opening!TypeOK, VersionedIsWhole, Creators, Opening!GoTo
<1> QED
  BY <1>1, <1>2, <1>3, <1>4, <1>5, <1>6, <1>7, FileSteps

\* A version that was written is never written again, and rows stay.
LEMMA FileMigrated == FileInv /\ [Opening!Next]_(Opening!vars) => Migrated'
<1> SUFFICES ASSUME FileInv, [Opening!Next]_(Opening!vars) PROVE Migrated'
  OBVIOUS
<1> USE DEF FileInv, Opening!TypeOK, Migrated, Opening!GoTo
<1>1. ASSUME NEW p \in Thread, NEW policy, Opening!Begin(p, policy) PROVE Migrated'
  BY <1>1 DEF Opening!Begin
<1>2. ASSUME NEW p \in Thread, Opening!Connect(p) \/ Opening!ReadVersion(p) PROVE Migrated'
  BY <1>2 DEF Opening!Connect, Opening!ReadVersion, Opening!Current
<1>3. ASSUME NEW p \in Thread, Opening!CreateNext(p) \/ Opening!Clash(p) PROVE Migrated'
  BY <1>3 DEF Opening!CreateNext, Opening!Advance, Opening!Clash
<1>4. ASSUME NEW p \in Thread, Opening!Stamp(p) PROVE Migrated'
  BY <1>4 DEF Opening!Stamp
<1>5. ASSUME NEW p \in Thread, Opening!BootstrapMeta(p) \/ Opening!BootstrapSystem(p) PROVE Migrated'
  BY <1>5 DEF Opening!BootstrapMeta, Opening!BootstrapSystem
<1>6. ASSUME NEW p \in Thread, Opening!Opened(p) \/ Opening!Fail(p) \/ Opening!Close(p) PROVE Migrated'
  BY <1>6, FailLeaves DEF Opening!Opened, Opening!Close
<1>7. CASE UNCHANGED Opening!vars
  BY <1>7 DEF Opening!vars
<1> HIDE DEF FileInv, Opening!TypeOK, Migrated, Opening!GoTo
<1> QED
  BY <1>1, <1>2, <1>3, <1>4, <1>5, <1>6, <1>7, FileSteps

\* The inductive invariant holds.
THEOREM FileInvariant == Opening!Spec => []FileInv
<1>1. FileInv /\ [Opening!Next]_(Opening!vars) => FileInv'
  BY FileTypes, FileCreators, FileMigrated DEF FileInv
<1>2. Opening!Init => FileInv
  BY FileInit
<1> HIDE DEF FileInv, Opening!TypeOK, Migrated, Opening!GoTo
<1> QED
  BY <1>1, <1>2, PTL DEF Opening!Spec

\* run_migrations: the version of a file is written once, over a whole schema, whatever
\* processes open it at the same time and wherever they fail.
THEOREM StampedOnceWholeHolds == Opening!Spec => StampedOnceWhole
<1> DEFINE Settled == user_version' # user_version => user_version = 0 /\ made' = Statements
<1>1. FileInv /\ [Opening!Next]_(Opening!vars) => [Settled]_(Opening!vars)
  <2> SUFFICES ASSUME FileInv, [Opening!Next]_(Opening!vars) PROVE Settled
    OBVIOUS
  <2>1. CASE UNCHANGED Opening!vars
    BY <2>1 DEF Opening!vars
  <2>2. ASSUME NEW p \in Thread, Opening!Stamp(p) PROVE Settled
    BY <2>2 DEF Opening!Stamp, FileInv, Creators
  <2>3. ASSUME NEW p \in Thread, Opening!OpenStep(p) \/ Opening!Fail(p) \/ Opening!Close(p), ~ Opening!Stamp(p) PROVE Settled
    BY <2>3, FailLeaves
       DEF Opening!OpenStep, Opening!Connect, Opening!ReadVersion, Opening!CreateNext, Opening!Clash, Opening!BootstrapMeta, Opening!BootstrapSystem,
           Opening!Opened, Opening!Close
  <2>4. ASSUME NEW p \in Thread, NEW policy, Opening!Begin(p, policy) PROVE Settled
    BY <2>4 DEF Opening!Begin
  <2> QED
    BY <2>1, <2>2, <2>3, <2>4 DEF Opening!Next
<1> HIDE DEF FileInv, Opening!TypeOK, Migrated, Opening!GoTo
<1> QED
  BY <1>1, FileInvariant, PTL DEF Opening!Spec, StampedOnceWhole, Opening!StampedOnceWhole

\* Store::open: who is given a store finds the whole schema and the rows of every store.
THEOREM OpenIsWholeHolds == Opening!Spec => []Opening!OpenIsWhole
<1>1. FileInv => Opening!OpenIsWhole
  <2> SUFFICES ASSUME FileInv, NEW p \in Thread, place[p] = "open"
               PROVE  user_version = Opening!Current /\ made = Statements /\ rows = Opening!Bootstrapped
    BY DEF Opening!OpenIsWhole
  <2>1. user_version = Opening!Current /\ "meta" \in rows /\ "system" \in rows
    BY DEF FileInv, Migrated
  <2>2. made = Statements
    BY <2>1 DEF FileInv, VersionedIsWhole, Opening!Current
  <2>3. rows = Opening!Bootstrapped
    BY <2>1 DEF FileInv, Opening!TypeOK, Opening!Bootstrapped
  <2> QED
    BY <2>1, <2>2, <2>3
<1> HIDE DEF FileInv, Opening!TypeOK, Migrated, Opening!GoTo
<1> QED
  BY <1>1, FileInvariant, PTL

-----------------------------------------------------------------------------
(* The registry of reducers.                                                *)

\* Numbers have a least one.
LEMMA LeastNumber ==
  ASSUME NEW S \in SUBSET Nat, S # {}
  PROVE  \E x \in S : \A y \in S : x <= y
<1>1. PICK x \in S : \A y \in S : ~ (<<y, x>> \in OpToRel(<, Nat))
  BY NatLessThanWellFounded, WFMin
<1>2. \A y \in S : ~ (y < x)
  BY <1>1 DEF OpToRel
<1> QED
  BY <1>2

\* A row of the table by which Matches decides, from the next one.
PlacesAt(p, s, i, after) ==
  IF i > Len(p) THEN {Len(s) + 1}
  ELSE IF p[i] = Registry!DoubleStar THEN {j \in 1..(Len(s) + 1) : \E k \in after : j <= k}
  ELSE {j \in 1..Len(s) : (p[i] = Registry!Star \/ p[i] = s[j]) /\ j + 1 \in after}
IsTable(p, s, m) == m = [i \in 1..(Len(p) + 1) |-> PlacesAt(p, s, i, m[i + 1])]

\* Its rows can be made from the last one up.
LEMMA TableExists ==
  ASSUME NEW p \in Seq(STRING), NEW s \in Seq(STRING)
  PROVE  \E m : IsTable(p, s, m)
<1> DEFINE n == Len(p)
           Part(g, k) == g = [i \in (n + 1 - k)..(n + 1) |-> PlacesAt(p, s, i, g[i + 1])]
           Missing == {k \in 0..n : ~ \E g : Part(g, k)}
<1>1. n \in Nat
  OBVIOUS
<1>2. Missing = {}
  <2> SUFFICES ASSUME Missing # {} PROVE FALSE
    OBVIOUS
  <2>1. PICK k \in Missing : \A e \in Missing : k <= e
    <3>1. Missing \subseteq Nat
      BY <1>1
    <3> HIDE DEF Missing
    <3> QED
      BY <3>1, LeastNumber
  <2>2. k \in 0..n /\ ~ \E g : Part(g, k)
    OBVIOUS
  <2>3. CASE k = 0
    <3> DEFINE g == [i \in (n + 1)..(n + 1) |-> {Len(s) + 1}]
    <3>1. \A i \in (n + 1)..(n + 1) : PlacesAt(p, s, i, g[i + 1]) = {Len(s) + 1}
      BY <1>1 DEF PlacesAt
    <3>2. (n + 1 - 0) = n + 1
      BY <1>1
    <3>3. g = [i \in (n + 1)..(n + 1) |-> PlacesAt(p, s, i, g[i + 1])]
      BY <3>1
    <3>4. Part(g, 0)
      BY <3>2, <3>3
    <3> QED
      BY <2>2, <2>3, <3>4
  <2>4. CASE k # 0
    <3>1. k \in 1..n /\ k - 1 \in 0..n /\ k - 1 \notin Missing
      <4>1. k \in 1..n /\ k - 1 \in 0..n /\ ~ (k <= k - 1)
        BY <1>1, <2>2, <2>4
      <4> HIDE DEF Missing
      <4> QED
        BY <2>1, <4>1
    <3>2. PICK g : Part(g, k - 1)
      BY <3>1
    <3> DEFINE a == n + 1 - k
               h == [i \in a..(n + 1) |-> PlacesAt(p, s, i, g[i + 1])]
    <3>3. a \in 1..n /\ n + 1 - (k - 1) = a + 1
      BY <1>1, <3>1
    <3>4. \A i \in (a + 1)..(n + 1) : g[i] = PlacesAt(p, s, i, g[i + 1])
      BY <3>2, <3>3
    <3> HIDE DEF Part, Missing, a
    <3>5. \A i \in a..(n + 1) : h[i] = PlacesAt(p, s, i, g[i + 1])
      OBVIOUS
    <3>6. \A i \in a..n : h[i + 1] = g[i + 1]
      BY <1>1, <3>3, <3>4, <3>5
    <3>7. PlacesAt(p, s, n + 1, g[n + 1 + 1]) = PlacesAt(p, s, n + 1, h[n + 1 + 1])
      BY <1>1 DEF PlacesAt
    <3>8. \A i \in a..(n + 1) : h[i] = PlacesAt(p, s, i, h[i + 1])
      <4> TAKE i \in a..(n + 1)
      <4>1. i \in a..n \/ i = n + 1
        BY <1>1, <3>3
      <4> HIDE DEF h
      <4> QED
        BY <3>5, <3>6, <3>7, <4>1
    <3>9. h = [i \in a..(n + 1) |-> PlacesAt(p, s, i, h[i + 1])]
      BY <3>8
    <3>10. Part(h, k)
      BY <3>9 DEF Part, a
    <3> QED
      BY <2>2, <3>10
  <2> QED
    BY <2>3, <2>4
<1>3. n \in 0..n /\ n \notin Missing
  BY <1>1, <1>2
<1>4. PICK g : Part(g, n)
  BY <1>3
<1>5. g = [i \in 1..(n + 1) |-> PlacesAt(p, s, i, g[i + 1])]
  <2>1. n + 1 - n = 1
    BY <1>1
  <2> QED
    BY <1>4, <2>1
<1> QED
  BY <1>5 DEF IsTable

\* A pattern without ** matches segment by segment.
LEMMA PlainMatch ==
  ASSUME NEW p \in Seq(STRING), NEW s \in Seq(STRING), Registry!Matches(p, s),
         ~ Registry!HasDoubleStar(p)
  PROVE  /\ Len(p) = Len(s)
         /\ \A i \in 1..Len(p) : p[i] = Registry!Star \/ p[i] = s[i]
<1> DEFINE m == CHOOSE m : IsTable(p, s, m)
           n == Len(p)
           l == Len(s)
<1>1. Registry!Matches(p, s) = (1 \in m[1])
  BY DEF Registry!Matches, IsTable, PlacesAt
<1>2. IsTable(p, s, m)
  BY TableExists
<1> HIDE DEF m
<1>3. n \in Nat /\ l \in Nat
  OBVIOUS
<1>4. /\ m[n + 1] = {l + 1}
      /\ \A i \in 1..n :
           m[i] = {j \in 1..l : (p[i] = Registry!Star \/ p[i] = s[j]) /\ j + 1 \in m[i + 1]}
  <2>1. \A i \in 1..n : p[i] # Registry!DoubleStar
    BY DEF Registry!HasDoubleStar
  <2>2. \A i \in 1..(n + 1) : m[i] = PlacesAt(p, s, i, m[i + 1])
    BY <1>2 DEF IsTable
  <2>3. n + 1 \in 1..(n + 1) /\ n + 1 > n /\ \A i \in 1..n : i \in 1..(n + 1) /\ ~ (i > n)
    BY <1>3
  <2> QED
    BY <2>1, <2>2, <2>3 DEF PlacesAt
<1> DEFINE Wrong == {i \in 1..(n + 1) : i \notin m[i]}
<1>5. Wrong = {}
  <2> SUFFICES ASSUME Wrong # {} PROVE FALSE
    OBVIOUS
  <2>1. PICK i \in Wrong : \A e \in Wrong : i <= e
    <3>1. Wrong \subseteq Nat
      BY <1>3
    <3> HIDE DEF Wrong
    <3> QED
      BY <3>1, LeastNumber
  <2>3. i # 1
    BY <1>1
  <2>4. i - 1 \in 1..n /\ i - 1 \notin Wrong /\ i \in 1..(n + 1) /\ i \notin m[i]
    BY <1>3, <2>1, <2>3
  <2>5. i - 1 \in m[i - 1]
    BY <1>3, <2>4
  <2> HIDE DEF Wrong
  <2>6. i - 1 + 1 \in m[i - 1 + 1]
    BY <1>4, <2>4, <2>5
  <2> QED
    BY <1>3, <2>4, <2>6
<1>6. n + 1 \in m[n + 1]
  BY <1>3, <1>5
<1>7. n = l
  BY <1>3, <1>4, <1>6
<1>8. \A i \in 1..n : i \in m[i]
  BY <1>3, <1>5
<1> HIDE DEF Wrong
<1> QED
  BY <1>3, <1>4, <1>7, <1>8

\* patterns_may_overlap is right: two patterns of one stream overlap.
LEMMA MatchingOverlap ==
  ASSUME NEW p \in Seq(STRING), NEW q \in Seq(STRING), NEW s \in Seq(STRING),
         Registry!Matches(p, s), Registry!Matches(q, s)
  PROVE  Registry!MayOverlap(p, q)
<1>1. CASE Registry!HasDoubleStar(p) \/ Registry!HasDoubleStar(q)
  BY <1>1 DEF Registry!MayOverlap
<1>2. CASE ~ Registry!HasDoubleStar(p) /\ ~ Registry!HasDoubleStar(q)
  BY <1>2, PlainMatch DEF Registry!MayOverlap
<1> QED
  BY <1>1, <1>2

LEMMA SpecificityIs == ASSUME NEW p \in Seq(STRING) PROVE Registry!Specificity(p) \in Nat
<1> DEFINE n == Len(p)
           Wild == {i \in 1..n : Registry!IsWildcard(p[i])}
           Score(k) == /\ \A i \in 1..k : ~ Registry!IsWildcard(p[i])
                       /\ k = n \/ Registry!IsWildcard(p[k + 1])
<1>1. n \in Nat
  OBVIOUS
<1>2. \E k \in 0..n : Score(k)
  <2>1. CASE Wild = {}
    <3>1. n \in 0..n /\ Score(n)
      BY <1>1, <2>1
    <3> QED
      BY <3>1
  <2>2. CASE Wild # {}
    <3>1. PICK i \in Wild : \A e \in Wild : i <= e
      <4>1. Wild \subseteq Nat
        BY <1>1
      <4> HIDE DEF Wild
      <4> QED
        BY <2>2, <4>1, LeastNumber
    <3>2. i \in 1..n /\ Registry!IsWildcard(p[i]) /\ i - 1 + 1 = i /\ i - 1 \in 0..n
      BY <1>1
    <3>3. \A e \in 1..(i - 1) : ~ Registry!IsWildcard(p[e])
      <4> TAKE e \in 1..(i - 1)
      <4>1. e \in 1..n /\ ~ (i <= e)
        BY <1>1, <3>2
      <4> QED
        BY <3>1, <4>1
    <3> HIDE DEF Wild
    <3>4. Score(i - 1)
      BY <3>2, <3>3
    <3> QED
      BY <3>2, <3>4
  <2> QED
    BY <2>1, <2>2
<1>3. Registry!Specificity(p) = CHOOSE k \in 0..n : Score(k)
  BY DEF Registry!Specificity
<1> HIDE DEF Score
<1>4. Registry!Specificity(p) \in 0..n
  BY <1>2, <1>3
<1> QED
  BY <1>1, <1>4

\* No two registered patterns are ambiguous.
Unambiguous ==
  /\ entries \in Seq(StreamPattern)
  /\ \A i, j \in 1..Len(entries) : i < j => ~ Registry!Ambiguous(entries[j], entries[i])

LEMMA RegisterKeeps == Unambiguous /\ [Registry!Next]_entries => Unambiguous'
<1> SUFFICES ASSUME Unambiguous, [Registry!Next]_entries PROVE Unambiguous'
  OBVIOUS
<1>1. CASE entries' = entries
  BY <1>1 DEF Unambiguous
<1>2. ASSUME NEW p \in StreamPattern, entries' # entries, Registry!RegisterReducer(p)
      PROVE  Unambiguous'
  <2> DEFINE n == Len(entries)
  <2>1. /\ \A i \in 1..n : ~ Registry!Ambiguous(p, entries[i])
        /\ entries' = Append(entries, p)
    BY <1>2 DEF Registry!RegisterReducer
  <2>2. /\ n \in Nat /\ entries' \in Seq(StreamPattern) /\ Len(entries') = n + 1
        /\ entries'[n + 1] = p /\ \A i \in 1..n : entries'[i] = entries[i]
    BY <2>1 DEF Unambiguous
  <2>3. \A i, j \in 1..(n + 1) : i < j => ~ Registry!Ambiguous(entries'[j], entries'[i])
    <3> TAKE i, j \in 1..(n + 1)
    <3> HAVE i < j
    <3>1. i \in 1..n /\ (j = n + 1 \/ j \in 1..n)
      BY <2>2
    <3> QED
      BY <2>1, <2>2, <3>1 DEF Unambiguous
  <2> QED
    BY <2>2, <2>3 DEF Unambiguous
<1> QED
  BY <1>1, <1>2 DEF Registry!Next

\* Of the reducers that match a stream one is found.
LEMMA FoundIs ==
  ASSUME Unambiguous, NEW s, Registry!Matching(s) # {}
  PROVE  /\ Registry!Found(s) \in Registry!Matching(s)
         /\ \A j \in Registry!Matching(s) :
              Registry!Specificity(entries[j]) <= Registry!Specificity(entries[Registry!Found(s)])
<1> DEFINE n == Len(entries)
           M == Registry!Matching(s)
           S(i) == Registry!Specificity(entries[i])
           Beats(i, j) == S(j) < S(i) \/ (S(j) = S(i) /\ i <= j)
           Best(k) == \E i \in M \cap 1..k : \A j \in M \cap 1..k : Beats(i, j)
           Missing == {k \in 0..n : M \cap 1..k # {} /\ ~ Best(k)}
<1>1. n \in Nat /\ M \subseteq 1..n
  BY DEF Unambiguous, Registry!Matching
<1>2. \A i \in 1..n : S(i) \in Nat
  <2> TAKE i \in 1..n
  <2>1. entries[i] \in Seq(STRING)
    BY NameAssumption DEF Unambiguous
  <2> QED
    BY <2>1, SpecificityIs
<1> HIDE DEF S, M
<1>3. Missing = {}
  <2> SUFFICES ASSUME Missing # {} PROVE FALSE
    OBVIOUS
  <2>1. PICK k \in Missing : \A e \in Missing : k <= e
    <3>1. Missing \subseteq Nat
      BY <1>1
    <3> HIDE DEF Missing
    <3> QED
      BY <3>1, LeastNumber
  <2>2. k \in 0..n /\ M \cap 1..k # {} /\ ~ Best(k)
    OBVIOUS
  <2>3. k \in 1..n /\ k - 1 \in 0..n /\ k - 1 \notin Missing
    <3>1. k # 0
      BY <2>2
    <3>2. k \in 1..n /\ k - 1 \in 0..n /\ ~ (k <= k - 1)
      BY <1>1, <2>2, <3>1
    <3> HIDE DEF Missing
    <3> QED
      BY <2>1, <3>2
  <2>4. 1..k = 1..(k - 1) \cup {k}
    <3>1. k \in Nat /\ k >= 1
      BY <1>1, <2>3
    <3>2. \A x \in 1..k : x \in 1..(k - 1) \/ x = k
      BY <3>1
    <3>3. k \in 1..k /\ \A x \in 1..(k - 1) : x \in 1..k
      BY <3>1
    <3> QED
      BY <3>2, <3>3
  <2>5. CASE M \cap 1..(k - 1) = {}
    <3>1. M \cap 1..k = {k}
      BY <2>2, <2>4, <2>5
    <3>2. Beats(k, k)
      BY <1>1, <1>2, <2>3
    <3> QED
      BY <2>2, <3>1, <3>2
  <2>6. CASE M \cap 1..(k - 1) # {}
    <3>1. PICK i \in M \cap 1..(k - 1) : \A j \in M \cap 1..(k - 1) : Beats(i, j)
      BY <2>3, <2>6
    <3>2. CASE k \notin M
      <4>1. M \cap 1..k = M \cap 1..(k - 1)
        BY <2>4, <3>2
      <4> QED
        BY <2>2, <3>1, <4>1
    <3>3. CASE k \in M /\ Beats(i, k)
      <4>1. \A j \in M \cap 1..k : Beats(i, j)
        BY <2>4, <3>1, <3>3
      <4>2. i \in M \cap 1..k
        BY <2>4
      <4> QED
        BY <2>2, <4>1, <4>2
    <3>4. CASE k \in M /\ ~ Beats(i, k)
      <4>1. i \in 1..n /\ i < k /\ S(i) \in Nat /\ S(k) \in Nat
        BY <1>1, <1>2, <2>3
      <4>2. S(i) < S(k)
        BY <3>4, <4>1, <2>3
      <4>3. \A j \in M \cap 1..k : Beats(k, j)
        <5> TAKE j \in M \cap 1..k
        <5>1. j \in 1..n /\ S(j) \in Nat
          BY <1>1, <1>2
        <5>2. CASE j = k
          BY <5>1, <5>2
        <5>3. CASE j # k
          <6>1. Beats(i, j)
            BY <2>4, <3>1, <5>3
          <6> HIDE DEF Missing
          <6>2. S(j) <= S(i)
            BY <4>1, <5>1, <6>1
          <6>3. S(j) < S(k)
            BY <4>1, <4>2, <5>1, <6>2
          <6> QED
            BY <6>3
        <5> QED
          BY <5>2, <5>3
      <4>4. k \in M \cap 1..k
        BY <2>4, <3>4
      <4> QED
        BY <2>2, <4>3, <4>4
    <3> QED
      BY <3>2, <3>3, <3>4
  <2> QED
    BY <2>5, <2>6
<1>4. M \cap 1..n = M /\ M # {}
  BY <1>1 DEF M
<1>5. n \in 0..n
  BY <1>1
<1>6. \E i \in M : \A j \in M : Beats(i, j)
  BY <1>3, <1>4, <1>5
<1>7. Registry!Found(s) = CHOOSE i \in M : \A j \in M : Beats(i, j)
  BY DEF Registry!Found, S, M
<1> DEFINE f == Registry!Found(s)
<1>8. f \in M /\ \A j \in M : Beats(f, j)
  <2> HIDE DEF Beats
  <2> QED
    BY <1>6, <1>7
<1>9. \A j \in M : S(j) \in Nat
  BY <1>1, <1>2
<1> HIDE DEF f
<1>10. \A j \in M : S(j) <= S(f)
  BY <1>8, <1>9
<1> QED
  BY <1>8, <1>10 DEF S, M, f

\* find_arc_with_policy: whatever is registered, in whatever order, the reducer that a
\* stream is given is more specific than every other that matches it.
THEOREM OneMostSpecificHolds == Registry!Spec => []OneMostSpecific
<1>1. Registry!Init => Unambiguous
  BY DEF Registry!Init, Unambiguous
<1>2. Unambiguous => OneMostSpecific
  <2> SUFFICES ASSUME Unambiguous, NEW s \in StreamName,
                      NEW j \in Registry!Matching(s) \ {Registry!Found(s)}
               PROVE  Registry!Specificity(entries[j])
                        < Registry!Specificity(entries[Registry!Found(s)])
    BY DEF OneMostSpecific, Registry!OneMostSpecific
  <2> DEFINE f == Registry!Found(s)
             n == Len(entries)
  <2>1. n \in Nat /\ Registry!Matching(s) \subseteq 1..n
    BY DEF Unambiguous, Registry!Matching
  <2>2. /\ f \in Registry!Matching(s)
        /\ Registry!Specificity(entries[j]) <= Registry!Specificity(entries[f])
    BY FoundIs
  <2> HIDE DEF f
  <2>3. /\ j \in 1..n /\ f \in 1..n /\ j # f
        /\ entries[j] \in Seq(STRING) /\ entries[f] \in Seq(STRING) /\ s \in Seq(STRING)
    BY <2>1, <2>2, NameAssumption DEF Unambiguous, f
  <2>4. Registry!Matches(entries[j], s) /\ Registry!Matches(entries[f], s)
    BY <2>2 DEF Registry!Matching
  <2>5. Registry!MayOverlap(entries[j], entries[f]) /\ Registry!MayOverlap(entries[f], entries[j])
    BY <2>3, <2>4, MatchingOverlap
  <2>6. j < f \/ f < j
    BY <2>1, <2>3
  <2>7. Registry!Specificity(entries[j]) # Registry!Specificity(entries[f])
    BY <2>3, <2>5, <2>6 DEF Unambiguous, Registry!Ambiguous
  <2>8. Registry!Specificity(entries[j]) \in Nat /\ Registry!Specificity(entries[f]) \in Nat
    BY <2>3, SpecificityIs
  <2> QED
    BY <2>2, <2>7, <2>8 DEF f
<1> QED
  BY <1>1, <1>2, RegisterKeeps, PTL DEF Registry!Spec

=============================================================================
