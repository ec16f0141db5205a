---------------------------- MODULE Delivery_proofs ----------------------------
(***************************************************************************)
(* Proofs about Delivery, for every set of topics, writers and             *)
(* subscriptions, every batch length and every capacity of the queues:     *)
(* the types; what every subscription may rely on (IInv); what a           *)
(* Synchronous one that was there from the start sees (SyncInv); and what  *)
(* a PostCommit one gets when each topic has one source (FeedInv), from    *)
(* which follow the refinement of Feed and the absence of gaps.            *)
(***************************************************************************)
EXTENDS Delivery, TLAPS, SequenceTheorems, FunctionTheorems, FiniteSetTheorems,
        WellFoundedInduction

-----------------------------------------------------------------------------
(* Lemmas about numbers and about counting.                                 *)

\* The least of the cursors that a scan starts from.
LEMMA LeastIs ==
  ASSUME NEW S \in SUBSET (Nat \cup {-1}), S # {}
  PROVE  Least(S) \in S /\ \A y \in S : Least(S) <= y
<1>1. \E x \in S : \A y \in S : x <= y
  <2>1. CASE -1 \in S
    BY <2>1
  <2>2. CASE -1 \notin S
    <3>1. S \subseteq Nat
      BY <2>2
    <3>2. PICK x \in S : \A y \in S : ~ (<<y, x>> \in OpToRel(<, Nat))
      BY <3>1, NatLessThanWellFounded, WFMin
    <3>3. \A y \in S : ~ (y < x)
      BY <3>1, <3>2 DEF OpToRel
    <3> QED
      BY <3>1, <3>3
  <2> QED
    BY <2>1, <2>2
<1> QED
  BY <1>1 DEF Least

\* The last index before a bound at which something happens.
LEMMA HasLast ==
  ASSUME NEW n \in Nat, NEW K \in SUBSET (1 .. n), K # {}
  PROVE  \E m \in K : \A k \in K : k <= m
<1> DEFINE D == {n - k : k \in K}
<1>1. D \in SUBSET (Nat \cup {-1}) /\ D # {}
  <2>1. \A k \in K : n - k \in Nat
    OBVIOUS
  <2>2. D \subseteq Nat
    BY <2>1
  <2>3. PICK k \in K : TRUE
    OBVIOUS
  <2>4. n - k \in D
    OBVIOUS
  <2> QED
    BY <2>2, <2>4
<1>2. PICK d \in D : \A e \in D : d <= e
  BY <1>1, LeastIs
<1>3. PICK m \in K : d = n - m
  OBVIOUS
<1>4. ASSUME NEW k \in K PROVE k <= m
  <2>1. n - k \in D
    OBVIOUS
  <2>2. n - m <= n - k
    BY <1>2, <1>3, <2>1
  <2>3. k \in Int /\ m \in Int
    OBVIOUS
  <2> QED
    BY <2>2, <2>3
<1> QED
  BY <1>4

\* The places of t in items from a to b.
Places(items, t, a, b) == {k \in a .. b : items[k] = t}

LEMMA PlacesFinite ==
  ASSUME NEW items, NEW t, NEW a \in Int, NEW b \in Int
  PROVE  /\ IsFiniteSet(Places(items, t, a, b))
         /\ Cardinality(Places(items, t, a, b)) \in Nat
<1>1. IsFiniteSet(a .. b)
  BY FS_Interval
<1>2. Places(items, t, a, b) \in SUBSET (a .. b)
  BY DEF Places
<1>3. IsFiniteSet(Places(items, t, a, b))
  BY <1>1, <1>2, FS_Subset
<1> QED
  BY <1>3, FS_CardinalityType

LEMMA PlacesSplit ==
  ASSUME NEW items, NEW t, NEW a \in Int, NEW b \in Int, NEW c \in Int, a <= b + 1, b <= c
  PROVE  Cardinality(Places(items, t, a, c))
           = Cardinality(Places(items, t, a, b)) + Cardinality(Places(items, t, b + 1, c))
<1> DEFINE P == Places(items, t, a, b)
           Q == Places(items, t, b + 1, c)
<1>1. P \cup Q = Places(items, t, a, c) /\ P \cap Q = {}
  BY DEF Places
<1>2. Cardinality(P \cap Q) = 0
  BY <1>1, FS_EmptySet
<1>3. IsFiniteSet(P) /\ IsFiniteSet(Q) /\ Cardinality(P) \in Nat /\ Cardinality(Q) \in Nat
  BY PlacesFinite
<1>4. Cardinality(P \cup Q) = Cardinality(P) + Cardinality(Q) - Cardinality(P \cap Q)
  BY <1>3, FS_Union
<1> QED
  BY <1>1, <1>2, <1>3, <1>4

\* One place is counted as one.
LEMMA OnePlace ==
  ASSUME NEW items, NEW t, NEW a \in Int, NEW b \in Int, NEW k \in a .. b, items[k] = t
  PROVE  /\ Cardinality(Places(items, t, a, b)) >= 1
         /\ (\A j \in a .. b : j # k => items[j] # t) => Cardinality(Places(items, t, a, b)) = 1
<1> DEFINE P == Places(items, t, a, b)
<1>1. IsFiniteSet(P) /\ Cardinality(P) \in Nat
  BY PlacesFinite
<1>2. Cardinality(P) # 0
  <2>1. k \in P
    BY DEF Places
  <2> QED
    BY <1>1, <2>1, FS_EmptySet
<1>3. ASSUME \A j \in a .. b : j # k => items[j] # t PROVE Cardinality(P) = 1
  <2>1. P = {k}
    BY <1>3 DEF Places
  <2> QED
    BY <2>1, FS_Singleton
<1> QED
  BY <1>1, <1>2, <1>3

LEMMA FunctionIsSeq ==
  ASSUME NEW S, NEW n \in Nat, NEW f \in [1 .. n -> S]
  PROVE  f \in Seq(S) /\ Len(f) = n
OBVIOUS

\* The items of a sequence are of its set, and its ends are what they should be.
LEMMA HeadIs ==
  ASSUME NEW S, NEW s \in Seq(S), s # << >>
  PROVE  /\ Len(s) \in Nat /\ Len(s) >= 1
         /\ Head(s) \in S /\ Head(s) = s[1]
         /\ Tail(s) \in Seq(S) /\ Len(Tail(s)) = Len(s) - 1
         /\ \A i \in 1 .. (Len(s) - 1) : Tail(s)[i] = s[i + 1]
OBVIOUS

LEMMA CountIs ==
  ASSUME NEW n \in Nat, NEW items \in [1 .. n -> Topic], NEW t
  PROVE  /\ Count(items, t) = Cardinality(Places(items, t, 1, n))
         /\ \A i \in 1 .. n :
              Count(SubSeq(items, 1, i - 1), t) = Cardinality(Places(items, t, 1, i - 1))
<1>1. Count(items, t) = Cardinality(Places(items, t, 1, n))
  BY DEF Count, Places
<1>2. ASSUME NEW i \in 1 .. n
      PROVE  Count(SubSeq(items, 1, i - 1), t) = Cardinality(Places(items, t, 1, i - 1))
  <2> DEFINE s == SubSeq(items, 1, i - 1)
  <2>1. items \in Seq(Topic) /\ Len(items) = n
    OBVIOUS
  <2>2. DOMAIN s = 1 .. (i - 1) /\ \A k \in 1 .. (i - 1) : s[k] = items[k]
    BY <2>1
  <2> HIDE DEF s
  <2>3. {k \in DOMAIN s : s[k] = t} = {k \in 1 .. (i - 1) : items[k] = t}
    BY <2>2
  <2> QED
    BY <2>3 DEF Count, Places, s
<1> QED
  BY <1>1, <1>2

\* A batch gives each topic the versions after its last one, in order.
LEMMA NewEventsAre ==
  ASSUME NEW n \in Nat, NEW items \in [1 .. n -> Topic], committed \in [Topic -> Nat]
  PROVE  /\ NewEvents(items) \in Seq(Event) /\ Len(NewEvents(items)) = n
         /\ \A t \in Topic : Count(items, t) \in Nat
         /\ \A i \in 1 .. n :
              LET t == items[i]  e == NewEvents(items)[i]
              IN  /\ e.topic = t
                  /\ e.version = committed[t] + Cardinality(Places(items, t, 1, i - 1))
                  /\ e.version = committed[t] + Count(items, t)
                                   - Cardinality(Places(items, t, i, n))
                  /\ e.version < committed[t] + Count(items, t)
<1> DEFINE f == NewEvents(items)
<1>1. \A t : \A i \in 1 .. n :
        /\ Count(items, t) = Cardinality(Places(items, t, 1, n))
        /\ Count(SubSeq(items, 1, i - 1), t) = Cardinality(Places(items, t, 1, i - 1))
  <2> TAKE t
  <2>1. /\ Count(items, t) = Cardinality(Places(items, t, 1, n))
        /\ \A i \in 1 .. n :
              Count(SubSeq(items, 1, i - 1), t) = Cardinality(Places(items, t, 1, i - 1))
    BY CountIs
  <2> QED
    BY <2>1
<1>2. DOMAIN f = 1 .. n
  BY DEF NewEvents
<1>3. ASSUME NEW i \in 1 .. n
      PROVE  /\ f[i] \in Event
             /\ f[i].topic = items[i]
             /\ f[i].version = committed[items[i]] + Cardinality(Places(items, items[i], 1, i - 1))
             /\ f[i].version = committed[items[i]] + Count(items, items[i])
                                 - Cardinality(Places(items, items[i], i, n))
             /\ f[i].version < committed[items[i]] + Count(items, items[i])
  <2> DEFINE t == items[i]
             before == Cardinality(Places(items, t, 1, i - 1))
             after == Cardinality(Places(items, t, i, n))
  <2>1. f[i] = [topic |-> t, version |-> committed[t] + before]
    BY <1>1 DEF NewEvents
  <2>2. before \in Nat /\ after \in Nat /\ after >= 1
    BY PlacesFinite, OnePlace
  <2>3. Count(items, t) = before + after
    BY <1>1, PlacesSplit, (i - 1) + 1 = i
  <2>4. t \in Topic /\ committed[t] \in Nat
    OBVIOUS
  <2> HIDE DEF f, t, before, after
  <2> QED
    BY <2>1, <2>2, <2>3, <2>4 DEF Event, t, before, after
<1>4. \A t \in Topic : Count(items, t) \in Nat
  BY CountIs, PlacesFinite
<1>5. f \in Seq(Event) /\ Len(f) = n
  <2>1. f \in [1 .. n -> Event]
    BY <1>2, <1>3 DEF NewEvents
  <2> QED
    BY <2>1, FunctionIsSeq
<1> QED
  BY <1>3, <1>4, <1>5

-----------------------------------------------------------------------------
(* Types.                                                                   *)

LEMMA InitTypes == Init => TypeOK
<1> SUFFICES ASSUME Init PROVE TypeOK
  OBVIOUS
<1>1. NoEvent \in Event
  BY TopicAssumption DEF NoEvent, Event
<1>2. seed \in [Sub -> [Topic -> Nat \cup {-1}]] /\ cursor = seed
  BY BoundAssumption DEF Init
<1>3. committed \in [Topic -> Nat]
  BY BoundAssumption DEF Init
<1>4. known \in [Sub -> SUBSET Topic]
  BY SubAssumption DEF Init
<1>5. received \in [Sub -> [Topic -> Seq(Nat)]]
  BY DEF Init
<1>6. /\ wpc \in [Writer -> {"idle", "entered", "locked", "sending"}]
      /\ hasSubs \in [Writer -> BOOLEAN]
      /\ fresh \in [Writer -> Seq(Event)] /\ pending \in [Writer -> Seq(Event)]
      /\ panicked \in [Writer -> SUBSET Report]
  BY DEF Init
<1>7. /\ status \in [Sub -> {"absent", "seeding", "live", "closed"}]
      /\ degraded \in [Sub -> BOOLEAN] /\ alive \in [Sub -> BOOLEAN]
      /\ queue \in [Sub -> Seq(Event)]
  BY DEF Init
<1>8. DOMAIN group = {}
  BY DEF Init
<1>9. /\ lock \in Writer \cup {None}
      /\ dispatch \in Seq(Event) /\ degradedCh \in Seq(Report) /\ fetched \in Seq(Event)
      /\ event \in Event /\ delivered \subseteq Sub /\ overflowed \subseteq Sub
      /\ audit \subseteq Report
      /\ dpc = "receive" /\ spc = "wait" /\ notified = FALSE /\ changed = FALSE
  BY <1>1 DEF Init
<1> QED
  BY <1>2, <1>3, <1>4, <1>5, <1>6, <1>7, <1>8, <1>9 DEF TypeOK

\* The types of what threads of this process do to the store and the channels.
LEMMA WriterTypes ==
  ASSUME TypeOK, NEW w \in Writer, Write(w) PROVE TypeOK'
<1>1. CASE Enter(w) \/ Refuse(w) \/ Unlock(w) \/ Return(w)
  BY <1>1 DEF Enter, Refuse, Unlock, Return, TypeOK, writerVars, registryVars, dispatcherVars,
       logVars, scanVars
<1>2. ASSUME NEW n \in 0 .. MaxBatch, NEW items \in [1 .. n -> Writes[w]], Commit(w, items)
      PROVE  TypeOK'
  <2>1. n \in Nat /\ items \in [1 .. n -> Topic]
    BY WriterAssumption, BoundAssumption
  <2>2. NewEvents(items) \in Seq(Event) /\ \A t \in Topic : Count(items, t) \in Nat
    BY <2>1, NewEventsAre DEF TypeOK
  <2>3. committed' \in [Topic -> Nat]
    BY <1>2, <2>2 DEF Commit, TypeOK
  <2>4. fresh' \in [Writer -> Seq(Event)]
    BY <1>2, <2>2 DEF Commit, TypeOK
  <2>5. notified' \in BOOLEAN /\ changed' \in BOOLEAN
    BY <1>2 DEF Commit, TypeOK, LogChanged, logVars
  <2> QED
    BY <1>2, <2>3, <2>4, <2>5 DEF Commit, TypeOK, registryVars, dispatcherVars, scanVars
<1>3. ASSUME NEW panics \in SUBSET SyncSub, DispatchSync(w, panics) PROVE TypeOK'
  <2> DEFINE e == Head(fresh[w])
  <2>1. e \in Event /\ e.topic \in Topic /\ e.version \in Nat
    <3>1. fresh[w] \in Seq(Event) /\ fresh[w] # << >>
      BY <1>3 DEF DispatchSync, TypeOK
    <3>2. e \in Event
      BY <3>1, HeadIs
    <3> QED
      BY <3>2 DEF Event
  <2>2. fresh' \in [Writer -> Seq(Event)]
    BY <1>3 DEF DispatchSync, TypeOK
  <2>3. pending' \in [Writer -> Seq(Event)]
    BY <1>3, <2>1 DEF DispatchSync, TypeOK
  <2>4. received' \in [Sub -> [Topic -> Seq(Nat)]]
    BY <1>3, <2>1 DEF DispatchSync, TypeOK
  <2>5. degraded' \in [Sub -> BOOLEAN]
    <3> SUFFICES ASSUME NEW s \in Sub PROVE (degraded[s] \/ s \in panics) \in BOOLEAN
      BY <1>3 DEF DispatchSync
    <3> QED
      OBVIOUS
  <2>6. panicked' \in [Writer -> SUBSET Report]
    <3>1. \A s \in panics : ReportOf(s, e) \in Report
      BY <2>1, SubAssumption DEF ReportOf, Report
    <3> QED
      BY <1>3, <3>1 DEF DispatchSync, TypeOK
  <2> QED
    BY <1>3, <2>2, <2>3, <2>4, <2>5, <2>6 DEF DispatchSync, TypeOK, dispatcherVars, logVars,
         scanVars
<1>4. ASSUME NEW r \in panicked[w], SendReport(w, r) PROVE TypeOK'
  BY <1>4 DEF SendReport, TypeOK, registryVars, dispatcherVars, logVars, scanVars
<1>5. CASE SendEvent(w)
  BY <1>5 DEF SendEvent, TypeOK, registryVars, dispatcherVars, logVars, scanVars
<1> QED
  BY <1>1, <1>2, <1>3, <1>4, <1>5 DEF Write

LEMMA SubscriptionTypes ==
  ASSUME TypeOK, NEW s \in Sub, Subscription(s) \/ Handle(s) \/ HandlerDies(s) PROVE TypeOK'
<1>1. CASE Seed(s)
  <2>1. \A t \in Topic : (IF t \in Pattern[s] THEN committed[t] - 1 ELSE -1) \in Nat \cup {-1}
    BY DEF TypeOK
  <2>2. seed' \in [Sub -> [Topic -> Nat \cup {-1}]]
    BY <1>1, <2>1 DEF Seed, TypeOK
  <2> QED
    BY <1>1, <2>2 DEF Seed, TypeOK, writerVars, dispatcherVars, logVars, scanVars
<1>2. CASE Register(s)
  BY <1>2, SubAssumption DEF Register, TypeOK, writerVars, dispatcherVars, logVars, scanVars
<1>3. CASE Unsubscribe(s)
  BY <1>3 DEF Unsubscribe, TypeOK, writerVars, dispatcherVars, logVars, scanVars
<1>4. CASE Handle(s)
  <2> DEFINE e == Head(queue[s])
  <2>1. queue[s] \in Seq(Event) /\ queue[s] # << >>
    BY <1>4 DEF Handle, TypeOK
  <2>2. e \in Event /\ Tail(queue[s]) \in Seq(Event)
    BY <2>1, HeadIs
  <2>3. e.topic \in Topic /\ e.version \in Nat
    BY <2>2 DEF Event
  <2>4. received' = [received EXCEPT ![s][e.topic] = Append(@, e.version)]
        /\ queue' = [queue EXCEPT ![s] = Tail(@)]
    BY <1>4 DEF Handle
  <2>5. received' \in [Sub -> [Topic -> Seq(Nat)]]
    BY <2>3, <2>4 DEF TypeOK
  <2>6. queue' \in [Sub -> Seq(Event)]
    BY <2>2, <2>4 DEF TypeOK
  <2> QED
    BY <1>4, <2>5, <2>6 DEF Handle, TypeOK, writerVars, registryVars, dispatcherVars, logVars,
         scanVars
<1>5. CASE HandlerDies(s)
  BY <1>5 DEF HandlerDies, TypeOK, writerVars, registryVars, dispatcherVars, logVars, scanVars
<1> QED
  BY <1>1, <1>2, <1>3, <1>4, <1>5 DEF Subscription

LEMMA EmittedTypes ==
  ASSUME TypeOK, NEW r \in Report, Emitted(r)
  PROVE  /\ committed' \in [Topic -> Nat] /\ audit' \subseteq Report
         /\ notified' \in BOOLEAN /\ changed' \in BOOLEAN
<1>1. CASE r \in audit
  BY <1>1 DEF TypeOK, Emitted, logVars
<1>2. CASE r \notin audit
  <2>1. committed' = [committed EXCEPT ![SystemTopic] = @ + 1] /\ audit' = audit \cup {r}
    BY <1>2 DEF Emitted
  <2>2. notified' \in BOOLEAN /\ changed' \in BOOLEAN
    BY <1>2 DEF Emitted, LogChanged
  <2> QED
    BY <2>1, <2>2, TopicAssumption DEF TypeOK
<1> QED
  BY <1>1, <1>2

LEMMA DispatcherTypes ==
  ASSUME TypeOK, Dispatcher PROVE TypeOK'
<1>1. CASE SkipSystem
  BY <1>1 DEF SkipSystem, TypeOK, writerVars, registryVars, dispatcherVars, logVars, scanVars
<1>2. CASE Dispatch
  <2> DEFINE e == Head(dispatch)
  <2>1. e \in Event /\ dispatch' \in Seq(Event)
    BY <1>2 DEF Dispatch, TypeOK
  <2>2. queue' \in [Sub -> Seq(Event)]
    BY <1>2, <2>1 DEF Dispatch, TypeOK
  <2>3. delivered' \subseteq Sub /\ overflowed' \subseteq Sub
    BY <1>2 DEF Dispatch, Wanting, Matching, Live
  <2>4. degraded' \in [Sub -> BOOLEAN]
    <3> DEFINE full == {s \in {x \in Wanting(e) : alive[x]} : Len(queue[s]) = QueueSize}
    <3>1. degraded' = [s \in Sub |-> degraded[s] \/ s \in full]
      BY <1>2 DEF Dispatch
    <3> HIDE DEF full
    <3> QED
      BY <3>1
  <2> QED
    BY <1>2, <2>1, <2>2, <2>3, <2>4 DEF Dispatch, TypeOK, writerVars, logVars, scanVars
<1>3. CASE Advance
  <2>1. event.topic \in Topic /\ event.version \in Nat
    BY DEF TypeOK, Event
  <2> QED
    BY <1>3, <2>1 DEF Advance, TypeOK, writerVars, logVars, scanVars
<1>4. ASSUME NEW s \in overflowed, EmitOverflow(s) PROVE TypeOK'
  <2>1. ReportOf(s, event) \in Report
    BY DEF ReportOf, Report, TypeOK, Event
  <2> QED
    BY <1>4, <2>1, EmittedTypes DEF EmitOverflow, TypeOK, writerVars, registryVars, scanVars
<1>5. CASE EmitPanic
  <2>1. Head(degradedCh) \in Report /\ degradedCh' \in Seq(Report)
    BY <1>5 DEF EmitPanic, TypeOK
  <2> QED
    BY <1>5, <2>1, EmittedTypes DEF EmitPanic, TypeOK, writerVars, registryVars, dispatcherVars,
         scanVars
<1>6. CASE Receive
  BY <1>6, TopicAssumption DEF Receive, TypeOK, NoEvent, Event, writerVars, registryVars, logVars,
       scanVars
<1> QED
  BY <1>1, <1>2, <1>3, <1>4, <1>5, <1>6 DEF Dispatcher

\* A topic that is scanned has a subscription that wants it, whose start is a cursor.
LEMMA ScanStartIs ==
  ASSUME TypeOK, NEW s \in Sub
  PROVE  /\ ScanStart(s) \in Nat \cup {-1}
         /\ s \notin GlobSub => \A t \in Pattern[s] : ScanStart(s) = cursor[s][t]
         /\ s \in GlobSub => \A t \in known[s] : ScanStart(s) <= cursor[s][t]
<1> Pattern[s] \subseteq Topic /\ known[s] \subseteq Topic
  BY SubAssumption DEF TypeOK
<1> cursor[s] \in [Topic -> Nat \cup {-1}]
  BY DEF TypeOK
<1>1. CASE s \notin GlobSub
  <2>1. PICK t \in Topic : Pattern[s] = {t}
    BY <1>1, SubAssumption
  <2>2. {cursor[s][u] : u \in Pattern[s]} = {cursor[s][t]}
    BY <2>1
  <2>3. Least({cursor[s][t]}) = cursor[s][t]
    BY LeastIs
  <2> QED
    BY <1>1, <2>1, <2>2, <2>3 DEF ScanStart
<1>2. CASE s \in GlobSub /\ known[s] = {}
  BY <1>2 DEF ScanStart
<1>3. CASE s \in GlobSub /\ known[s] # {}
  <2> DEFINE C == {cursor[s][t] : t \in known[s]}
  <2>1. C \in SUBSET (Nat \cup {-1}) /\ C # {}
    BY <1>3
  <2>2. ScanStart(s) = Least(C)
    BY <1>3 DEF ScanStart
  <2> QED
    BY <1>3, <2>1, <2>2, LeastIs
<1> QED
  BY <1>1, <1>2, <1>3

Watching == {s \in Live \cap PostCommitSub : ~ degraded[s]}

LEMMA SnapshotIs ==
  ASSUME TypeOK, Snapshot
  PROVE  /\ DOMAIN group' \subseteq Topic
         /\ \A t \in DOMAIN group' : group'[t] \in Nat \cup {-1}
         /\ \A s \in Watching : \A t \in Pattern[s] :
              t \in DOMAIN group' /\ group'[t] <= ScanStart(s)
<1> DEFINE Of(t) == {ScanStart(s) : s \in {x \in Watching : t \in Pattern[x]}}
           topics == UNION {Pattern[s] : s \in Watching}
<1>1. group' = [t \in topics |-> Least(Of(t))]
  BY DEF Snapshot, Watching
<1>2. Watching \subseteq Sub
  BY DEF Watching, Live
<1>3. ASSUME NEW t \in topics
      PROVE  Least(Of(t)) \in Nat \cup {-1} /\ \A v \in Of(t) : Least(Of(t)) <= v
  <2>1. Of(t) \in SUBSET (Nat \cup {-1}) /\ Of(t) # {}
    BY <1>2, ScanStartIs
  <2> QED
    BY <2>1, LeastIs
<1>4. topics \subseteq Topic
  BY <1>2, SubAssumption
<1>5. ASSUME NEW s \in Watching, NEW t \in Pattern[s]
      PROVE  t \in topics /\ ScanStart(s) \in Of(t)
  <2>1. t \in topics
    BY <1>5
  <2>2. s \in {x \in Watching : t \in Pattern[x]}
    BY <1>5
  <2> QED
    BY <2>1, <2>2
<1> HIDE DEF Of, topics
<1> QED
  BY <1>1, <1>3, <1>4, <1>5

LEMMA EventsAfterAre ==
  ASSUME TypeOK, NEW t \in Topic, NEW v \in Nat \cup {-1}
  PROVE  /\ EventsAfter(t, v) \in Seq(Event)
         /\ \A i \in 1 .. Len(EventsAfter(t, v)) :
              /\ EventsAfter(t, v)[i] = [topic |-> t, version |-> v + i]
              /\ v + i < committed[t]
<1> DEFINE n == committed[t] - 1 - v
           f == EventsAfter(t, v)
<1>1. committed[t] \in Nat /\ n \in Int
  BY DEF TypeOK
<1>2. \A i \in 1 .. n : v + i \in Nat /\ v + i < committed[t]
  BY <1>1
<1>3. f = [i \in 1 .. n |-> [topic |-> t, version |-> v + i]]
  BY DEF EventsAfter
<1>4. \A i \in 1 .. n : [topic |-> t, version |-> v + i] \in Event
  BY <1>2 DEF Event
<1> HIDE DEF f, n
<1>5. CASE n \in Nat
  <2>1. f \in Seq(Event) /\ Len(f) = n
    BY <1>3, <1>4, <1>5, FunctionIsSeq
  <2> QED
    BY <1>2, <1>3, <2>1 DEF f
<1>6. CASE n \notin Nat
  <2>1. 1 .. n = {}
    BY <1>1, <1>6
  <2>2. f = << >>
    BY <1>3, <2>1
  <2> QED
    BY <2>2 DEF f
<1> QED
  BY <1>5, <1>6

LEMMA WatcherTypes ==
  ASSUME TypeOK, Watcher PROVE TypeOK'
<1>1. CASE Wake
  BY <1>1 DEF Wake, TypeOK, writerVars, registryVars, dispatcherVars
<1>2. CASE Snapshot
  <2>1. DOMAIN group' \subseteq Topic /\ \A t \in DOMAIN group' : group'[t] \in Nat \cup {-1}
    BY <1>2, SnapshotIs
  <2> QED
    BY <1>2, <2>1 DEF Snapshot, TypeOK, writerVars, registryVars, dispatcherVars, logVars
<1>3. ASSUME NEW t \in DOMAIN group, Fetch(t) PROVE TypeOK'
  <2>1. t \in Topic /\ group[t] \in Nat \cup {-1}
    BY DEF TypeOK
  <2>2. fetched' \in Seq(Event)
    BY <1>3, <2>1, EventsAfterAre DEF Fetch
  <2>3. DOMAIN group' \subseteq Topic /\ \A u \in DOMAIN group' : group'[u] \in Nat \cup {-1}
    BY <1>3 DEF Fetch, TypeOK
  <2> QED
    BY <1>3, <2>2, <2>3 DEF Fetch, TypeOK, writerVars, registryVars, dispatcherVars, logVars
<1>4. CASE SendFetched
  BY <1>4 DEF SendFetched, TypeOK, writerVars, registryVars, dispatcherVars, logVars
<1>5. CASE ScanDone
  BY <1>5 DEF ScanDone, TypeOK, writerVars, registryVars, dispatcherVars, logVars
<1> QED
  BY <1>1, <1>2, <1>3, <1>4, <1>5 DEF Watcher

LEMMA NextTypes ==
  ASSUME TypeOK, [Next]_vars PROVE TypeOK'
<1>1. ASSUME NEW t \in RemoteWrites, RemoteCommit(t) PROVE TypeOK'
  <2>1. committed' \in [Topic -> Nat]
    BY <1>1, WriterAssumption DEF RemoteCommit, TypeOK
  <2> QED
    BY <1>1, <2>1 DEF RemoteCommit, LogChanged, TypeOK, writerVars, registryVars, dispatcherVars,
         scanVars
<1>2. CASE MissNotice
  BY <1>2 DEF MissNotice, TypeOK, writerVars, registryVars, dispatcherVars, scanVars
<1>3. CASE UNCHANGED vars
  BY <1>3 DEF vars, TypeOK, writerVars, registryVars, dispatcherVars, logVars, scanVars
<1> QED
  BY <1>1, <1>2, <1>3, WriterTypes, SubscriptionTypes, DispatcherTypes, WatcherTypes DEF Next

\* Every variable keeps its type: of the writers of store.rs, the registry, the
\* dispatcher and the watcher.
THEOREM TypeCorrect == Spec => []TypeOK
BY InitTypes, NextTypes, PTL DEF Spec

-----------------------------------------------------------------------------
(* What a subscription is handed, as a sequence r of versions that its      *)
(* handler saw and a queue q of events.                                     *)

QueuedOf(q, t) == {i \in 1 .. Len(q) : q[i].topic = t}
PushedOf(r, q, t) == {r[i] : i \in 1 .. Len(r)} \cup {q[i].version : i \in QueuedOf(q, t)}
OrderedOf(r, q, t) ==
  /\ \A i, j \in 1 .. Len(r) : i < j => r[i] < r[j]
  /\ \A i \in 1 .. Len(r), j \in QueuedOf(q, t) : r[i] < q[j].version
  /\ \A i, j \in QueuedOf(q, t) : i < j => q[i].version < q[j].version

LEMMA PushedIs ==
  \A s \in Sub, t \in Topic :
    /\ Pushed(s, t) = PushedOf(received[s][t], queue[s], t)
    /\ Pushed(s, t)' = PushedOf(received'[s][t], queue'[s], t)
BY DEF Pushed, PushedOf, Queued, QueuedOf

LEMMA EventsIn ==
  ASSUME NEW q \in Seq(Event), NEW i \in 1 .. Len(q)
  PROVE  q[i] \in Event /\ q[i].topic \in Topic /\ q[i].version \in Nat
<1>1. q[i] \in Event
  OBVIOUS
<1> QED
  BY <1>1 DEF Event

LEMMA PushedNat ==
  ASSUME NEW r \in Seq(Nat), NEW q \in Seq(Event), NEW t
  PROVE  PushedOf(r, q, t) \subseteq Nat
<1>1. \A i \in QueuedOf(q, t) : q[i].version \in Nat
  BY EventsIn DEF QueuedOf
<1>2. \A i \in 1 .. Len(r) : r[i] \in Nat
  OBVIOUS
<1> QED
  BY <1>1, <1>2 DEF PushedOf

\* The handler takes the first event of its queue: it is handed nothing new.
LEMMA HandleSeq ==
  ASSUME NEW r \in Seq(Nat), NEW q \in Seq(Event), q # << >>, NEW t \in Topic, OrderedOf(r, q, t)
  PROVE  LET s == IF t = Head(q).topic THEN Append(r, Head(q).version) ELSE r IN
         /\ OrderedOf(s, Tail(q), t)
         /\ PushedOf(s, Tail(q), t) = PushedOf(r, q, t)
<1> DEFINE e == Head(q)
           p == Tail(q)
           s == IF t = e.topic THEN Append(r, e.version) ELSE r
<1>1. /\ e = q[1] /\ p \in Seq(Event) /\ Len(q) \in Nat /\ Len(q) >= 1 /\ Len(p) = Len(q) - 1
      /\ \A i \in 1 .. Len(p) : p[i] = q[i + 1]
  BY HeadIs
<1>2. /\ \A i \in 1 .. Len(q) : q[i].version \in Nat
      /\ \A i \in 1 .. Len(p) : p[i].version \in Nat
  BY <1>1, EventsIn
<1> HIDE DEF p, e
<1>3. \A i \in QueuedOf(p, t) : i + 1 \in QueuedOf(q, t) /\ p[i] = q[i + 1] /\ i \in 1 .. Len(p)
  BY <1>1 DEF QueuedOf
<1>4. \A i \in QueuedOf(q, t) : i = 1 \/ (i - 1 \in QueuedOf(p, t) /\ p[i - 1] = q[i])
  BY <1>1 DEF QueuedOf
<1>5. 1 \in QueuedOf(q, t) <=> t = e.topic
  BY <1>1 DEF QueuedOf
<1>6. \A i, j \in QueuedOf(p, t) : i < j => p[i].version < p[j].version
  <2> SUFFICES ASSUME NEW i \in QueuedOf(p, t), NEW j \in QueuedOf(p, t), i < j
               PROVE  p[i].version < p[j].version
    OBVIOUS
  <2>1. i + 1 < j + 1 /\ i + 1 \in QueuedOf(q, t) /\ j + 1 \in QueuedOf(q, t)
    BY <1>1, <1>3
  <2>2. q[i + 1].version < q[j + 1].version
    BY <2>1 DEF OrderedOf
  <2> QED
    BY <1>3, <2>2
<1>7. \A i \in 1 .. Len(r), j \in QueuedOf(p, t) : r[i] < p[j].version
  <2> SUFFICES ASSUME NEW i \in 1 .. Len(r), NEW j \in QueuedOf(p, t) PROVE r[i] < p[j].version
    OBVIOUS
  <2>1. r[i] < q[j + 1].version
    BY <1>3 DEF OrderedOf
  <2> QED
    BY <1>3, <2>1
<1>8. CASE t = e.topic
  <2>1. s = Append(r, e.version) /\ Len(s) = Len(r) + 1 /\ Len(r) \in Nat
        /\ s[Len(r) + 1] = q[1].version /\ \A i \in 1 .. Len(r) : s[i] = r[i] /\ r[i] \in Nat
    BY <1>1, <1>2, <1>8
  <2>2. 1 \in QueuedOf(q, t)
    BY <1>5, <1>8
  <2>3. \A i \in 1 .. Len(r) : r[i] < q[1].version
    BY <2>2 DEF OrderedOf
  <2>4. \A j \in QueuedOf(p, t) : q[1].version < p[j].version
    <3> SUFFICES ASSUME NEW j \in QueuedOf(p, t) PROVE q[1].version < p[j].version
      OBVIOUS
    <3>1. j + 1 \in QueuedOf(q, t) /\ 1 < j + 1
      BY <1>1, <1>3
    <3>2. q[1].version < q[j + 1].version
      BY <2>2, <3>1 DEF OrderedOf
    <3> QED
      BY <1>3, <3>2
  <2> HIDE DEF s
  <2>5. OrderedOf(s, p, t)
    <3>1. \A i, j \in 1 .. Len(s) : i < j => s[i] < s[j]
      <4> SUFFICES ASSUME NEW i \in 1 .. Len(s), NEW j \in 1 .. Len(s), i < j PROVE s[i] < s[j]
        OBVIOUS
      <4>1. i \in 1 .. Len(r)
        BY <2>1
      <4>2. CASE j \in 1 .. Len(r)
        BY <2>1, <4>1, <4>2 DEF OrderedOf
      <4>3. CASE j = Len(r) + 1
        BY <2>1, <2>3, <4>1, <4>3
      <4>4. j \in 1 .. Len(r) \/ j = Len(r) + 1
        BY <2>1
      <4> QED
        BY <4>2, <4>3, <4>4
    <3>2. \A i \in 1 .. Len(s), j \in QueuedOf(p, t) : s[i] < p[j].version
      <4> SUFFICES ASSUME NEW i \in 1 .. Len(s), NEW j \in QueuedOf(p, t) PROVE s[i] < p[j].version
        OBVIOUS
      <4>1. CASE i \in 1 .. Len(r)
        BY <1>7, <2>1, <4>1
      <4>2. CASE i = Len(r) + 1
        BY <2>1, <2>4, <4>2
      <4> QED
        BY <2>1, <4>1, <4>2
    <3> QED
      BY <1>6, <3>1, <3>2 DEF OrderedOf
  <2>6. PushedOf(s, p, t) = PushedOf(r, q, t)
    <3>1. ASSUME NEW v \in PushedOf(s, p, t) PROVE v \in PushedOf(r, q, t)
      <4>1. CASE \E i \in 1 .. Len(s) : v = s[i]
        <5>1. PICK i \in 1 .. Len(s) : v = s[i]
          BY <4>1
        <5>2. CASE i \in 1 .. Len(r)
          BY <2>1, <5>1, <5>2 DEF PushedOf
        <5>3. CASE i = Len(r) + 1
          BY <2>1, <2>2, <5>1, <5>3 DEF PushedOf
        <5> QED
          BY <2>1, <5>2, <5>3
      <4>2. CASE \E i \in QueuedOf(p, t) : v = p[i].version
        BY <1>3, <4>2 DEF PushedOf
      <4> QED
        BY <3>1, <4>1, <4>2 DEF PushedOf
    <3>2. ASSUME NEW v \in PushedOf(r, q, t) PROVE v \in PushedOf(s, p, t)
      <4>1. CASE \E i \in 1 .. Len(r) : v = r[i]
        <5>1. PICK i \in 1 .. Len(r) : v = r[i]
          BY <4>1
        <5>2. i \in 1 .. Len(s) /\ v = s[i]
          BY <2>1, <5>1
        <5> QED
          BY <5>2 DEF PushedOf
      <4>2. CASE \E i \in QueuedOf(q, t) : v = q[i].version
        <5>1. PICK i \in QueuedOf(q, t) : v = q[i].version
          BY <4>2
        <5>2. CASE i = 1
          <6>1. v = s[Len(r) + 1] /\ Len(r) + 1 \in 1 .. Len(s)
            BY <1>1, <2>1, <5>1, <5>2
          <6> QED
            BY <6>1 DEF PushedOf
        <5>3. CASE i # 1
          BY <1>4, <5>1, <5>3 DEF PushedOf
        <5> QED
          BY <5>2, <5>3
      <4> QED
        BY <3>2, <4>1, <4>2 DEF PushedOf
    <3> QED
      BY <3>1, <3>2
  <2> QED
    BY <2>5, <2>6 DEF p, e, s
<1>9. CASE t # e.topic
  <2>1. s = r
    BY <1>9
  <2> HIDE DEF s
  <2>2. OrderedOf(r, p, t)
    BY <1>6, <1>7 DEF OrderedOf
  <2>3. PushedOf(r, p, t) = PushedOf(r, q, t)
    <3>1. {p[i].version : i \in QueuedOf(p, t)} \subseteq {q[i].version : i \in QueuedOf(q, t)}
      BY <1>3
    <3>2. {q[i].version : i \in QueuedOf(q, t)} \subseteq {p[i].version : i \in QueuedOf(p, t)}
      BY <1>4, <1>5, <1>9
    <3> QED
      BY <3>1, <3>2 DEF PushedOf
  <2> QED
    BY <2>1, <2>2, <2>3 DEF s, p, e
<1> QED
  BY <1>8, <1>9 DEF p, e, s

\* An event joins the queue: it comes after all that was handed over.
LEMMA PushSeq ==
  ASSUME NEW r \in Seq(Nat), NEW q \in Seq(Event), NEW e \in Event, NEW t \in Topic,
         OrderedOf(r, q, t), t = e.topic => \A v \in PushedOf(r, q, t) : v < e.version
  PROVE  /\ OrderedOf(r, Append(q, e), t)
         /\ PushedOf(r, Append(q, e), t)
              = PushedOf(r, q, t) \cup (IF t = e.topic THEN {e.version} ELSE {})
<1> DEFINE p == Append(q, e)
           n == Len(q)
           Q == QueuedOf(q, t)
<1>1. n \in Nat /\ Len(p) = n + 1 /\ p[n + 1] = e /\ \A i \in 1 .. n : p[i] = q[i]
  OBVIOUS
<1>2. \A i \in 1 .. n : q[i].version \in Nat
  BY EventsIn
<1> HIDE DEF p, n
<1>3. QueuedOf(p, t) = Q \cup (IF t = e.topic THEN {n + 1} ELSE {})
  BY <1>1 DEF QueuedOf, n
<1>4. \A i \in Q : i \in 1 .. n /\ p[i] = q[i] /\ i < n + 1
  BY <1>1 DEF QueuedOf, n
<1> HIDE DEF Q
<1>5. PushedOf(r, p, t) = PushedOf(r, q, t) \cup (IF t = e.topic THEN {e.version} ELSE {})
  BY <1>1, <1>3, <1>4 DEF PushedOf, Q
<1>6. OrderedOf(r, p, t)
  <2>1. CASE t = e.topic
    <3>1. \A i \in 1 .. Len(r) : r[i] < e.version
      BY <2>1 DEF PushedOf
    <3>2. \A i \in Q : q[i].version < e.version
      BY <2>1 DEF PushedOf, Q
    <3>3. \A i \in 1 .. Len(r), j \in QueuedOf(p, t) : r[i] < p[j].version
      BY <1>1, <1>3, <1>4, <3>1 DEF OrderedOf, Q
    <3>4. \A i, j \in QueuedOf(p, t) : i < j => p[i].version < p[j].version
      <4> SUFFICES ASSUME NEW i \in QueuedOf(p, t), NEW j \in QueuedOf(p, t), i < j
                   PROVE  p[i].version < p[j].version
        OBVIOUS
      <4>1. i \in Q
        BY <1>1, <1>3, <1>4
      <4>2. CASE j \in Q
        BY <1>4, <4>1, <4>2 DEF OrderedOf, Q
      <4>3. CASE j = n + 1
        BY <1>1, <1>4, <3>2, <4>1, <4>3
      <4> QED
        BY <1>3, <4>2, <4>3
    <3> QED
      BY <3>3, <3>4 DEF OrderedOf
  <2>2. CASE t # e.topic
    BY <1>3, <1>4, <2>2 DEF OrderedOf, Q
  <2> QED
    BY <2>1, <2>2
<1> QED
  BY <1>5, <1>6 DEF p

\* The queue is dropped.
LEMMA DropSeq ==
  ASSUME NEW r, NEW q, NEW t, OrderedOf(r, q, t)
  PROVE  OrderedOf(r, << >>, t) /\ PushedOf(r, << >>, t) \subseteq PushedOf(r, q, t)
BY DEF OrderedOf, PushedOf, QueuedOf

\* A Synchronous handler sees an event.
LEMMA ReceiveSeq ==
  ASSUME NEW r \in Seq(Nat), NEW v \in Nat, NEW t, OrderedOf(r, << >>, t),
         \A u \in PushedOf(r, << >>, t) : u < v
  PROVE  /\ OrderedOf(Append(r, v), << >>, t)
         /\ PushedOf(Append(r, v), << >>, t) = PushedOf(r, << >>, t) \cup {v}
<1> DEFINE s == Append(r, v)
<1>1. QueuedOf(<< >>, t) = {}
  BY DEF QueuedOf
<1>2. /\ Len(r) \in Nat /\ Len(s) = Len(r) + 1 /\ s[Len(r) + 1] = v
      /\ \A i \in 1 .. Len(r) : s[i] = r[i] /\ r[i] \in Nat
  OBVIOUS
<1>3. \A i \in 1 .. Len(r) : r[i] < v
  BY DEF PushedOf
<1> HIDE DEF s
<1>4. OrderedOf(s, << >>, t)
  BY <1>1, <1>2, <1>3 DEF OrderedOf
<1>5. PushedOf(s, << >>, t) = PushedOf(r, << >>, t) \cup {v}
  BY <1>1, <1>2 DEF PushedOf
<1> QED
  BY <1>4, <1>5 DEF s

-----------------------------------------------------------------------------
(* The invariant.                                                           *)

Items(q) == {q[i] : i \in 1 .. Len(q)}

LEMMA ItemsAre ==
  ASSUME NEW S, NEW q \in Seq(S)
  PROVE  /\ Items(q) \subseteq S
         /\ \A e \in S : Items(Append(q, e)) = Items(q) \cup {e}
         /\ q # << >> => Head(q) \in Items(q) /\ Items(Tail(q)) \subseteq Items(q)
<1>1. Items(q) \subseteq S
  BY DEF Items
<1>2. ASSUME NEW e \in S PROVE Items(Append(q, e)) = Items(q) \cup {e}
  <2> DEFINE p == Append(q, e)
  <2>1. Len(q) \in Nat /\ Len(p) = Len(q) + 1 /\ p[Len(q) + 1] = e
        /\ \A i \in 1 .. Len(q) : p[i] = q[i]
    OBVIOUS
  <2> HIDE DEF p
  <2> QED
    BY <2>1 DEF Items, p
<1>3. ASSUME q # << >> PROVE Head(q) \in Items(q) /\ Items(Tail(q)) \subseteq Items(q)
  <2>1. Len(q) \in Nat /\ Len(q) >= 1 /\ Head(q) = q[1] /\ Len(Tail(q)) = Len(q) - 1
        /\ \A i \in 1 .. (Len(q) - 1) : Tail(q)[i] = q[i + 1]
    BY <1>3, HeadIs
  <2>2. Head(q) \in Items(q)
    BY <2>1 DEF Items
  <2>3. ASSUME NEW i \in 1 .. Len(Tail(q)) PROVE Tail(q)[i] \in Items(q)
    <3>1. i + 1 \in 1 .. Len(q) /\ Tail(q)[i] = q[i + 1]
      BY <2>1
    <3> QED
      BY <3>1 DEF Items
  <2> QED
    BY <2>2, <2>3 DEF Items
<1> QED
  BY <1>1, <1>2, <1>3

Committed(e) == e.version < committed[e.topic]

\* What is under way to a subscriber is committed.
ChannelsOK ==
  /\ \A e \in Items(dispatch) : Committed(e)
  /\ \A e \in Items(fetched) : Committed(e)
  /\ \A w \in Writer : \A e \in Items(fresh[w]) \cup Items(pending[w]) : Committed(e)

\* Only the writer that holds the mutex has events for Synchronous subscriptions.
LocksOK ==
  \A w \in Writer :
    /\ wpc[w] = "locked" <=> lock = w
    /\ fresh[w] # << >> => wpc[w] = "locked"
    /\ pending[w] # << >> => wpc[w] \in {"locked", "sending"}

DispatcherOK ==
  /\ dpc # "advance" => delivered = {}
  /\ delivered \subseteq PostCommitSub
  /\ \A s \in delivered : event.topic \in Pattern[s]

SeedOK == \A s \in Sub, t \in Topic : seed[s][t] < committed[t]

\* Synchronous subscriptions have no queue, and nobody is handed events before it
\* joins the registry.
BeforeOK ==
  \A s \in Sub :
    /\ s \in SyncSub => queue[s] = << >>
    /\ status[s] \in {"absent", "seeding"} =>
         queue[s] = << >> /\ s \notin delivered /\ \A t \in Topic : received[s][t] = << >>

\* What s was handed of t is in order and committed, and between the cursor it began
\* with and the one it has.
SubOK(s, t) ==
  /\ OrderedOf(received[s][t], queue[s], t)
  /\ \A v \in Pushed(s, t) : v < committed[t] /\ (s \in PostCommitSub => v > seed[s][t])
  /\ s \in PostCommitSub /\ status[s] = "live" =>
       /\ \A v \in Pushed(s, t) \cup {seed[s][t]} : v <= Position(s, t)
       /\ alive[s] => Position(s, t) \in Pushed(s, t) \cup {seed[s][t]}
       /\ s \in delivered /\ event.topic = t => event.version > cursor[s][t]

SubsOK == \A s \in Sub, t \in Topic : SubOK(s, t)

\* The events of a writer are in order, and newer than what Synchronous
\* subscriptions got.
FreshOK ==
  \A w \in Writer :
    /\ \A i, j \in 1 .. Len(fresh[w]) :
         i < j /\ fresh[w][i].topic = fresh[w][j].topic
           => fresh[w][i].version < fresh[w][j].version
    /\ \A i \in 1 .. Len(fresh[w]) : \A s \in SyncSub :
         \A v \in Pushed(s, fresh[w][i].topic) : v < fresh[w][i].version

\* The reports that were sent or are under way are true.
Reported(r) ==
  \/ r \in audit
  \/ r \in Items(degradedCh)
  \/ \E w \in Writer : r \in panicked[w]
  \/ \E s \in overflowed : r = ReportOf(s, event)

Truthful(r) == degraded[r.sub] /\ r.version \notin Pushed(r.sub, r.topic)

ReportsOK == \A r \in Report : Reported(r) => Truthful(r)

IInv ==
  /\ TypeOK
  /\ ChannelsOK
  /\ LocksOK
  /\ DispatcherOK
  /\ SeedOK
  /\ BeforeOK
  /\ SubsOK
  /\ FreshOK
  /\ ReportsOK

\* The types of what belongs to a subscription and a topic, before and after a step.
LEMMA SubTypes ==
  ASSUME TypeOK, TypeOK', NEW s \in Sub, NEW t \in Topic
  PROVE  /\ received[s][t] \in Seq(Nat) /\ received'[s][t] \in Seq(Nat)
         /\ queue[s] \in Seq(Event) /\ queue'[s] \in Seq(Event)
         /\ cursor[s][t] \in Nat \cup {-1} /\ cursor'[s][t] \in Nat \cup {-1}
         /\ seed[s][t] \in Nat \cup {-1} /\ seed'[s][t] \in Nat \cup {-1}
         /\ committed[t] \in Nat /\ committed'[t] \in Nat
         /\ Position(s, t) \in Nat \cup {-1} /\ Position(s, t)' \in Nat \cup {-1}
         /\ Pushed(s, t) \subseteq Nat /\ Pushed(s, t)' \subseteq Nat
<1>1. /\ received[s][t] \in Seq(Nat) /\ received'[s][t] \in Seq(Nat)
      /\ queue[s] \in Seq(Event) /\ queue'[s] \in Seq(Event)
  BY DEF TypeOK
<1>2. Pushed(s, t) \subseteq Nat /\ Pushed(s, t)' \subseteq Nat
  BY <1>1, PushedIs, PushedNat
<1>3. /\ cursor[s][t] \in Nat \cup {-1} /\ cursor'[s][t] \in Nat \cup {-1}
      /\ seed[s][t] \in Nat \cup {-1} /\ seed'[s][t] \in Nat \cup {-1}
      /\ committed[t] \in Nat /\ committed'[t] \in Nat
  <2>1. cursor[s] \in [Topic -> Nat \cup {-1}] /\ cursor'[s] \in [Topic -> Nat \cup {-1}]
    BY DEF TypeOK
  <2>2. seed[s] \in [Topic -> Nat \cup {-1}] /\ seed'[s] \in [Topic -> Nat \cup {-1}]
    BY DEF TypeOK
  <2>3. committed[t] \in Nat /\ committed'[t] \in Nat
    BY DEF TypeOK
  <2> QED
    BY <2>1, <2>2, <2>3
<1>4. event.version \in Nat /\ event'.version \in Nat
  BY DEF TypeOK, Event
<1>5. Position(s, t) \in Nat \cup {-1} /\ Position(s, t)' \in Nat \cup {-1}
  BY <1>3, <1>4 DEF Position
<1> QED
  BY <1>1, <1>2, <1>3, <1>5

\* The bound on appends aside, the log only grows.
LEMMA CommittedRises ==
  ASSUME TypeOK, [Next]_vars, NEW t \in Topic
  PROVE  committed[t] <= committed'[t]
<1>0. committed \in [Topic -> Nat]
  BY DEF TypeOK
<1>1. CASE committed' = committed
  BY <1>0, <1>1
<1>2. ASSUME NEW w \in Writer, NEW n \in 0 .. MaxBatch, NEW items \in [1 .. n -> Writes[w]],
             Commit(w, items)
      PROVE  committed[t] <= committed'[t]
  <2>1. n \in Nat /\ items \in [1 .. n -> Topic]
    BY WriterAssumption, BoundAssumption
  <2>2. Count(items, t) \in Nat
    BY <1>0, <2>1, NewEventsAre
  <2>3. committed'[t] = committed[t] + Count(items, t)
    BY <1>2 DEF Commit
  <2> QED
    BY <1>0, <2>2, <2>3
<1>3. ASSUME NEW u \in Topic, committed' = [committed EXCEPT ![u] = @ + 1]
      PROVE  committed[t] <= committed'[t]
  BY <1>0, <1>3
<1>4. ASSUME NEW w \in Writer, Write(w) PROVE committed[t] <= committed'[t]
  BY <1>1, <1>2, <1>4 DEF Write, Enter, Refuse, DispatchSync, Unlock, SendReport, SendEvent, Return
<1>5. ASSUME NEW u \in RemoteWrites, RemoteCommit(u) PROVE committed[t] <= committed'[t]
  BY <1>3, <1>5, WriterAssumption DEF RemoteCommit
<1>6. ASSUME NEW s \in Sub, Subscription(s) \/ Handle(s) \/ HandlerDies(s)
      PROVE  committed[t] <= committed'[t]
  BY <1>1, <1>6 DEF Subscription, Seed, Register, Unsubscribe, Handle, HandlerDies
<1>7. CASE Dispatcher
  <2>1. ASSUME NEW r, Emitted(r) PROVE committed[t] <= committed'[t]
    BY <1>1, <1>3, <2>1, TopicAssumption DEF Emitted
  <2> QED
    BY <1>1, <1>7, <2>1 DEF Dispatcher, SkipSystem, Dispatch, Advance, EmitOverflow, EmitPanic,
         Receive
<1>8. CASE Watcher \/ MissNotice \/ UNCHANGED vars
  BY <1>1, <1>8 DEF Watcher, Wake, Snapshot, Fetch, SendFetched, ScanDone, MissNotice, vars
<1> QED
  BY <1>4, <1>5, <1>6, <1>7, <1>8 DEF Next

-----------------------------------------------------------------------------
(* Each part of the invariant holds after a step.                           *)

\* What the feeds of subscriptions depend on.
feedVars == <<registryVars, queue, alive, dpc, event, delivered, seed, received>>

\* The steps that change it.
LEMMA Steps ==
  ASSUME [Next]_vars
  PROVE  \/ UNCHANGED feedVars
         \/ \E w \in Writer, panics \in SUBSET SyncSub : DispatchSync(w, panics)
         \/ \E s \in Sub : Seed(s) \/ Register(s) \/ Unsubscribe(s) \/ Handle(s) \/ HandlerDies(s)
         \/ Dispatch \/ Advance \/ Receive
<1>1. ASSUME NEW w \in Writer, Write(w),
             ~ \E panics \in SUBSET SyncSub : DispatchSync(w, panics)
      PROVE  UNCHANGED feedVars
  BY <1>1 DEF Write, Enter, Refuse, Commit, Unlock, SendReport, SendEvent, Return, feedVars,
       registryVars, dispatcherVars
<1>2. ASSUME NEW t \in RemoteWrites, RemoteCommit(t) PROVE UNCHANGED feedVars
  BY <1>2 DEF RemoteCommit, feedVars, registryVars, dispatcherVars
<1>3. ASSUME Dispatcher, ~ Dispatch, ~ Advance, ~ Receive PROVE UNCHANGED feedVars
  BY <1>3 DEF Dispatcher, SkipSystem, EmitOverflow, EmitPanic, feedVars, registryVars,
       dispatcherVars
<1>4. CASE Watcher \/ MissNotice \/ UNCHANGED vars
  BY <1>4 DEF Watcher, Wake, Snapshot, Fetch, SendFetched, ScanDone, MissNotice, vars, feedVars,
       registryVars, dispatcherVars
<1> QED
  BY <1>1, <1>2, <1>3, <1>4 DEF Next, Subscription

LEMMA LocksKept ==
  ASSUME TypeOK, LocksOK, [Next]_vars PROVE LocksOK'
<1> USE DEF LocksOK, TypeOK
<1>1. CASE UNCHANGED writerVars
  BY <1>1 DEF writerVars
<1>2. ASSUME NEW w \in Writer, Write(w) PROVE LocksOK'
  <2>1. ASSUME NEW v \in Writer, v # w
        PROVE  wpc'[v] = wpc[v] /\ fresh'[v] = fresh[v] /\ pending'[v] = pending[v]
    BY <1>2, <2>1 DEF Write, Enter, Refuse, Commit, DispatchSync, Unlock, SendReport, SendEvent,
         Return
  <2>2. CASE Enter(w) \/ Refuse(w) \/ Return(w)
    BY <2>2, <2>1, WriterAssumption DEF Enter, Refuse, Return
  <2>3. CASE \E n \in 0 .. MaxBatch : \E items \in [1 .. n -> Writes[w]] : Commit(w, items)
    BY <2>3, <2>1, WriterAssumption DEF Commit
  <2>4. CASE \E panics \in SUBSET SyncSub : DispatchSync(w, panics)
    <3>1. wpc' = wpc /\ lock' = lock /\ wpc[w] = "locked"
      BY <2>4 DEF DispatchSync
    <3> QED
      BY <2>1, <3>1
  <2>5. CASE Unlock(w)
    BY <2>5, <2>1, WriterAssumption DEF Unlock
  <2>6. CASE (\E r \in panicked[w] : SendReport(w, r)) \/ SendEvent(w)
    <3>1. wpc' = wpc /\ lock' = lock /\ wpc[w] = "sending" /\ fresh' = fresh
      BY <2>6 DEF SendReport, SendEvent
    <3> QED
      BY <2>1, <3>1
  <2> QED
    BY <1>2, <2>2, <2>3, <2>4, <2>5, <2>6 DEF Write
<1>3. ASSUME NEW t \in RemoteWrites, RemoteCommit(t) PROVE UNCHANGED writerVars
  BY <1>3 DEF RemoteCommit
<1>4. ASSUME NEW s \in Sub, Subscription(s) \/ Handle(s) \/ HandlerDies(s)
      PROVE  UNCHANGED writerVars
  BY <1>4 DEF Subscription, Seed, Register, Unsubscribe, Handle, HandlerDies
<1>5. CASE Dispatcher \/ Watcher \/ MissNotice \/ UNCHANGED vars
  BY <1>1, <1>5 DEF Dispatcher, SkipSystem, Dispatch, Advance, EmitOverflow, EmitPanic, Receive,
       Watcher, Wake, Snapshot, Fetch, SendFetched, ScanDone, MissNotice, vars
<1> QED
  BY <1>1, <1>2, <1>3, <1>4, <1>5 DEF Next

LEMMA ChannelsKept ==
  ASSUME TypeOK, TypeOK', ChannelsOK, [Next]_vars PROVE ChannelsOK'
<1>1. \A e \in Event : Committed(e) => Committed(e)'
  <2> SUFFICES ASSUME NEW e \in Event, Committed(e) PROVE Committed(e)'
    OBVIOUS
  <2>1. e.topic \in Topic /\ e.version \in Nat
    BY DEF Event
  <2>2. committed[e.topic] <= committed'[e.topic] /\ committed[e.topic] \in Nat
        /\ committed'[e.topic] \in Nat
    BY <2>1, CommittedRises DEF TypeOK
  <2> QED
    BY <2>1, <2>2 DEF Committed
<1>2. /\ Items(dispatch) \subseteq Event /\ Items(fetched) \subseteq Event
      /\ \A w \in Writer : Items(fresh[w]) \subseteq Event /\ Items(pending[w]) \subseteq Event
  BY ItemsAre DEF TypeOK
\* What a step puts on the channels was on another of them, or is committed.
<1> DEFINE Moved ==
      /\ Items(dispatch') \subseteq Items(dispatch) \cup Items(fetched)
                                      \cup UNION {Items(pending[w]) : w \in Writer}
      /\ \A e \in Items(fetched') : e \in Items(fetched) \/ Committed(e)'
      /\ \A w \in Writer :
           /\ \A e \in Items(fresh'[w]) : e \in Items(fresh[w]) \/ Committed(e)'
           /\ Items(pending'[w]) \subseteq Items(pending[w]) \cup Items(fresh[w])
<1>3. ASSUME Moved PROVE ChannelsOK'
  <2>1. /\ \A e \in Items(dispatch) \cup Items(fetched) : Committed(e)'
        /\ \A w \in Writer : \A e \in Items(fresh[w]) \cup Items(pending[w]) : Committed(e)'
    BY <1>1, <1>2 DEF ChannelsOK
  <2>2. \A e \in Items(dispatch') : Committed(e)'
    BY <1>3, <2>1
  <2>3. \A e \in Items(fetched') : Committed(e)'
    BY <1>3, <2>1
  <2>4. \A w \in Writer : \A e \in Items(fresh'[w]) \cup Items(pending'[w]) : Committed(e)'
    BY <1>3, <2>1
  <2> QED
    BY <2>2, <2>3, <2>4 DEF ChannelsOK
<1>4. ASSUME UNCHANGED <<dispatch, fetched, fresh, pending>> PROVE Moved
  BY <1>4
<1> HIDE DEF Moved
<1>5. ASSUME NEW w \in Writer, Write(w) PROVE Moved
  <2>1. CASE Enter(w) \/ Refuse(w) \/ Unlock(w) \/ Return(w) \/ \E r \in panicked[w] : SendReport(w, r)
    BY <1>4, <2>1 DEF Enter, Refuse, Unlock, Return, SendReport, scanVars
  <2>2. ASSUME NEW n \in 0 .. MaxBatch, NEW items \in [1 .. n -> Writes[w]], Commit(w, items)
        PROVE  Moved
    <3>1. n \in Nat /\ items \in [1 .. n -> Topic]
      BY WriterAssumption, BoundAssumption
    <3>2. committed' = [t \in Topic |-> committed[t] + Count(items, t)]
          /\ dispatch' = dispatch /\ pending' = pending /\ fetched' = fetched
      BY <2>2 DEF Commit, scanVars
    <3>3. \A e \in Items(NewEvents(items)) : Committed(e)'
      <4>1. Len(NewEvents(items)) = n
        BY <3>1, NewEventsAre DEF TypeOK
      <4> SUFFICES ASSUME NEW e \in Items(NewEvents(items)) PROVE Committed(e)'
        OBVIOUS
      <4>2. PICK i \in 1 .. n : e = NewEvents(items)[i]
        BY <4>1 DEF Items
      <4>3. e.topic = items[i] /\ e.version < committed[items[i]] + Count(items, items[i])
        BY <3>1, <4>2, NewEventsAre DEF TypeOK
      <4> QED
        BY <3>1, <3>2, <4>3 DEF Committed
    <3>4. \A v \in Writer : fresh'[v] = fresh[v] \/ fresh'[v] = << >> \/ fresh'[v] = NewEvents(items)
      BY <2>2 DEF Commit, TypeOK
    <3> QED
      BY <3>2, <3>3, <3>4 DEF Items, Moved
  <2>3. ASSUME NEW panics \in SUBSET SyncSub, DispatchSync(w, panics) PROVE Moved
    <3> DEFINE e == Head(fresh[w])
    <3>1. fresh[w] \in Seq(Event) /\ fresh[w] # << >> /\ pending[w] \in Seq(Event)
      BY <2>3 DEF DispatchSync, TypeOK
    <3>2. e \in Event /\ e \in Items(fresh[w]) /\ Items(Tail(fresh[w])) \subseteq Items(fresh[w])
          /\ Items(Append(pending[w], e)) = Items(pending[w]) \cup {e}
      BY <3>1, HeadIs, ItemsAre
    <3>3. \A v \in Writer : /\ fresh'[v] = IF v = w THEN Tail(fresh[w]) ELSE fresh[v]
                            /\ pending'[v] = pending[v] \/ (v = w /\ pending'[v] = Append(pending[w], e))
      BY <2>3 DEF DispatchSync, TypeOK
    <3>4. dispatch' = dispatch /\ fetched' = fetched
      BY <2>3 DEF DispatchSync, scanVars
    <3> QED
      BY <3>2, <3>3, <3>4 DEF Moved
  <2>4. CASE SendEvent(w)
    <3> DEFINE e == Head(pending[w])
    <3>1. pending[w] \in Seq(Event) /\ pending[w] # << >>
      BY <2>4 DEF SendEvent, TypeOK
    <3>2. e \in Event /\ e \in Items(pending[w]) /\ Items(Tail(pending[w])) \subseteq Items(pending[w])
      BY <3>1, HeadIs, ItemsAre
    <3>3. Items(dispatch') = Items(dispatch) \cup {e}
      BY <2>4, <3>2, ItemsAre DEF SendEvent, TypeOK
    <3>4. \A v \in Writer : pending'[v] = IF v = w THEN Tail(pending[w]) ELSE pending[v]
      BY <2>4 DEF SendEvent, TypeOK
    <3>5. fresh' = fresh /\ fetched' = fetched
      BY <2>4 DEF SendEvent, scanVars
    <3> QED
      BY <3>2, <3>3, <3>4, <3>5 DEF Moved
  <2> QED
    BY <1>5, <2>1, <2>2, <2>3, <2>4 DEF Write
<1>6. ASSUME NEW t \in RemoteWrites, RemoteCommit(t) PROVE Moved
  BY <1>4, <1>6 DEF RemoteCommit, writerVars, scanVars
<1>7. ASSUME NEW s \in Sub, Subscription(s) \/ Handle(s) \/ HandlerDies(s) PROVE Moved
  BY <1>4, <1>7 DEF Subscription, Seed, Register, Unsubscribe, Handle, HandlerDies, writerVars, scanVars
<1>8. ASSUME Dispatcher PROVE Moved
  <2>1. CASE SkipSystem \/ Dispatch
    <3>1. dispatch # << >> /\ dispatch' = Tail(dispatch) /\ UNCHANGED <<fetched, fresh, pending>>
      BY <2>1 DEF SkipSystem, Dispatch, writerVars, scanVars
    <3>2. Items(dispatch') \subseteq Items(dispatch)
      BY <3>1, ItemsAre DEF TypeOK
    <3> QED
      BY <3>1, <3>2 DEF Moved
  <2>2. CASE ~ SkipSystem /\ ~ Dispatch
    BY <1>4, <1>8, <2>2 DEF Dispatcher, Advance, EmitOverflow, EmitPanic, Receive, writerVars, scanVars
  <2> QED
    BY <2>1, <2>2
<1>9. ASSUME Watcher PROVE Moved
  <2>1. CASE Wake \/ Snapshot \/ ScanDone
    BY <1>4, <2>1 DEF Wake, Snapshot, ScanDone, writerVars
  <2>2. ASSUME NEW t \in DOMAIN group, Fetch(t) PROVE Moved
    <3>1. t \in Topic /\ group[t] \in Nat \cup {-1}
      BY DEF TypeOK
    <3>2. fetched' = EventsAfter(t, group[t]) /\ UNCHANGED <<committed, dispatch, fresh, pending>>
      BY <2>2 DEF Fetch, writerVars
    <3>3. \A i \in 1 .. Len(fetched') : fetched'[i].version < committed'[fetched'[i].topic]
      <4> SUFFICES ASSUME NEW i \in 1 .. Len(fetched')
                   PROVE  fetched'[i].version < committed'[fetched'[i].topic]
        OBVIOUS
      <4>1. fetched'[i] = [topic |-> t, version |-> group[t] + i] /\ group[t] + i < committed[t]
        BY <3>1, <3>2, EventsAfterAre
      <4> QED
        BY <3>2, <4>1
    <3> QED
      BY <3>2, <3>3 DEF Items, Committed, Moved
  <2>3. CASE SendFetched
    <3>1. fetched # << >> /\ fetched' = Tail(fetched) /\ dispatch' = Append(dispatch, Head(fetched))
          /\ UNCHANGED <<fresh, pending>>
      BY <2>3 DEF SendFetched, writerVars
    <3>2. Head(fetched) \in Event /\ Head(fetched) \in Items(fetched)
          /\ Items(fetched') \subseteq Items(fetched)
      BY <3>1, HeadIs, ItemsAre DEF TypeOK
    <3>3. Items(dispatch') = Items(dispatch) \cup {Head(fetched)}
      BY <3>1, <3>2, ItemsAre DEF TypeOK
    <3> QED
      BY <3>1, <3>2, <3>3 DEF Moved
  <2> QED
    BY <1>9, <2>1, <2>2, <2>3 DEF Watcher
<1>10. ASSUME MissNotice \/ UNCHANGED vars PROVE Moved
  BY <1>4, <1>10 DEF MissNotice, vars, writerVars, scanVars
<1> QED
  BY <1>3, <1>5, <1>6, <1>7, <1>8, <1>9, <1>10 DEF Next

LEMMA DispatcherKept ==
  ASSUME TypeOK, DispatcherOK, [Next]_vars PROVE DispatcherOK'
<1> USE DEF DispatcherOK
<1>1. CASE UNCHANGED <<dpc, event, delivered>>
  BY <1>1
<1>2. CASE Dispatch
  <2> DEFINE e == Head(dispatch)
  <2>1. dpc' = "advance" /\ event' = e /\ delivered' \subseteq Wanting(e)
    BY <1>2 DEF Dispatch
  <2>2. \A s \in Wanting(e) : s \in PostCommitSub /\ e.topic \in Pattern[s]
    BY DEF Wanting, Matching, PostCommitSub
  <2> QED
    BY <2>1, <2>2
<1>3. CASE Advance \/ Receive
  BY <1>3 DEF Advance, Receive
<1>4. CASE UNCHANGED feedVars
  BY <1>1, <1>4 DEF feedVars
<1>5. ASSUME NEW w \in Writer, NEW panics, DispatchSync(w, panics) PROVE DispatcherOK'
  BY <1>1, <1>5 DEF DispatchSync, dispatcherVars
<1>6. ASSUME NEW s, Seed(s) \/ Register(s) \/ Unsubscribe(s) \/ Handle(s) \/ HandlerDies(s)
      PROVE  DispatcherOK'
  BY <1>1, <1>6 DEF Seed, Register, Unsubscribe, Handle, HandlerDies, dispatcherVars
<1> QED
  BY <1>2, <1>3, <1>4, <1>5, <1>6, Steps

LEMMA SeedKept ==
  ASSUME TypeOK, TypeOK', SeedOK, [Next]_vars PROVE SeedOK'
<1> SUFFICES ASSUME NEW s \in Sub, NEW t \in Topic PROVE seed'[s][t] < committed'[t]
  BY DEF SeedOK
<1>1. seed[s][t] < committed[t] /\ committed[t] <= committed'[t]
  BY CommittedRises DEF SeedOK
<1>2. /\ seed[s][t] \in Nat \cup {-1} /\ seed'[s][t] \in Nat \cup {-1}
      /\ committed[t] \in Nat /\ committed'[t] \in Nat
  BY SubTypes
<1>3. CASE seed' = seed
  BY <1>1, <1>2, <1>3
<1>4. ASSUME NEW x \in Sub, Seed(x) PROVE seed'[s][t] < committed'[t]
  <2>1. seed'[s][t] \in {seed[s][t], committed[t] - 1, -1} /\ committed' = committed
    BY <1>4 DEF Seed, TypeOK
  <2> QED
    BY <1>1, <1>2, <2>1
<1>5. ASSUME NEW w \in Writer, NEW panics, DispatchSync(w, panics) PROVE seed' = seed
  BY <1>5 DEF DispatchSync
<1>6. ASSUME NEW x, Register(x) \/ Unsubscribe(x) \/ Handle(x) \/ HandlerDies(x)
      PROVE  seed' = seed
  BY <1>6 DEF Register, Unsubscribe, Handle, HandlerDies
<1>7. CASE Dispatch \/ Advance \/ Receive \/ UNCHANGED feedVars
  BY <1>3, <1>7 DEF Dispatch, Advance, Receive, feedVars
<1> QED
  BY <1>3, <1>4, <1>5, <1>6, <1>7, Steps

LEMMA BeforeKept ==
  ASSUME TypeOK, DispatcherOK, BeforeOK, [Next]_vars PROVE BeforeOK'
<1> USE DEF BeforeOK
<1>1. CASE UNCHANGED feedVars
  BY <1>1 DEF feedVars, registryVars
<1>2. ASSUME NEW w \in Writer, NEW panics \in SUBSET SyncSub, DispatchSync(w, panics)
      PROVE  BeforeOK'
  <2>1. UNCHANGED <<status, queue, delivered>>
    BY <1>2 DEF DispatchSync, dispatcherVars
  <2>2. \A s \in Sub : status[s] # "live" => received'[s] = received[s]
    BY <1>2 DEF DispatchSync, Matching, Live
  <2> QED
    BY <2>1, <2>2
<1>3. ASSUME NEW x \in Sub, Seed(x) \/ Register(x) \/ Unsubscribe(x) PROVE BeforeOK'
  <2>1. UNCHANGED <<queue, delivered, received>>
    BY <1>3 DEF Seed, Register, Unsubscribe, dispatcherVars
  <2>2. \A s \in Sub : status'[s] \in {"absent", "seeding"} => status[s] \in {"absent", "seeding"}
    BY <1>3 DEF Seed, Register, Unsubscribe, TypeOK
  <2> QED
    BY <2>1, <2>2
<1>4. ASSUME NEW x \in Sub, Handle(x) \/ HandlerDies(x) PROVE BeforeOK'
  <2>1. queue[x] # << >> /\ UNCHANGED <<status, delivered>>
    BY <1>4 DEF Handle, HandlerDies, registryVars, dispatcherVars
  <2>2. x \notin SyncSub /\ status[x] \notin {"absent", "seeding"}
    BY <2>1
  <2>3. \A s \in Sub : s # x => queue'[s] = queue[s] /\ received'[s] = received[s]
    BY <1>4 DEF Handle, HandlerDies, TypeOK
  <2> QED
    BY <2>1, <2>2, <2>3
<1>5. CASE Dispatch
  <2>1. status' = status /\ received' = received
    BY <1>5 DEF Dispatch
  <2>2. delivered' \subseteq Live \cap PostCommitSub
    BY <1>5 DEF Dispatch, Wanting, Matching
  <2>3. \A s \in Sub : s \notin delivered' => queue'[s] = queue[s]
    BY <1>5 DEF Dispatch
  <2> QED
    BY <2>1, <2>2, <2>3 DEF Live, PostCommitSub
<1>6. CASE Advance \/ Receive
  BY <1>6 DEF Advance, Receive, registryVars
<1> QED
  BY <1>1, <1>2, <1>3, <1>4, <1>5, <1>6, Steps

\* A subscription of which a step changes nothing but that more is committed.
LEMMA SubKept ==
  ASSUME TypeOK, TypeOK', NEW s \in Sub, NEW t \in Topic, SubOK(s, t),
         committed[t] <= committed'[t], Pushed(s, t)' = Pushed(s, t),
         OrderedOf(received'[s][t], queue'[s], t), seed'[s][t] = seed[s][t],
         status'[s] = "live" => /\ status[s] = "live"
                                /\ alive'[s] => alive[s]
                                /\ Position(s, t)' = Position(s, t)
                                /\ s \in delivered' /\ event'.topic = t
                                     => event'.version > cursor'[s][t]
  PROVE  SubOK(s, t)'
<1>1. /\ committed[t] \in Nat /\ committed'[t] \in Nat
      /\ Pushed(s, t) \subseteq Nat
  BY SubTypes
<1>2. \A v \in Pushed(s, t)' : v < committed'[t] /\ (s \in PostCommitSub => v > seed'[s][t])
  BY <1>1 DEF SubOK
<1>3. ASSUME s \in PostCommitSub, status'[s] = "live"
      PROVE  /\ \A v \in Pushed(s, t)' \cup {seed'[s][t]} : v <= Position(s, t)'
             /\ alive'[s] => Position(s, t)' \in Pushed(s, t)' \cup {seed'[s][t]}
             /\ s \in delivered' /\ event'.topic = t => event'.version > cursor'[s][t]
  BY <1>3 DEF SubOK
<1> QED
  BY <1>2, <1>3 DEF SubOK

\* Subscribing and unsubscribing.
LEMMA RegistrySubKept ==
  ASSUME TypeOK, TypeOK', SeedOK, BeforeOK, SubsOK, NEW x \in Sub,
         Seed(x) \/ Register(x) \/ Unsubscribe(x)
  PROVE  SubsOK'
<1> SUFFICES ASSUME NEW s \in Sub, NEW t \in Topic PROVE SubOK(s, t)'
  BY DEF SubsOK
<1>1. /\ UNCHANGED <<committed, queue, received, event, delivered, alive>>
      /\ s # x => status'[s] = status[s] /\ seed'[s] = seed[s] /\ cursor'[s] = cursor[s]
  BY DEF Seed, Register, Unsubscribe, dispatcherVars, TypeOK
<1>2. SubOK(s, t) /\ Pushed(s, t)' = Pushed(s, t) /\ OrderedOf(received'[s][t], queue'[s], t)
  BY <1>1, PushedIs DEF SubsOK, SubOK
<1>3. CASE s # x
  <2>1. Position(s, t)' = Position(s, t) /\ committed[t] <= committed'[t]
    BY <1>1, <1>3, SubTypes DEF Position
  <2>2. status[s] = "live" /\ s \in PostCommitSub /\ s \in delivered /\ event.topic = t
          => event.version > cursor[s][t]
    BY <1>2 DEF SubOK
  <2>3. CASE s \in PostCommitSub
    BY <1>1, <1>2, <1>3, <2>1, <2>2, <2>3, SubKept
  <2>4. CASE s \notin PostCommitSub
    BY <1>1, <1>2, <1>3, <2>4 DEF SubOK
  <2> QED
    BY <2>3, <2>4
<1>4. CASE s = x /\ (Seed(x) \/ Register(x))
  <2>1. status[s] \in {"absent", "seeding"}
    BY <1>4 DEF Seed, Register
  <2>2. queue[s] = << >> /\ s \notin delivered /\ received[s][t] = << >>
    BY <2>1 DEF BeforeOK
  <2>3. Pushed(s, t) = {}
    BY <2>2 DEF Pushed, Queued
  <2>4. status'[s] = "live" => cursor'[s][t] = seed'[s][t]
    BY <1>4 DEF Seed, Register, TypeOK
  <2>5. Position(s, t)' = cursor'[s][t]
    BY <1>1, <2>2 DEF Position
  <2> QED
    BY <1>1, <1>2, <2>2, <2>3, <2>4, <2>5, SubTypes DEF SubOK
<1>5. CASE s = x /\ Unsubscribe(x)
  <2>1. status'[s] = "closed" /\ seed' = seed
    BY <1>5 DEF Unsubscribe, TypeOK
  <2> QED
    BY <1>1, <1>2, <2>1 DEF SubOK
<1> QED
  BY <1>3, <1>4, <1>5

\* A handler thread takes an event, or dies.
LEMMA HandlerSubKept ==
  ASSUME TypeOK, TypeOK', SubsOK, NEW x \in Sub, Handle(x) \/ HandlerDies(x)
  PROVE  /\ SubsOK'
         /\ \A s \in Sub, t \in Topic :
              /\ Pushed(s, t)' \subseteq Pushed(s, t)
              /\ Pushed(s, t)' = Pushed(s, t) \/ (queue'[s] = << >> /\ received'[s] = received[s])
<1> SUFFICES ASSUME NEW s \in Sub, NEW t \in Topic
             PROVE  /\ SubOK(s, t)' /\ Pushed(s, t)' \subseteq Pushed(s, t)
                    /\ Pushed(s, t)' = Pushed(s, t) \/ (queue'[s] = << >> /\ received'[s] = received[s])
  BY DEF SubsOK
<1>1. UNCHANGED <<committed, status, cursor, event, delivered, seed>>
  BY DEF Handle, HandlerDies, registryVars, dispatcherVars
<1>2. SubOK(s, t) /\ Position(s, t)' = Position(s, t) /\ committed[t] <= committed'[t]
  BY <1>1, SubTypes DEF SubsOK, Position
<1>3. ASSUME Pushed(s, t)' = Pushed(s, t), OrderedOf(received'[s][t], queue'[s], t),
             alive'[s] => alive[s]
      PROVE  SubOK(s, t)'
  <2>1. CASE s \in PostCommitSub
    <3>1. status[s] = "live" /\ s \in delivered /\ event.topic = t => event.version > cursor[s][t]
      BY <1>2, <2>1 DEF SubOK
    <3> QED
      BY <1>1, <1>2, <1>3, <3>1, SubKept
  <2>2. CASE s \notin PostCommitSub
    BY <1>1, <1>2, <1>3, <2>2 DEF SubOK
  <2> QED
    BY <2>1, <2>2
<1>4. CASE s # x
  <2>1. received'[s] = received[s] /\ queue'[s] = queue[s] /\ alive'[s] = alive[s]
    BY <1>4 DEF Handle, HandlerDies, TypeOK
  <2> QED
    BY <1>2, <1>3, <2>1, PushedIs DEF SubOK
<1>5. CASE s = x /\ Handle(x)
  <2> DEFINE q == queue[s]
             e == Head(q)
             r == received[s][t]
  <2>1. q \in Seq(Event) /\ q # << >> /\ r \in Seq(Nat) /\ OrderedOf(r, q, t)
    BY <1>2, <1>5, SubTypes DEF Handle, SubOK
  <2>2. e.topic \in Topic
    <3>1. e \in Event
      BY <2>1, HeadIs
    <3> QED
      BY <3>1 DEF Event
  <2>3. /\ queue'[s] = Tail(q) /\ alive' = alive
        /\ received'[s][t] = IF t = e.topic THEN Append(r, e.version) ELSE r
    BY <1>5, <2>2 DEF Handle, TypeOK
  <2>4. OrderedOf(received'[s][t], queue'[s], t)
        /\ PushedOf(received'[s][t], queue'[s], t) = PushedOf(r, q, t)
    BY <2>1, <2>3, HandleSeq
  <2>5. Pushed(s, t)' = Pushed(s, t)
    BY <2>4, PushedIs
  <2>6. SubOK(s, t)'
    BY <1>3, <2>3, <2>4, <2>5
  <2> HIDE DEF q, e, r
  <2> QED
    BY <2>5, <2>6
<1>6. CASE s = x /\ HandlerDies(x)
  <2>1. queue'[s] = << >> /\ received' = received /\ ~ alive'[s]
    BY <1>6 DEF HandlerDies, TypeOK
  <2>2. OrderedOf(received'[s][t], queue'[s], t) /\ Pushed(s, t)' \subseteq Pushed(s, t)
    BY <1>2, <2>1, DropSeq, PushedIs DEF SubOK
  <2> QED
    BY <1>1, <1>2, <2>1, <2>2 DEF SubOK
<1> QED
  BY <1>4, <1>5, <1>6

\* The event joins the queues of those whose cursors it is past.
LEMMA DispatchSubKept ==
  ASSUME TypeOK, TypeOK', ChannelsOK, DispatcherOK, SubsOK, Dispatch
  PROVE  /\ SubsOK'
         /\ \A s \in Sub : degraded[s] => \A t \in Topic : Pushed(s, t)' = Pushed(s, t)
         /\ \A s \in SyncSub : \A t \in Topic : Pushed(s, t)' = Pushed(s, t)
         /\ \A s \in overflowed' : Truthful(ReportOf(s, event))'
<1> DEFINE e == Head(dispatch)
<1>1. e \in Event /\ e.topic \in Topic /\ e.version \in Nat /\ e.version < committed[e.topic]
  <2>1. e \in Items(dispatch) /\ e \in Event
    BY ItemsAre, HeadIs DEF Dispatch, TypeOK
  <2> QED
    BY <2>1 DEF ChannelsOK, Committed, Event
<1>2. /\ delivered = {} /\ event' = e
      /\ UNCHANGED <<committed, status, cursor, alive, seed, received>>
      /\ \A s \in delivered' : s \in Sub /\ queue'[s] = Append(queue[s], e)
      /\ \A s \in Sub \ delivered' : queue'[s] = queue[s]
      /\ delivered' \cap overflowed' = {}
      /\ \A s \in delivered' \cup overflowed' :
           /\ s \in Sub \cap PostCommitSub /\ status[s] = "live" /\ ~ degraded[s] /\ alive[s]
           /\ e.version > cursor[s][e.topic]
      /\ \A s \in overflowed' : degraded'[s]
  BY DEF Dispatch, DispatcherOK, Wanting, Matching, Live, TypeOK
<1>3. ASSUME NEW s \in Sub, NEW t \in Topic
      PROVE  /\ SubOK(s, t)
             /\ Position(s, t) = cursor[s][t]
             /\ s \in delivered' \cup overflowed'
                  => \A v \in Pushed(s, e.topic) : v < e.version /\ e.version > seed[s][e.topic]
  <2>1. Position(s, t) = cursor[s][t] /\ Position(s, e.topic) = cursor[s][e.topic]
    BY <1>2 DEF Position
  <2>2. SubOK(s, t) /\ SubOK(s, e.topic)
    BY <1>1 DEF SubsOK
  <2>3. ASSUME s \in delivered' \cup overflowed', NEW v \in Pushed(s, e.topic) \cup {seed[s][e.topic]}
        PROVE  v < e.version
    <3>1. v <= cursor[s][e.topic] /\ cursor[s][e.topic] < e.version
      BY <1>2, <2>1, <2>2, <2>3 DEF SubOK
    <3>2. v \in Int /\ cursor[s][e.topic] \in Int
      BY <1>1, SubTypes
    <3> QED
      BY <1>1, <3>1, <3>2
  <2> QED
    BY <2>1, <2>2, <2>3
<1>4. ASSUME NEW s \in delivered', NEW t \in Topic
      PROVE  /\ OrderedOf(received'[s][t], queue'[s], t)
             /\ Pushed(s, t)' = Pushed(s, t) \cup (IF t = e.topic THEN {e.version} ELSE {})
  <2>1. s \in Sub /\ received' = received /\ queue'[s] = Append(queue[s], e)
    BY <1>2
  <2>2. OrderedOf(received[s][t], queue[s], t)
        /\ Pushed(s, t) = PushedOf(received[s][t], queue[s], t)
    BY <1>3, <2>1, PushedIs DEF SubOK
  <2>3. t = e.topic => \A v \in PushedOf(received[s][t], queue[s], t) : v < e.version
    BY <1>3, <2>1, <2>2
  <2>4. received[s][t] \in Seq(Nat) /\ queue[s] \in Seq(Event)
    BY <2>1, SubTypes
  <2> HIDE DEF e
  <2>5. /\ OrderedOf(received[s][t], Append(queue[s], e), t)
        /\ PushedOf(received[s][t], Append(queue[s], e), t)
              = PushedOf(received[s][t], queue[s], t) \cup (IF t = e.topic THEN {e.version} ELSE {})
    BY <1>1, <2>2, <2>3, <2>4, PushSeq
  <2> QED
    BY <2>1, <2>2, <2>5, PushedIs
<1>5. ASSUME NEW s \in Sub \ delivered', NEW t \in Topic
      PROVE  received'[s][t] = received[s][t] /\ queue'[s] = queue[s] /\ Pushed(s, t)' = Pushed(s, t)
  BY <1>2, PushedIs
<1> HIDE DEF e
<1>6. ASSUME NEW s \in Sub, NEW t \in Topic PROVE SubOK(s, t)'
  <2>1. CASE s \notin delivered'
    <3>1. /\ OrderedOf(received'[s][t], queue'[s], t) /\ Pushed(s, t)' = Pushed(s, t)
          /\ Position(s, t)' = Position(s, t) /\ committed[t] <= committed'[t]
      BY <1>2, <1>3, <1>5, <2>1, SubTypes DEF SubOK, Position
    <3> QED
      BY <1>2, <1>3, <2>1, <3>1, SubKept
  <2>2. CASE s \in delivered' /\ t # e.topic
    <3>1. OrderedOf(received'[s][t], queue'[s], t) /\ Pushed(s, t)' = Pushed(s, t)
      BY <1>4, <2>2
    <3>2. Position(s, t)' = Position(s, t) /\ event'.topic # t
      BY <1>2, <1>3, <2>2 DEF Position
    <3>3. committed[t] <= committed'[t]
      BY <1>2, SubTypes
    <3> QED
      BY <1>2, <1>3, <2>2, <3>1, <3>2, <3>3, SubKept
  <2>3. CASE s \in delivered' /\ t = e.topic
    <3>1. OrderedOf(received'[s][t], queue'[s], t) /\ Pushed(s, t)' = Pushed(s, t) \cup {e.version}
      BY <1>4, <2>3
    <3>2. /\ Position(s, t)' = e.version
          /\ \A v \in Pushed(s, t) : v < e.version /\ v < committed[t] /\ v > seed[s][t]
          /\ seed[s][t] < e.version
          /\ event'.version > cursor'[s][t]
      BY <1>2, <1>3, <2>3 DEF Position, SubOK
    <3>3. Pushed(s, t) \subseteq Nat /\ seed[s][t] \in Nat \cup {-1}
      BY SubTypes
    <3>4. \A v \in Pushed(s, t) \cup {e.version} : v < committed'[t] /\ v > seed'[s][t]
      BY <1>1, <1>2, <2>3, <3>2
    <3>5. \A v \in Pushed(s, t) \cup {e.version, seed[s][t]} : v <= e.version
      BY <1>1, <3>2, <3>3
    <3> QED
      BY <1>2, <3>1, <3>2, <3>4, <3>5 DEF SubOK
  <2> QED
    BY <2>1, <2>2, <2>3
<1>7. ASSUME NEW s \in Sub, degraded[s] \/ s \in SyncSub, NEW t \in Topic
      PROVE  Pushed(s, t)' = Pushed(s, t)
  <2>1. s \notin delivered'
    BY <1>2, <1>7 DEF PostCommitSub
  <2> QED
    BY <1>5, <2>1
<1>8. ASSUME NEW s \in overflowed' PROVE Truthful(ReportOf(s, event))'
  <2>1. s \in Sub \ delivered' /\ degraded'[s] /\ event' = e
    BY <1>2
  <2>2. ASSUME NEW t \in Topic, t = e.topic PROVE e.version \notin Pushed(s, t)'
    <3>1. Pushed(s, t)' = Pushed(s, t)
      BY <1>5, <2>1
    <3>2. \A v \in Pushed(s, t) : v < e.version
      BY <1>3, <2>1, <2>2
    <3> QED
      BY <1>1, <3>1, <3>2
  <2>3. event'.version \notin Pushed(s, event.topic)'
    BY <1>1, <2>1, <2>2 DEF Pushed, Queued
  <2> QED
    BY <2>1, <2>3 DEF Truthful, ReportOf
<1> QED
  BY <1>6, <1>7, <1>8, SubAssumption DEF SubsOK

\* The second pass of dispatch_post_commit leaves positions as they are.
LEMMA AdvancePosition ==
  ASSUME TypeOK, TypeOK', DispatcherOK, SubsOK, Advance \/ Receive,
         NEW s \in Sub, status[s] = "live", NEW t \in Topic
  PROVE  Position(s, t)' = Position(s, t)
<1>1. Position(s, t)' = cursor'[s][t]
  BY DEF Position, Advance, Receive, DispatcherOK
<1>2. CASE Receive
  BY <1>1, <1>2 DEF Receive, DispatcherOK, Position, registryVars
<1>3. CASE Advance
  <2>1. s \in Advancing <=> s \in delivered
    BY DEF Advancing, Live
  <2>2. s \in delivered /\ event.topic = t => event.version > cursor[s][t]
    BY DEF SubsOK, SubOK, DispatcherOK
  <2>3. event.topic \in Topic
    BY DEF TypeOK, Event
  <2>4. cursor'[s] = IF s \in Advancing /\ event.version > cursor[s][event.topic]
                     THEN [cursor[s] EXCEPT ![event.topic] = event.version] ELSE cursor[s]
    BY <1>3 DEF Advance
  <2>5. cursor[s] \in [Topic -> Nat \cup {-1}]
    BY DEF TypeOK
  <2>6. cursor'[s][t] = Position(s, t)
    <3>1. CASE s \in delivered /\ event.topic = t
      BY <2>1, <2>2, <2>3, <2>4, <2>5, <3>1 DEF Position
    <3>2. CASE ~ (s \in delivered /\ event.topic = t)
      BY <2>1, <2>3, <2>4, <2>5, <3>2 DEF Position
    <3> QED
      BY <3>1, <3>2
  <2> QED
    BY <1>1, <2>6
<1> QED
  BY <1>2, <1>3

LEMMA AdvanceSubKept ==
  ASSUME TypeOK, TypeOK', DispatcherOK, SubsOK, Advance \/ Receive
  PROVE  SubsOK'
<1> SUFFICES ASSUME NEW s \in Sub, NEW t \in Topic PROVE SubOK(s, t)'
  BY DEF SubsOK
<1>1. UNCHANGED <<committed, status, alive, seed, received, queue>> /\ delivered' = {}
  BY DEF Advance, Receive, registryVars, DispatcherOK
<1>2. SubOK(s, t) /\ Pushed(s, t)' = Pushed(s, t) /\ OrderedOf(received'[s][t], queue'[s], t)
  BY <1>1, PushedIs DEF SubsOK, SubOK
<1>3. CASE s \in PostCommitSub /\ status[s] = "live"
  <2>1. Position(s, t)' = Position(s, t) /\ committed[t] <= committed'[t]
    BY <1>1, <1>3, AdvancePosition, SubTypes
  <2> QED
    BY <1>1, <1>2, <1>3, <2>1, SubKept
<1>4. CASE ~ (s \in PostCommitSub /\ status[s] = "live")
  BY <1>1, <1>2, <1>4 DEF SubOK
<1> QED
  BY <1>3, <1>4

\* The Synchronous handlers see the next event of the writer.
LEMMA SyncSubKept ==
  ASSUME TypeOK, TypeOK', ChannelsOK, LocksOK, DispatcherOK, BeforeOK, SubsOK, FreshOK,
         NEW w \in Writer, NEW panics \in SUBSET SyncSub, DispatchSync(w, panics)
  PROVE  /\ SubsOK'
         /\ FreshOK'
         /\ \A s \in Sub : degraded[s] =>
              degraded'[s] /\ \A t \in Topic : Pushed(s, t)' = Pushed(s, t)
         /\ \A r \in panicked'[w] : r \in panicked[w] \/ Truthful(r)'
<1> DEFINE f == fresh[w]
           e == Head(f)
           seen == {s \in Sub : received'[s] # received[s]}
<1>1. /\ f \in Seq(Event) /\ f # << >> /\ Len(f) \in Nat /\ Len(f) >= 1 /\ e = f[1] /\ e \in Event
      /\ e.topic \in Topic /\ e.version \in Nat /\ e.version < committed[e.topic]
      /\ Len(Tail(f)) = Len(f) - 1 /\ \A i \in 1 .. (Len(f) - 1) : Tail(f)[i] = f[i + 1]
  <2>1. f \in Seq(Event) /\ f # << >>
    BY DEF DispatchSync, TypeOK
  <2>2. e \in Event /\ e \in Items(f)
    BY <2>1, HeadIs, ItemsAre
  <2>3. e.topic \in Topic /\ e.version \in Nat
    BY <2>2 DEF Event
  <2>4. e.version < committed[e.topic]
    BY <2>2 DEF ChannelsOK, Committed
  <2> QED
    BY <2>1, <2>2, <2>3, <2>4, HeadIs
<1>2. /\ UNCHANGED <<committed, status, cursor, queue, alive, event, delivered, seed>>
      /\ fresh' = [fresh EXCEPT ![w] = Tail(f)]
      /\ \A s \in Sub : received'[s] = received[s]
                          \/ /\ received'[s] = [received[s] EXCEPT ![e.topic] = Append(@, e.version)]
                             /\ s \in SyncSub \ panics /\ ~ degraded[s]
      /\ \A s \in panics : s \in Sub
      /\ \A s \in panics : received'[s] = received[s] /\ degraded'[s]
      /\ \A s \in Sub : degraded[s] => degraded'[s]
      /\ panicked'[w] = panicked[w] \cup {ReportOf(s, e) : s \in panics}
  BY DEF DispatchSync, dispatcherVars, TypeOK, Matching, Live
<1>3. \A s \in SyncSub : \A v \in Pushed(s, e.topic) : v < e.version
  <2>1. 1 \in 1 .. Len(f)
    BY <1>1
  <2>2. \A s \in SyncSub : \A v \in Pushed(s, f[1].topic) : v < f[1].version
    BY <2>1 DEF FreshOK
  <2> QED
    BY <1>1, <2>2
<1> HIDE DEF e, f
<1>4. ASSUME NEW s \in Sub, NEW t \in Topic
      PROVE  \/ received'[s][t] = received[s][t] /\ Pushed(s, t)' = Pushed(s, t)
             \/ /\ s \in SyncSub \ panics /\ ~ degraded[s] /\ t = e.topic
                /\ Pushed(s, t)' = Pushed(s, t) \cup {e.version}
                /\ OrderedOf(received'[s][t], queue'[s], t)
  <2>1. CASE received'[s][t] = received[s][t]
    BY <1>2, <2>1, PushedIs
  <2>2. CASE received'[s][t] # received[s][t]
    <3>1. received'[s] = [received[s] EXCEPT ![e.topic] = Append(@, e.version)]
          /\ s \in SyncSub \ panics /\ ~ degraded[s]
      BY <1>2, <2>2
    <3>2. t = e.topic /\ received'[s][t] = Append(received[s][t], e.version)
      BY <2>2, <3>1 DEF TypeOK
    <3>3. queue[s] = << >> /\ queue'[s] = << >>
      BY <1>2, <3>1 DEF BeforeOK
    <3>4. OrderedOf(received[s][t], << >>, t) /\ PushedOf(received[s][t], << >>, t) = Pushed(s, t)
      BY <3>3, PushedIs DEF SubsOK, SubOK
    <3>5. \A v \in PushedOf(received[s][t], << >>, t) : v < e.version
      BY <1>3, <3>1, <3>2, <3>4
    <3>6. received[s][t] \in Seq(Nat)
      BY SubTypes
    <3>7. /\ OrderedOf(received'[s][t], << >>, t)
          /\ PushedOf(received'[s][t], << >>, t) = PushedOf(received[s][t], << >>, t) \cup {e.version}
      BY <1>1, <3>2, <3>4, <3>5, <3>6, ReceiveSeq
    <3>8. Pushed(s, t)' = Pushed(s, t) \cup {e.version}
      BY <3>3, <3>4, <3>7, PushedIs
    <3> QED
      BY <3>1, <3>2, <3>3, <3>7, <3>8
  <2> QED
    BY <2>1, <2>2
<1>5. SubsOK'
  <2> SUFFICES ASSUME NEW s \in Sub, NEW t \in Topic PROVE SubOK(s, t)'
    BY DEF SubsOK
  <2>1. SubOK(s, t) /\ Position(s, t)' = Position(s, t)
    BY <1>2 DEF SubsOK, Position
  <2>2. CASE received'[s][t] = received[s][t] /\ Pushed(s, t)' = Pushed(s, t)
    BY <1>2, <2>1, <2>2 DEF SubOK
  <2>3. CASE /\ s \in SyncSub /\ t = e.topic /\ Pushed(s, t)' = Pushed(s, t) \cup {e.version}
             /\ OrderedOf(received'[s][t], queue'[s], t)
    BY <1>1, <1>2, <2>1, <2>3 DEF SubOK, PostCommitSub
  <2> QED
    BY <1>4, <2>2, <2>3
<1>6. FreshOK'
  <2>1. ASSUME NEW v \in Writer, v # w PROVE fresh'[v] = << >>
    BY <1>2, <2>1, WriterAssumption DEF LocksOK, DispatchSync, TypeOK
  <2>2. fresh'[w] = Tail(f)
    BY <1>2 DEF TypeOK
  <2>3. ASSUME NEW i \in 1 .. Len(Tail(f))
        PROVE  i \in Nat /\ i + 1 \in 1 .. Len(f) /\ Tail(f)[i] = f[i + 1]
    BY <1>1
  <2>4. ASSUME NEW i \in 1 .. Len(Tail(f)), NEW j \in 1 .. Len(Tail(f)), i < j,
               Tail(f)[i].topic = Tail(f)[j].topic
        PROVE  Tail(f)[i].version < Tail(f)[j].version
    <3>1. i + 1 < j + 1 /\ f[i + 1].topic = f[j + 1].topic
      BY <2>3, <2>4
    <3>2. f[i + 1].version < f[j + 1].version
      BY <2>3, <3>1 DEF FreshOK, f
    <3> QED
      BY <2>3, <3>2
  <2>5. ASSUME NEW i \in 1 .. Len(Tail(f)), NEW s \in SyncSub, NEW t \in Topic,
               t = Tail(f)[i].topic, NEW v \in Pushed(s, t)'
        PROVE  v < Tail(f)[i].version
    <3>1. \A u \in Pushed(s, t) : u < f[i + 1].version
      BY <2>3, <2>5 DEF FreshOK, f
    <3>2. t = e.topic => e.version < f[i + 1].version
      <4>1. t = e.topic => f[1].topic = f[i + 1].topic /\ 1 < i + 1 /\ 1 \in 1 .. Len(f)
        BY <1>1, <2>3, <2>5
      <4> QED
        BY <1>1, <2>3, <4>1 DEF FreshOK, f
    <3>3. v \in Pushed(s, t) \/ (t = e.topic /\ v = e.version)
      BY <1>4, <2>5, SubAssumption
    <3> QED
      BY <2>3, <3>1, <3>2, <3>3
  <2>6. ASSUME NEW i \in 1 .. Len(Tail(f)) PROVE Tail(f)[i].topic \in Topic
    BY <1>1, <2>3, EventsIn
  <2>7. \A i \in 1 .. Len(fresh'[w]) : \A s \in SyncSub :
          \A v \in Pushed(s, fresh[w][i].topic)' : v < fresh'[w][i].version
    BY <2>2, <2>5, <2>6 DEF Pushed, Queued
  <2> SUFFICES ASSUME NEW v \in Writer
               PROVE  /\ \A i, j \in 1 .. Len(fresh'[v]) :
                           i < j /\ fresh'[v][i].topic = fresh'[v][j].topic
                             => fresh'[v][i].version < fresh'[v][j].version
                      /\ \A i \in 1 .. Len(fresh'[v]) : \A s \in SyncSub :
                           \A x \in Pushed(s, fresh[v][i].topic)' : x < fresh'[v][i].version
    BY DEF FreshOK
  <2>8. CASE v = w
    <3>1. \A i \in 1 .. Len(fresh'[v]) : \A s \in SyncSub :
            \A x \in Pushed(s, fresh[v][i].topic)' : x < fresh'[v][i].version
      BY <2>7, <2>8 DEF Pushed, Queued
    <3>2. fresh'[v] = Tail(f)
      BY <2>2, <2>8
    <3>3. \A i, j \in 1 .. Len(fresh'[v]) :
            i < j /\ fresh'[v][i].topic = fresh'[v][j].topic
              => fresh'[v][i].version < fresh'[v][j].version
      BY <2>4, <3>2
    <3> QED
      BY <3>1, <3>3
  <2>9. CASE v # w
    <3>1. Len(fresh'[v]) = 0
      BY <2>1, <2>9
    <3> QED
      BY <3>1
  <2> QED
    BY <2>8, <2>9
<1>7. ASSUME NEW s \in Sub, degraded[s], NEW t \in Topic PROVE Pushed(s, t)' = Pushed(s, t)
  BY <1>4, <1>7
<1>8. ASSUME NEW r \in panicked'[w], r \notin panicked[w] PROVE Truthful(r)'
  <2>1. PICK s \in panics : r = ReportOf(s, e)
    BY <1>2, <1>8
  <2>2. s \in Sub /\ s \in SyncSub /\ degraded'[s] /\ received'[s] = received[s]
    BY <1>2, <2>1
  <2>3. \A t \in Topic : Pushed(s, t)' = Pushed(s, t)
    BY <1>2, <2>2 DEF Pushed, Queued
  <2>4. r.sub = s /\ r.topic = e.topic /\ r.version = e.version
    BY <2>1 DEF ReportOf
  <2>5. r.version \notin Pushed(s, r.topic)
    <3>1. \A v \in Pushed(s, r.topic) : v < r.version
      BY <1>3, <2>2, <2>4
    <3>2. r.version \in Nat
      BY <1>1, <2>4
    <3> QED
      BY <3>1, <3>2
  <2> QED
    BY <1>1, <2>2, <2>3, <2>4, <2>5 DEF Truthful
<1> QED
  BY <1>2, <1>5, <1>6, <1>7, <1>8

LEMMA SubsKept ==
  ASSUME TypeOK, TypeOK', ChannelsOK, LocksOK, DispatcherOK, SeedOK, BeforeOK, SubsOK, FreshOK,
         [Next]_vars
  PROVE  SubsOK'
<1>1. CASE UNCHANGED feedVars
  <2> SUFFICES ASSUME NEW s \in Sub, NEW t \in Topic PROVE SubOK(s, t)'
    BY DEF SubsOK
  <2>1. committed[t] <= committed'[t] /\ committed[t] \in Nat /\ committed'[t] \in Nat
    BY CommittedRises, SubTypes
  <2>2. UNCHANGED <<status, cursor, queue, alive, event, delivered, seed, received>>
    BY <1>1 DEF feedVars, registryVars
  <2>3. Pushed(s, t) \subseteq Nat /\ Pushed(s, t)' = Pushed(s, t) /\ Position(s, t)' = Position(s, t)
    BY <2>2, SubTypes, PushedIs DEF Position
  <2>4. SubOK(s, t)
    BY DEF SubsOK
  <2>5. \A v \in Pushed(s, t) : v < committed'[t]
    BY <2>1, <2>3, <2>4 DEF SubOK
  <2> QED
    BY <2>2, <2>3, <2>4, <2>5 DEF SubOK
<1> QED
  BY <1>1, Steps, RegistrySubKept, HandlerSubKept, DispatchSubKept, AdvanceSubKept, SyncSubKept

\* A degraded subscription stays degraded and is handed nothing more.
LEMMA DegradedStays ==
  ASSUME TypeOK, TypeOK', ChannelsOK, LocksOK, DispatcherOK, SeedOK, BeforeOK, SubsOK, FreshOK,
         [Next]_vars, NEW s \in Sub, degraded[s]
  PROVE  degraded'[s] /\ \A t \in Topic : Pushed(s, t)' \subseteq Pushed(s, t)
<1>1. CASE UNCHANGED <<degraded, queue, received>>
  BY <1>1, PushedIs
<1>2. CASE UNCHANGED feedVars
  BY <1>1, <1>2 DEF feedVars, registryVars
<1>3. ASSUME NEW x \in Sub, Seed(x) \/ Register(x) \/ Unsubscribe(x)
      PROVE  UNCHANGED <<degraded, queue, received>>
  BY <1>3 DEF Seed, Register, Unsubscribe
<1>4. ASSUME NEW x \in Sub, Handle(x) \/ HandlerDies(x)
      PROVE  degraded'[s] /\ \A t \in Topic : Pushed(s, t)' \subseteq Pushed(s, t)
  BY <1>4, HandlerSubKept DEF Handle, HandlerDies, registryVars
<1>5. CASE Dispatch
  <2>1. degraded'[s]
    BY <1>5 DEF Dispatch
  <2> QED
    BY <1>5, <2>1, DispatchSubKept
<1>6. CASE Advance \/ Receive
  BY <1>1, <1>6 DEF Advance, Receive, registryVars
<1> QED
  BY <1>1, <1>2, <1>3, <1>4, <1>5, <1>6, Steps, SyncSubKept

LEMMA FreshKept ==
  ASSUME TypeOK, TypeOK', ChannelsOK, LocksOK, DispatcherOK, SeedOK, BeforeOK, SubsOK, FreshOK,
         [Next]_vars
  PROVE  FreshOK'
<1>1. ASSUME fresh' = fresh, \A s \in SyncSub : \A t \in Topic : Pushed(s, t)' \subseteq Pushed(s, t)
      PROVE  FreshOK'
  <2>1. \A w \in Writer : \A i \in 1 .. Len(fresh[w]) : fresh[w][i].topic \in Topic
    BY EventsIn DEF TypeOK
  <2>2. ASSUME NEW w \in Writer, NEW i \in 1 .. Len(fresh[w]), NEW s \in SyncSub,
               NEW v \in Pushed(s, fresh[w][i].topic)'
        PROVE  v < fresh[w][i].version
    <3>1. PICK t \in Topic : t = fresh[w][i].topic
      BY <2>1
    <3>2. v \in Pushed(s, t)'
      BY <1>1, <3>1 DEF Pushed, Queued
    <3>3. v \in Pushed(s, fresh[w][i].topic)
      BY <1>1, <3>1, <3>2
    <3> QED
      BY <3>3 DEF FreshOK
  <2> QED
    BY <1>1, <2>2 DEF FreshOK
<1>2. ASSUME UNCHANGED <<fresh, queue, received>> PROVE FreshOK'
  <2>1. \A s \in SyncSub : \A t \in Topic : Pushed(s, t)' \subseteq Pushed(s, t)
    BY <1>2, PushedIs, SubAssumption
  <2> QED
    BY <1>1, <1>2, <2>1
<1>3. ASSUME NEW w \in Writer, NEW n \in 0 .. MaxBatch, NEW items \in [1 .. n -> Writes[w]],
             Commit(w, items)
      PROVE  FreshOK'
  <2> DEFINE f == NewEvents(items)
  <2>1. n \in Nat /\ items \in [1 .. n -> Topic]
    BY WriterAssumption, BoundAssumption
  <2>2. committed \in [Topic -> Nat]
    BY DEF TypeOK
  <2>3. /\ Len(f) = n
        /\ \A i \in 1 .. n :
             /\ f[i].topic = items[i] /\ items[i] \in Topic
             /\ f[i].version = committed[items[i]]
                                 + Cardinality(Places(items, items[i], 1, i - 1))
    BY <2>1, <2>2, NewEventsAre
  <2> HIDE DEF f
  <2>4. ASSUME NEW i \in 1 .. n, NEW j \in 1 .. n, i < j, f[i].topic = f[j].topic
        PROVE  f[i].version < f[j].version
    <3> DEFINE t == items[i]
    <3>1. t = items[j] /\ t \in Topic
      BY <2>3, <2>4
    <3>2. Cardinality(Places(items, t, 1, j - 1))
            = Cardinality(Places(items, t, 1, i - 1)) + Cardinality(Places(items, t, i, j - 1))
      BY PlacesSplit, (i - 1) + 1 = i, <2>4
    <3>3. Cardinality(Places(items, t, i, j - 1)) >= 1
      BY OnePlace, <2>4, i \in i .. (j - 1)
    <3>4. /\ Cardinality(Places(items, t, 1, i - 1)) \in Nat
          /\ Cardinality(Places(items, t, i, j - 1)) \in Nat
      BY PlacesFinite
    <3>5. committed[t] \in Nat /\ f[i].version = committed[t] + Cardinality(Places(items, t, 1, i - 1))
          /\ f[j].version = committed[t] + Cardinality(Places(items, t, 1, j - 1))
      BY <2>2, <2>3, <3>1
    <3> HIDE DEF t
    <3> QED
      BY <3>2, <3>3, <3>4, <3>5
  <2>5. ASSUME NEW i \in 1 .. n, NEW s \in SyncSub, NEW v \in Pushed(s, f[i].topic)
        PROVE  v < f[i].version
    <3>1. f[i].topic = items[i] /\ items[i] \in Topic /\ s \in Sub
      BY <2>3, SubAssumption
    <3>2. v < committed[items[i]]
      BY <2>5, <3>1 DEF SubsOK, SubOK
    <3>3. v \in Nat /\ committed[items[i]] \in Nat
      BY <2>5, <3>1, SubTypes
    <3>4. Cardinality(Places(items, items[i], 1, i - 1)) \in Nat
      BY PlacesFinite
    <3> QED
      BY <2>3, <3>2, <3>3, <3>4
  <2>6. \A v \in Writer : fresh'[v] = fresh[v] \/ fresh'[v] = << >> \/ fresh'[v] = f
    BY <1>3 DEF Commit, TypeOK, f
  <2>7. UNCHANGED <<queue, received>>
    BY <1>3 DEF Commit
  <2> SUFFICES ASSUME NEW v \in Writer
               PROVE  /\ \A i, j \in 1 .. Len(fresh'[v]) :
                           i < j /\ fresh'[v][i].topic = fresh'[v][j].topic
                             => fresh'[v][i].version < fresh'[v][j].version
                      /\ \A i \in 1 .. Len(fresh'[v]) : \A s \in SyncSub :
                           \A x \in Pushed(s, fresh[v][i].topic)' : x < fresh'[v][i].version
    BY DEF FreshOK
  <2>8. CASE fresh'[v] = fresh[v]
    BY <2>7, <2>8 DEF FreshOK, Pushed, Queued
  <2>9. CASE fresh'[v] = << >>
    <3>1. Len(fresh'[v]) = 0
      BY <2>9
    <3> QED
      BY <3>1
  <2>10. CASE fresh'[v] = f
    <3>1. \A i, j \in 1 .. Len(fresh'[v]) :
            i < j /\ fresh'[v][i].topic = fresh'[v][j].topic
              => fresh'[v][i].version < fresh'[v][j].version
      BY <2>3, <2>4, <2>10
    <3>2. \A i \in 1 .. Len(fresh'[v]) : \A s \in SyncSub :
            \A x \in Pushed(s, fresh[v][i].topic)' : x < fresh'[v][i].version
      BY <2>3, <2>5, <2>7, <2>10 DEF Pushed, Queued
    <3> QED
      BY <3>1, <3>2
  <2> QED
    BY <2>6, <2>8, <2>9, <2>10
<1>4. ASSUME NEW w \in Writer, Write(w) PROVE FreshOK'
  <2>1. CASE Enter(w) \/ Refuse(w) \/ Unlock(w) \/ Return(w) \/ SendEvent(w)
             \/ \E r \in panicked[w] : SendReport(w, r)
    BY <1>2, <2>1 DEF Enter, Refuse, Unlock, Return, SendEvent, SendReport
  <2> QED
    BY <1>3, <1>4, <2>1, SyncSubKept DEF Write
<1>5. ASSUME NEW t \in RemoteWrites, RemoteCommit(t) PROVE FreshOK'
  BY <1>2, <1>5 DEF RemoteCommit, writerVars
<1>6. ASSUME NEW s \in Sub, Subscription(s) PROVE FreshOK'
  BY <1>2, <1>6 DEF Subscription, Seed, Register, Unsubscribe, writerVars
<1>7. ASSUME NEW s \in Sub, Handle(s) \/ HandlerDies(s) PROVE FreshOK'
  <2>1. fresh' = fresh
    BY <1>7 DEF Handle, HandlerDies, writerVars
  <2> QED
    BY <1>1, <1>7, <2>1, HandlerSubKept, SubAssumption
<1>8. CASE Dispatch
  <2>1. fresh' = fresh
    BY <1>8 DEF Dispatch, writerVars
  <2> QED
    BY <1>1, <1>8, <2>1, DispatchSubKept
<1>9. ASSUME Dispatcher, ~ Dispatch PROVE FreshOK'
  BY <1>2, <1>9 DEF Dispatcher, SkipSystem, Advance, EmitOverflow, EmitPanic, Receive, writerVars
<1>10. CASE Watcher \/ MissNotice \/ UNCHANGED vars
  BY <1>2, <1>10 DEF Watcher, Wake, Snapshot, Fetch, SendFetched, ScanDone, MissNotice, vars,
       writerVars
<1> QED
  BY <1>4, <1>5, <1>6, <1>7, <1>8, <1>9, <1>10 DEF Next

LEMMA ReportsKept ==
  ASSUME TypeOK, TypeOK', ChannelsOK, LocksOK, DispatcherOK, SeedOK, BeforeOK, SubsOK, FreshOK,
         ReportsOK, [Next]_vars
  PROVE  ReportsOK'
<1> SUFFICES ASSUME NEW r \in Report, Reported(r)' PROVE Reported(r) \/ Truthful(r)'
  <2>1. ASSUME NEW r \in Report, Reported(r) PROVE Truthful(r)'
    <3>1. r.sub \in Sub /\ r.topic \in Topic
      BY DEF Report
    <3>2. degraded[r.sub] /\ r.version \notin Pushed(r.sub, r.topic)
      BY <2>1 DEF ReportsOK, Truthful
    <3>3. degraded'[r.sub] /\ Pushed(r.sub, r.topic)' \subseteq Pushed(r.sub, r.topic)
      BY <3>1, <3>2, DegradedStays
    <3> QED
      BY <3>2, <3>3 DEF Truthful
  <2> QED
    BY <2>1 DEF ReportsOK
<1>1. CASE UNCHANGED <<audit, degradedCh, panicked, event, overflowed>>
  BY <1>1 DEF Reported, ReportOf
<1>2. ASSUME NEW w \in Writer, Write(w) PROVE Reported(r) \/ Truthful(r)'
  <2>1. CASE Enter(w) \/ Refuse(w) \/ Unlock(w) \/ SendEvent(w) \/ Return(w)
    BY <1>1, <2>1 DEF Enter, Refuse, Unlock, SendEvent, Return, dispatcherVars
  <2>2. CASE \E n \in 0 .. MaxBatch : \E items \in [1 .. n -> Writes[w]] : Commit(w, items)
    BY <1>1, <2>2 DEF Commit, dispatcherVars
  <2>3. ASSUME NEW panics \in SUBSET SyncSub, DispatchSync(w, panics)
        PROVE  Reported(r) \/ Truthful(r)'
    <3>1. UNCHANGED <<audit, degradedCh, event, overflowed>>
          /\ \A v \in Writer : v # w => panicked'[v] = panicked[v]
      BY <2>3 DEF DispatchSync, dispatcherVars, TypeOK
    <3>2. r \in panicked'[w] => r \in panicked[w] \/ Truthful(r)'
      BY <2>3, SyncSubKept
    <3> QED
      BY <3>1, <3>2 DEF Reported, ReportOf
  <2>4. ASSUME NEW x \in panicked[w], SendReport(w, x) PROVE Reported(r) \/ Truthful(r)'
    <3>1. UNCHANGED <<audit, event, overflowed>>
          /\ \A v \in Writer : panicked'[v] \subseteq panicked[v]
      BY <2>4 DEF SendReport, dispatcherVars, TypeOK
    <3>2. x \in Report /\ degradedCh' = Append(degradedCh, x)
      BY <2>4 DEF SendReport, TypeOK
    <3>3. Items(degradedCh') = Items(degradedCh) \cup {x}
      BY <3>2, ItemsAre DEF TypeOK
    <3> QED
      BY <3>1, <3>3 DEF Reported, ReportOf
  <2> QED
    BY <1>2, <2>1, <2>2, <2>3, <2>4 DEF Write
<1>3. ASSUME NEW t \in RemoteWrites, RemoteCommit(t)
      PROVE  UNCHANGED <<audit, degradedCh, panicked, event, overflowed>>
  BY <1>3 DEF RemoteCommit, writerVars, dispatcherVars
<1>4. ASSUME NEW s \in Sub, Subscription(s) \/ Handle(s) \/ HandlerDies(s)
      PROVE  UNCHANGED <<audit, degradedCh, panicked, event, overflowed>>
  BY <1>4 DEF Subscription, Seed, Register, Unsubscribe, Handle, HandlerDies, writerVars,
       dispatcherVars
<1>5. CASE Dispatcher
  <2>1. CASE SkipSystem \/ Advance
    BY <1>1, <2>1 DEF SkipSystem, Advance, writerVars, dispatcherVars
  <2>2. CASE Dispatch
    <3>1. \A s \in overflowed' : Truthful(ReportOf(s, event))'
      BY <2>2, DispatchSubKept
    <3>2. UNCHANGED <<audit, degradedCh, panicked>>
      BY <2>2 DEF Dispatch, writerVars
    <3>3. Reported(r) \/ \E s \in overflowed' : r = ReportOf(s, event')
      BY <3>2 DEF Reported, ReportOf
    <3>4. ASSUME NEW s \in overflowed', r = ReportOf(s, event') PROVE Truthful(r)'
      BY <3>1, <3>4 DEF Truthful, Pushed, Queued, ReportOf
    <3> QED
      BY <3>3, <3>4
  <2>3. ASSUME NEW s \in overflowed, EmitOverflow(s) PROVE Reported(r) \/ Truthful(r)'
    <3>1. UNCHANGED <<degradedCh, panicked, event>> /\ overflowed' \subseteq overflowed
      BY <2>3 DEF EmitOverflow, writerVars
    <3>2. audit' \subseteq audit \cup {ReportOf(s, event)}
      BY <2>3 DEF EmitOverflow, Emitted
    <3> QED
      BY <3>1, <3>2 DEF Reported, ReportOf
  <2>4. CASE EmitPanic
    <3>1. UNCHANGED <<panicked, event, overflowed>>
          /\ degradedCh # << >> /\ degradedCh' = Tail(degradedCh)
      BY <2>4 DEF EmitPanic, writerVars, dispatcherVars
    <3>2. audit' \subseteq audit \cup {Head(degradedCh)}
      BY <2>4 DEF EmitPanic, Emitted
    <3>3. Head(degradedCh) \in Items(degradedCh) /\ Items(degradedCh') \subseteq Items(degradedCh)
      BY <3>1, ItemsAre DEF TypeOK
    <3> QED
      BY <3>1, <3>2, <3>3 DEF Reported, ReportOf
  <2>5. CASE Receive
    <3>1. overflowed' = {} /\ UNCHANGED <<audit, degradedCh, panicked>>
      BY <2>5 DEF Receive, writerVars
    <3> QED
      BY <3>1 DEF Reported
  <2> QED
    BY <1>5, <2>1, <2>2, <2>3, <2>4, <2>5 DEF Dispatcher
<1>6. CASE Watcher \/ MissNotice \/ UNCHANGED vars
  BY <1>1, <1>6 DEF Watcher, Wake, Snapshot, Fetch, SendFetched, ScanDone, MissNotice, vars,
       writerVars, dispatcherVars
<1> QED
  BY <1>1, <1>2, <1>3, <1>4, <1>5, <1>6 DEF Next

LEMMA InitInv == Init => IInv
<1> SUFFICES ASSUME Init PROVE IInv
  OBVIOUS
<1>1. TypeOK
  BY InitTypes
<1>2. ChannelsOK
  BY DEF Init, ChannelsOK, Items
<1>3. LocksOK
  BY WriterAssumption DEF Init, LocksOK
<1>4. DispatcherOK
  BY DEF Init, DispatcherOK
<1>5. SeedOK
  BY BoundAssumption DEF Init, SeedOK
<1>6. BeforeOK
  BY DEF Init, BeforeOK
<1>7. SubsOK
  <2> SUFFICES ASSUME NEW s \in Sub, NEW t \in Topic PROVE SubOK(s, t)
    BY DEF SubsOK
  <2>1. /\ received[s][t] = << >> /\ queue[s] = << >> /\ delivered = {}
        /\ cursor[s][t] = seed[s][t]
    BY DEF Init
  <2>2. Pushed(s, t) = {} /\ OrderedOf(received[s][t], queue[s], t)
    BY <2>1 DEF Pushed, Queued, OrderedOf, QueuedOf
  <2>3. seed[s][t] \in Nat \cup {-1} /\ Position(s, t) = seed[s][t]
    BY <1>1, <2>1 DEF TypeOK, Position
  <2> QED
    BY <2>1, <2>2, <2>3 DEF SubOK
<1>8. FreshOK
  BY DEF Init, FreshOK
<1>9. ReportsOK
  BY DEF Init, ReportsOK, Reported, Items
<1> QED
  BY <1>1, <1>2, <1>3, <1>4, <1>5, <1>6, <1>7, <1>8, <1>9 DEF IInv

LEMMA NextInv ==
  ASSUME IInv, [Next]_vars PROVE IInv'
<1>1. TypeOK'
  BY NextTypes DEF IInv
<1>2. ChannelsOK' /\ LocksOK' /\ DispatcherOK' /\ SeedOK' /\ BeforeOK'
  BY <1>1, ChannelsKept, LocksKept, DispatcherKept, SeedKept, BeforeKept DEF IInv
<1>3. SubsOK' /\ FreshOK' /\ ReportsOK'
  BY <1>1, SubsKept, FreshKept, ReportsKept DEF IInv
<1> QED
  BY <1>1, <1>2, <1>3 DEF IInv

\* Queues, channels, cursors and reports agree with one another in every reachable
\* state, whatever store.rs, subscriptions.rs and wal_watch.rs interleave.
THEOREM Invariant == Spec => []IInv
BY InitInv, NextInv, PTL DEF Spec

\* Whatever appends, and although the channel carries events twice and out of order
\* (dispatch_post_commit and the cursors), every subscription is handed events once, in
\* order, and only after they are committed.
THEOREM InOrderHolds == Spec => []InOrder
<1>1. IInv => InOrder
  <2> SUFFICES ASSUME IInv, NEW s \in Sub, NEW t \in Pattern[s]
               PROVE  /\ \A v \in Pushed(s, t) : v < committed[t] /\ (s \in PostCommitSub => v > seed[s][t])
                      /\ OrderedOf(received[s][t], queue[s], t)
    BY DEF InOrder, OrderedOf, QueuedOf, Queued
  <2>1. t \in Topic
    BY SubAssumption
  <2> QED
    BY <2>1 DEF IInv, SubsOK, SubOK
<1> QED
  BY <1>1, Invariant, PTL

\* The cursor of a live subscription is what dispatch_post_commit pushed last.
THEOREM CursorIsLastPushedHolds == Spec => []CursorIsLastPushed
<1>1. IInv => CursorIsLastPushed
  <2> SUFFICES ASSUME IInv, NEW s \in Live \cap PostCommitSub, NEW t \in Pattern[s], alive[s]
               PROVE  /\ Position(s, t) \in Pushed(s, t) \cup {seed[s][t]}
                      /\ \A v \in Pushed(s, t) \cup {seed[s][t]} : v <= Position(s, t)
    BY DEF CursorIsLastPushed
  <2>1. s \in Sub /\ status[s] = "live" /\ t \in Topic
    BY SubAssumption DEF Live
  <2> QED
    BY <2>1 DEF IInv, SubsOK, SubOK
<1> QED
  BY <1>1, Invariant, PTL

\* Every report that emit_subscription_degraded puts in the system stream is true.
THEOREM AuditTruthfulHolds == Spec => []AuditTruthful
<1>1. IInv => AuditTruthful
  BY DEF IInv, TypeOK, ReportsOK, Reported, Truthful, AuditTruthful
<1> QED
  BY <1>1, Invariant, PTL

-----------------------------------------------------------------------------
(* Synchronous subscriptions made before the first append.                  *)

\* The events of t in f, from the i-th on.
TopicsOf(f) == [k \in 1 .. Len(f) |-> f[k].topic]
Ahead(f, t, i) == Cardinality(Places(TopicsOf(f), t, i, Len(f)))

LEMMA AheadIs ==
  ASSUME NEW f \in Seq(Event), NEW t \in Topic
  PROVE  /\ f = << >> => Ahead(f, t, 1) = 0
         /\ \A i \in 1 .. Len(f) : Ahead(f, t, i) \in Nat
         /\ f # << >> =>
              /\ Ahead(f, t, 1) = Ahead(Tail(f), t, 1) + (IF Head(f).topic = t THEN 1 ELSE 0)
              /\ Ahead(Tail(f), t, 1) \in Nat
              /\ \A i \in 1 .. Len(Tail(f)) : Ahead(Tail(f), t, i) = Ahead(f, t, i + 1)
<1> DEFINE n == Len(f)
           c == TopicsOf(f)
<1>1. n \in Nat /\ \A k \in 1 .. n : c[k] = f[k].topic
  BY DEF TopicsOf
<1>2. f = << >> => Ahead(f, t, 1) = 0
  BY FS_EmptySet DEF Ahead, Places
<1>3. \A i \in 1 .. n : Ahead(f, t, i) \in Nat
  BY PlacesFinite DEF Ahead
<1>4. ASSUME f # << >>, NEW i \in 1 .. n PROVE Ahead(Tail(f), t, i) = Ahead(f, t, i + 1)
  <2> DEFINE d == TopicsOf(Tail(f))
             S == Places(d, t, i, n - 1)
             T == Places(c, t, i + 1, n)
             g == [k \in S |-> k + 1]
  <2>1. /\ Len(Tail(f)) = n - 1 /\ n >= 1
        /\ \A k \in 1 .. (n - 1) : Tail(f)[k] = f[k + 1]
    BY <1>4, HeadIs
  <2>2. \A k \in 1 .. (n - 1) : d[k] = c[k + 1]
    BY <1>1, <2>1 DEF TopicsOf
  <2> HIDE DEF c, d
  <2>3. \A k \in S : k \in Nat /\ k + 1 \in T
    BY <1>1, <2>2 DEF Places
  <2>4. \A k \in T : k - 1 \in S /\ (k - 1) + 1 = k
    BY <1>1, <2>2 DEF Places
  <2> HIDE DEF S, T
  <2>5. g \in [S -> T] /\ \A a, b \in S : g[a] = g[b] => a = b
    BY <2>3
  <2>6. \A k \in T : \E a \in S : g[a] = k
    <3> SUFFICES ASSUME NEW k \in T PROVE \E a \in S : g[a] = k
      OBVIOUS
    <3>1. k - 1 \in S /\ g[k - 1] = k
      BY <2>4
    <3> QED
      BY <3>1
  <2>7. g \in Bijection(S, T)
    BY <2>5, <2>6, Fun_IsBij
  <2>8. ExistsBijection(S, T)
    BY <2>7 DEF ExistsBijection
  <2>9. IsFiniteSet(S)
    BY <1>1, PlacesFinite DEF S
  <2>10. Cardinality(T) = Cardinality(S)
    BY <2>8, <2>9, FS_Bijection
  <2> QED
    BY <2>1, <2>10 DEF Ahead, S, T, c, d
<1>5. ASSUME f # << >>
      PROVE  /\ Ahead(f, t, 1) = Ahead(Tail(f), t, 1) + (IF Head(f).topic = t THEN 1 ELSE 0)
             /\ Ahead(Tail(f), t, 1) \in Nat
  <2>1. n >= 1 /\ Head(f) = f[1] /\ c[1] = f[1].topic /\ 1 \in 1 .. n /\ Len(Tail(f)) \in Int
    BY <1>1, <1>5, HeadIs
  <2>2. Ahead(f, t, 1) = Cardinality(Places(c, t, 1, 1)) + Cardinality(Places(c, t, 2, n))
    BY <1>1, <2>1, PlacesSplit, 1 + 1 = 2 DEF Ahead
  <2>3. Cardinality(Places(c, t, 2, n)) = Ahead(Tail(f), t, 1)
    BY <1>4, <1>5, <2>1, 1 + 1 = 2 DEF Ahead
  <2>4. Ahead(Tail(f), t, 1) \in Nat
    BY <2>1, PlacesFinite DEF Ahead
  <2>5. Cardinality(Places(c, t, 1, 1)) = IF Head(f).topic = t THEN 1 ELSE 0
    <3>1. CASE c[1] = t
      <4>1. Places(c, t, 1, 1) = {1}
        BY <3>1 DEF Places
      <4> QED
        BY <2>1, <3>1, <4>1, FS_Singleton
    <3>2. CASE c[1] # t
      <4>1. Places(c, t, 1, 1) = {}
        BY <3>2 DEF Places
      <4> QED
        BY <2>1, <3>2, <4>1, FS_EmptySet
    <3> QED
      BY <3>1, <3>2
  <2> QED
    BY <2>2, <2>3, <2>4, <2>5
<1>6. ASSUME f # << >>, NEW i \in 1 .. Len(Tail(f)) PROVE i \in 1 .. n
  BY <1>6, HeadIs
<1> QED
  BY <1>2, <1>3, <1>4, <1>5, <1>6

\* The topics that only threads of this process append to.
LocalTopic == Topic \ (RemoteWrites \cup {SystemTopic})

\* The events of t that the writer that holds the mutex has still to dispatch.
Awaited(t) == IF lock = None THEN 0 ELSE Ahead(fresh[lock], t, 1)

FirstLive == {s \in InitialSub : status[s] = "live"}

\* While one of the first subscriptions is live every writer knows that there are
\* subscribers.
AnnouncedOK ==
  /\ \A s \in InitialSub : status[s] \in {"live", "closed"}
  /\ FirstLive # {} => \A w \in Writer : wpc[w] \in {"entered", "locked"} => hasSubs[w]

\* The events of a writer are the last ones of their topics.
NumberedOK ==
  \A w \in Writer : \A i \in 1 .. Len(fresh[w]) :
    fresh[w][i].topic \in LocalTopic =>
      fresh[w][i].version = committed[fresh[w][i].topic] - Ahead(fresh[w], fresh[w][i].topic, i)

\* What such a subscription has seen: all but what the lock holder has yet to dispatch.
SeenOK(s, t) ==
  /\ Len(received[s][t]) = committed[t] - 1 - seed[s][t] - Awaited(t)
  /\ \A i \in 1 .. Len(received[s][t]) : received[s][t][i] = seed[s][t] + i

SyncInv ==
  /\ AnnouncedOK
  /\ NumberedOK
  /\ \A s \in FirstLive \cap SyncSub :
       ~ degraded[s] => \A t \in Pattern[s] \cap LocalTopic : SeenOK(s, t)

LEMMA AnnouncedKept ==
  ASSUME TypeOK, AnnouncedOK, [Next]_vars PROVE AnnouncedOK' /\ FirstLive' \subseteq FirstLive
<1>1. ASSUME \A s \in InitialSub : status'[s] = status[s] \/ (status[s] = "live" /\ status'[s] = "closed")
      PROVE  /\ FirstLive' \subseteq FirstLive
             /\ \A s \in InitialSub : status'[s] \in {"live", "closed"}
  BY <1>1 DEF AnnouncedOK, FirstLive
<1>2. ASSUME NEW w \in Writer, Write(w) PROVE AnnouncedOK' /\ FirstLive' \subseteq FirstLive
  <2>1. status' = status
    BY <1>2 DEF Write, Enter, Refuse, Commit, DispatchSync, Unlock, SendReport, SendEvent, Return,
         registryVars
  <2>2. FirstLive \subseteq Live
    BY SubAssumption DEF FirstLive, Live
  <2>3. \A v \in Writer : v # w => wpc'[v] = wpc[v] /\ hasSubs'[v] = hasSubs[v]
    BY <1>2 DEF Write, Enter, Refuse, Commit, DispatchSync, Unlock, SendReport, SendEvent, Return,
         TypeOK
  <2>4. wpc'[w] \in {"entered", "locked"} => \/ hasSubs'[w] = (Live # {})
                                             \/ wpc[w] \in {"entered", "locked"} /\ hasSubs'[w] = hasSubs[w]
    BY <1>2 DEF Write, Enter, Refuse, Commit, DispatchSync, Unlock, SendReport, SendEvent, Return,
         TypeOK
  <2>5. FirstLive' = FirstLive
    BY <2>1 DEF FirstLive
  <2> QED
    BY <1>1, <2>1, <2>2, <2>3, <2>4, <2>5 DEF AnnouncedOK
<1>3. ASSUME UNCHANGED writerVars,
             \A s \in InitialSub : status'[s] = status[s] \/ (status[s] = "live" /\ status'[s] = "closed")
      PROVE  AnnouncedOK' /\ FirstLive' \subseteq FirstLive
  BY <1>1, <1>3 DEF AnnouncedOK, writerVars
<1>4. ASSUME NEW t \in RemoteWrites, RemoteCommit(t) PROVE UNCHANGED <<writerVars, status>>
  BY <1>4 DEF RemoteCommit, registryVars
<1>5. ASSUME NEW s \in Sub, Subscription(s) \/ Handle(s) \/ HandlerDies(s)
      PROVE  AnnouncedOK' /\ FirstLive' \subseteq FirstLive
  <2>1. UNCHANGED writerVars
    BY <1>5 DEF Subscription, Seed, Register, Unsubscribe, Handle, HandlerDies
  <2>2. \A x \in InitialSub : status'[x] = status[x] \/ (status[x] = "live" /\ status'[x] = "closed")
    BY <1>5, SubAssumption DEF Subscription, Seed, Register, Unsubscribe, Handle, HandlerDies, registryVars, TypeOK,
         AnnouncedOK
  <2> QED
    BY <1>3, <2>1, <2>2
<1>6. CASE Dispatcher \/ Watcher \/ MissNotice \/ UNCHANGED vars
  <2>1. UNCHANGED <<writerVars, status>>
    BY <1>6 DEF Dispatcher, SkipSystem, Dispatch, Advance, EmitOverflow, EmitPanic, Receive,
         Watcher, Wake, Snapshot, Fetch, SendFetched, ScanDone, MissNotice, vars, registryVars
  <2> QED
    BY <1>3, <2>1
<1> QED
  BY <1>2, <1>3, <1>4, <1>5, <1>6 DEF Next

LEMMA InitSync == Init => SyncInv
<1> SUFFICES ASSUME Init PROVE SyncInv
  OBVIOUS
<1>1. AnnouncedOK /\ NumberedOK
  BY SubAssumption DEF Init, AnnouncedOK, NumberedOK
<1>2. ASSUME NEW s \in FirstLive \cap SyncSub, NEW t \in Pattern[s] \cap LocalTopic
      PROVE  SeenOK(s, t)
  <2>1. s \in InitialSub /\ s \in Sub /\ t \in Topic
    BY SubAssumption DEF FirstLive
  <2>2. received[s][t] = << >> /\ seed[s][t] = committed[t] - 1 /\ lock = None
    BY <2>1 DEF Init
  <2>3. committed[t] \in Nat
    BY <2>1, BoundAssumption DEF Init
  <2> QED
    BY <2>2, <2>3 DEF SeenOK, Awaited
<1> QED
  BY <1>1, <1>2 DEF SyncInv

LEMMA SeedStays ==
  ASSUME TypeOK, [Next]_vars, NEW s \in Sub, status[s] = "live"
  PROVE  seed'[s] = seed[s]
<1>1. ASSUME NEW x \in Sub, Seed(x) PROVE seed'[s] = seed[s]
  BY <1>1 DEF Seed, TypeOK
<1>2. ASSUME NEW x \in Sub, Register(x) \/ Unsubscribe(x) \/ Handle(x) \/ HandlerDies(x)
      PROVE  seed'[s] = seed[s]
  BY <1>2 DEF Register, Unsubscribe, Handle, HandlerDies
<1>3. ASSUME NEW w \in Writer, NEW panics, DispatchSync(w, panics) PROVE seed'[s] = seed[s]
  BY <1>3 DEF DispatchSync
<1>4. CASE Dispatch \/ Advance \/ Receive \/ UNCHANGED feedVars
  BY <1>4 DEF Dispatch, Advance, Receive, feedVars
<1> QED
  BY <1>1, <1>2, <1>3, <1>4, Steps

\* A step that changes neither what is committed to the topics of this process nor
\* what was handed over.
LEMMA QuietSync ==
  ASSUME IInv, IInv', SyncInv, [Next]_vars,
         UNCHANGED <<lock, fresh, received>>,
         \A t \in LocalTopic : committed'[t] = committed[t]
  PROVE  SyncInv'
<1>1. AnnouncedOK' /\ FirstLive' \subseteq FirstLive
  BY AnnouncedKept DEF IInv, SyncInv
<1>2. NumberedOK'
  <2> SUFFICES ASSUME NEW w \in Writer, NEW i \in 1 .. Len(fresh'[w]),
                      fresh'[w][i].topic \in LocalTopic
               PROVE  fresh'[w][i].version = committed'[fresh'[w][i].topic]
                                               - Ahead(fresh[w], fresh[w][i].topic, i)'
    BY DEF NumberedOK
  <2>1. Ahead(fresh[w], fresh[w][i].topic, i)' = Ahead(fresh[w], fresh[w][i].topic, i)
    BY DEF Ahead, TopicsOf, Places
  <2> QED
    BY <2>1 DEF SyncInv, NumberedOK
<1>3. ASSUME NEW s \in (FirstLive \cap SyncSub)', ~ degraded'[s], NEW t \in Pattern[s] \cap LocalTopic
      PROVE  SeenOK(s, t)'
  <2>1. s \in FirstLive \cap SyncSub /\ s \in Sub
    BY <1>1, SubAssumption
  <2>2. ~ degraded[s]
    BY <1>3, <2>1, DegradedStays DEF IInv
  <2>3. SeenOK(s, t)
    BY <2>1, <2>2 DEF SyncInv
  <2>4. seed'[s] = seed[s]
    BY <2>1, SeedStays DEF FirstLive, IInv
  <2> QED
    BY <2>3, <2>4 DEF SeenOK, Awaited, Ahead, TopicsOf, Places
<1> QED
  BY <1>1, <1>2, <1>3 DEF SyncInv

LEMMA CommitSync ==
  ASSUME IInv, IInv', SyncInv, [Next]_vars, NEW w \in Writer, NEW n \in 0 .. MaxBatch,
         NEW items \in [1 .. n -> Writes[w]], Commit(w, items)
  PROVE  SyncInv'
<1> DEFINE f == NewEvents(items)
<1>1. n \in Nat /\ items \in [1 .. n -> Topic] /\ committed \in [Topic -> Nat]
  BY WriterAssumption, BoundAssumption DEF IInv, TypeOK
<1>2. /\ f \in Seq(Event) /\ Len(f) = n
      /\ \A i \in 1 .. n :
           /\ f[i].topic = items[i] /\ items[i] \in Topic
           /\ f[i].version = committed[items[i]] + Count(items, items[i])
                               - Cardinality(Places(items, items[i], i, n))
  BY <1>1, NewEventsAre
<1>3. \A t \in Topic : Count(items, t) \in Nat /\ Count(items, t) = Cardinality(Places(items, t, 1, n))
  BY <1>1, NewEventsAre, CountIs
<1>4. /\ UNCHANGED <<received, status, degraded, seed>> /\ wpc[w] = "entered"
      /\ lock = None /\ lock' = w
      /\ \A t \in Topic : committed'[t] = committed[t] + Count(items, t)
      /\ fresh' = [fresh EXCEPT ![w] = IF hasSubs[w] THEN f ELSE << >>]
  BY DEF Commit, registryVars
<1> HIDE DEF f
<1>5. /\ fresh'[w] = IF hasSubs[w] THEN f ELSE << >>
      /\ \A v \in Writer : v # w => fresh'[v] = << >>
  BY <1>4, WriterAssumption DEF IInv, TypeOK, LocksOK
<1>6. \A t \in Topic : \A i \in 1 .. n : Ahead(f, t, i) = Cardinality(Places(items, t, i, n))
  BY <1>2 DEF Ahead, TopicsOf, Places
<1>7. AnnouncedOK' /\ FirstLive' \subseteq FirstLive
  BY AnnouncedKept DEF IInv, SyncInv
<1>8. NumberedOK'
  <2> SUFFICES ASSUME NEW v \in Writer, NEW i \in 1 .. Len(fresh'[v]),
                      fresh'[v][i].topic \in LocalTopic
               PROVE  fresh'[v][i].version = committed'[fresh'[v][i].topic]
                                               - Ahead(fresh[v], fresh[v][i].topic, i)'
    BY DEF NumberedOK
  <2>1. v = w /\ fresh'[v] = f /\ i \in 1 .. n
    <3>1. Len(fresh'[v]) # 0
      OBVIOUS
    <3>2. fresh'[v] # << >>
      BY <3>1
    <3> QED
      BY <1>2, <1>5, <3>2
  <2>2. Ahead(fresh[v], fresh[v][i].topic, i)' = Ahead(f, f[i].topic, i)
    BY <2>1 DEF Ahead, TopicsOf, Places
  <2>3. Cardinality(Places(items, items[i], i, n)) \in Nat
    BY <1>1, PlacesFinite
  <2> QED
    BY <1>1, <1>2, <1>3, <1>4, <1>6, <2>1, <2>2, <2>3
<1>9. ASSUME NEW s \in (FirstLive \cap SyncSub)', ~ degraded'[s], NEW t \in Pattern[s] \cap LocalTopic
      PROVE  SeenOK(s, t)'
  <2>1. s \in FirstLive \cap SyncSub /\ s \in Sub /\ t \in Topic
    BY <1>7, SubAssumption
  <2>2. SeenOK(s, t)
    BY <1>4, <1>9, <2>1 DEF SyncInv
  <2>3. hasSubs[w]
    BY <1>4, <2>1 DEF SyncInv, AnnouncedOK
  <2>4. Awaited(t) = 0 /\ Awaited(t)' = Count(items, t)
    <3>1. Awaited(t)' = Ahead(f, t, 1)
      BY <1>4, <1>5, <2>3, WriterAssumption DEF Awaited, Ahead, TopicsOf, Places
    <3>2. Ahead(f, t, 1) = Count(items, t)
      BY <1>2, <1>3, <2>1 DEF Ahead, TopicsOf, Places
    <3> QED
      BY <1>4, <3>1, <3>2 DEF Awaited
  <2>5. committed[t] \in Nat /\ Count(items, t) \in Nat /\ seed[s][t] \in Int
    BY <1>1, <1>3, <2>1, SubTypes DEF IInv
  <2> QED
    BY <1>4, <2>1, <2>2, <2>4, <2>5 DEF SeenOK
<1> QED
  BY <1>7, <1>8, <1>9 DEF SyncInv

LEMMA DispatchSyncSync ==
  ASSUME IInv, IInv', SyncInv, [Next]_vars, NEW w \in Writer, NEW panics \in SUBSET SyncSub,
         DispatchSync(w, panics)
  PROVE  SyncInv'
<1> DEFINE f == fresh[w]
           e == Head(f)
<1>1. f \in Seq(Event) /\ f # << >>
  BY DEF DispatchSync, IInv, TypeOK
<1>2. /\ Len(f) \in Nat /\ Len(f) >= 1 /\ e = f[1] /\ e \in Event
      /\ e.topic \in Topic /\ e.version \in Nat
      /\ Tail(f) \in Seq(Event) /\ Len(Tail(f)) = Len(f) - 1
      /\ \A i \in 1 .. (Len(f) - 1) : Tail(f)[i] = f[i + 1]
  BY <1>1, HeadIs, EventsIn
<1>3. /\ UNCHANGED <<committed, lock, status, seed>> /\ lock = w
      /\ fresh' = [fresh EXCEPT ![w] = Tail(f)]
      /\ received' = [s \in Sub |->
           IF s \in (IF e.topic = SystemTopic THEN {} ELSE Matching(e.topic) \cap SyncSub) \ panics
           THEN [received[s] EXCEPT ![e.topic] = Append(@, e.version)] ELSE received[s]]
      /\ \A s \in Sub : degraded[s] \/ s \in panics => degraded'[s]
  BY DEF DispatchSync, IInv, LocksOK
<1>4. \A v \in Writer : fresh'[v] = IF v = w THEN Tail(f) ELSE fresh[v]
  BY <1>3 DEF IInv, TypeOK
<1> HIDE DEF f, e
<1>5. AnnouncedOK' /\ FirstLive' \subseteq FirstLive
  BY AnnouncedKept DEF IInv, SyncInv
<1>6. NumberedOK'
  <2> SUFFICES ASSUME NEW v \in Writer, NEW i \in 1 .. Len(fresh'[v]),
                      fresh'[v][i].topic \in LocalTopic
               PROVE  fresh'[v][i].version = committed'[fresh'[v][i].topic]
                                               - Ahead(fresh[v], fresh[v][i].topic, i)'
    BY DEF NumberedOK
  <2>1. CASE v # w
    <3>1. fresh'[v] = fresh[v]
      BY <1>4, <2>1
    <3>2. Ahead(fresh[v], fresh[v][i].topic, i)' = Ahead(fresh[v], fresh[v][i].topic, i)
      BY <3>1 DEF Ahead, TopicsOf, Places
    <3> QED
      BY <1>3, <3>1, <3>2 DEF SyncInv, NumberedOK
  <2>2. CASE v = w
    <3>0. fresh'[v] = Tail(f) /\ i \in 1 .. Len(Tail(f))
      BY <1>4, <2>2
    <3>1. fresh'[v] = Tail(f) /\ i \in 1 .. Len(Tail(f)) /\ i + 1 \in 1 .. Len(f)
          /\ Tail(f)[i] = f[i + 1]
      BY <1>2, <3>0
    <3>2. f[i + 1].topic \in LocalTopic /\ f[i + 1].topic \in Topic
      BY <3>1 DEF LocalTopic
    <3>3. f[i + 1].version = committed[f[i + 1].topic] - Ahead(f, f[i + 1].topic, i + 1)
      BY <3>1, <3>2 DEF SyncInv, NumberedOK, f
    <3>4. Ahead(fresh[v], fresh[v][i].topic, i)' = Ahead(Tail(f), f[i + 1].topic, i)
      BY <3>1 DEF Ahead, TopicsOf, Places
    <3>5. Ahead(Tail(f), f[i + 1].topic, i) = Ahead(f, f[i + 1].topic, i + 1)
      BY <1>1, <3>1, <3>2, AheadIs
    <3> QED
      BY <1>3, <3>1, <3>3, <3>4, <3>5
  <2> QED
    BY <2>1, <2>2
<1>7. ASSUME NEW s \in (FirstLive \cap SyncSub)', ~ degraded'[s], NEW t \in Pattern[s] \cap LocalTopic
      PROVE  SeenOK(s, t)'
  <2>1. s \in FirstLive \cap SyncSub /\ s \in Sub /\ t \in Topic /\ t # SystemTopic /\ s \notin panics
    BY <1>3, <1>5, <1>7, SubAssumption DEF LocalTopic
  <2>2. SeenOK(s, t) /\ ~ degraded[s]
    BY <1>3, <1>7, <2>1 DEF SyncInv
  <2>3. Awaited(t) = Ahead(f, t, 1) /\ Awaited(t)' = Ahead(Tail(f), t, 1)
    <3>1. w # None
      BY WriterAssumption
    <3>2. Awaited(t)' = Ahead(Tail(f), t, 1)
      BY <1>3, <1>4, <3>1 DEF Awaited, Ahead, TopicsOf, Places
    <3> QED
      BY <1>3, <3>1, <3>2 DEF Awaited, f
  <2>4. /\ Ahead(f, t, 1) = Ahead(Tail(f), t, 1) + (IF e.topic = t THEN 1 ELSE 0)
        /\ Ahead(Tail(f), t, 1) \in Nat
    BY <1>1, <2>1, AheadIs DEF e
  <2>5. committed[t] \in Nat /\ seed[s][t] \in Int /\ received[s][t] \in Seq(Nat)
    BY <2>1, SubTypes DEF IInv
  <2>6. CASE e.topic # t
    <3>1. received'[s][t] = received[s][t]
      BY <1>3, <2>1, <2>6 DEF IInv, TypeOK
    <3>2. Awaited(t)' = Awaited(t)
      BY <2>3, <2>4, <2>6
    <3>3. SeenOK(s, t) /\ committed' = committed /\ seed' = seed
      BY <1>3, <2>2
    <3> QED
      BY <3>1, <3>2, <3>3 DEF SeenOK
  <2>7. CASE e.topic = t
    <3>1. s \in Matching(t) \cap SyncSub
      BY <2>1, <2>2 DEF Matching, Live, FirstLive
    <3>2. received'[s][t] = Append(received[s][t], e.version)
      BY <1>3, <2>1, <2>7, <3>1 DEF IInv, TypeOK
    <3>3. e.version = committed[t] - Ahead(f, t, 1)
      <4>1. 1 \in 1 .. Len(f) /\ f[1].topic = t
        BY <1>2, <2>7
      <4> QED
        BY <1>2, <4>1 DEF SyncInv, NumberedOK, f
    <3> DEFINE r == received[s][t]
    <3>4. /\ Len(Append(r, e.version)) = Len(r) + 1 /\ Append(r, e.version)[Len(r) + 1] = e.version
          /\ \A i \in 1 .. Len(r) : Append(r, e.version)[i] = r[i]
          /\ Len(r) \in Nat
      BY <2>5
    <3>5. Len(r) = committed[t] - 1 - seed[s][t] - Ahead(f, t, 1)
          /\ \A i \in 1 .. Len(r) : r[i] = seed[s][t] + i
      BY <2>2, <2>3 DEF SeenOK
    <3> HIDE DEF r
    <3>6. Len(r) + 1 = committed[t] - 1 - seed[s][t] - Ahead(Tail(f), t, 1)
          /\ e.version = seed[s][t] + Len(r) + 1
      BY <2>4, <2>5, <2>7, <3>3, <3>5
    <3>7. \A i \in 1 .. (Len(r) + 1) : Append(r, e.version)[i] = seed[s][t] + i
      <4> SUFFICES ASSUME NEW i \in 1 .. (Len(r) + 1) PROVE Append(r, e.version)[i] = seed[s][t] + i
        OBVIOUS
      <4>1. CASE i \in 1 .. Len(r)
        BY <3>4, <3>5, <4>1
      <4>2. CASE i = Len(r) + 1
        <5>1. Append(r, e.version)[i] = e.version
          BY <3>4, <4>2
        <5>2. seed[s][t] + i = seed[s][t] + Len(r) + 1
          <6>1. \A a \in Int, b \in Nat : a + (b + 1) = a + b + 1
            OBVIOUS
          <6>2. seed[s][t] \in Int /\ Len(r) \in Nat
            BY <2>5, <3>4
          <6> QED
            BY <4>2, <6>1, <6>2
        <5> QED
          BY <3>6, <5>1, <5>2
      <4> QED
        BY <3>4, <4>1, <4>2
    <3> QED
      BY <1>3, <2>3, <3>2, <3>4, <3>6, <3>7 DEF SeenOK, r
  <2> QED
    BY <2>6, <2>7
<1> QED
  BY <1>5, <1>6, <1>7 DEF SyncInv

LEMMA NextSync ==
  ASSUME IInv, IInv', SyncInv, [Next]_vars PROVE SyncInv'
<1>1. SystemTopic \notin LocalTopic /\ LocalTopic \subseteq Topic /\ LocalTopic \cap RemoteWrites = {}
  BY DEF LocalTopic
<1>2. ASSUME UNCHANGED <<committed, lock, fresh, received>> PROVE SyncInv'
  BY <1>2, QuietSync
<1>3. ASSUME NEW u \in Topic \ LocalTopic, committed' = [committed EXCEPT ![u] = @ + 1],
             UNCHANGED <<lock, fresh, received>>
      PROVE  SyncInv'
  <2>1. \A t \in LocalTopic : committed'[t] = committed[t]
    BY <1>1, <1>3 DEF IInv, TypeOK
  <2> QED
    BY <1>3, <2>1, QuietSync
<1>4. ASSUME NEW w \in Writer, Write(w) PROVE SyncInv'
  <2>1. CASE Enter(w) \/ Refuse(w) \/ SendEvent(w) \/ Return(w) \/ \E r \in panicked[w] : SendReport(w, r)
    BY <1>2, <2>1 DEF Enter, Refuse, SendEvent, SendReport, Return
  <2>2. CASE Unlock(w)
    <3>1. /\ lock = w /\ lock' = None /\ fresh[w] = << >> /\ w # None
          /\ UNCHANGED <<committed, fresh, received, seed, status, degraded>>
      BY <2>2, WriterAssumption DEF Unlock, IInv, LocksOK, registryVars
    <3>2. \A t \in Topic : Awaited(t) = 0 /\ Awaited(t)' = 0
      <4>1. \A t \in Topic : Ahead(<< >>, t, 1) = 0
        <5>1. << >> \in Seq(Event)
          OBVIOUS
        <5> QED
          BY <5>1, AheadIs
      <4> QED
        BY <3>1, <4>1 DEF Awaited
    <3>3. AnnouncedOK' /\ FirstLive' \subseteq FirstLive
      BY AnnouncedKept DEF IInv, SyncInv
    <3>4. NumberedOK'
      <4> SUFFICES ASSUME NEW v \in Writer, NEW i \in 1 .. Len(fresh'[v]),
                          fresh'[v][i].topic \in LocalTopic
                   PROVE  fresh'[v][i].version = committed'[fresh'[v][i].topic]
                                                   - Ahead(fresh[v], fresh[v][i].topic, i)'
        BY DEF NumberedOK
      <4>1. Ahead(fresh[v], fresh[v][i].topic, i)' = Ahead(fresh[v], fresh[v][i].topic, i)
        BY <3>1 DEF Ahead, TopicsOf, Places
      <4> QED
        BY <3>1, <4>1 DEF SyncInv, NumberedOK
    <3>5. ASSUME NEW s \in (FirstLive \cap SyncSub)', ~ degraded'[s],
                 NEW t \in Pattern[s] \cap LocalTopic
          PROVE  SeenOK(s, t)'
      <4>1. SeenOK(s, t) /\ t \in Topic
        BY <1>1, <3>1, <3>3, <3>5 DEF SyncInv
      <4> QED
        BY <3>1, <3>2, <4>1 DEF SeenOK
    <3> QED
      BY <3>3, <3>4, <3>5 DEF SyncInv
  <2> QED
    BY <1>4, <2>1, <2>2, CommitSync, DispatchSyncSync DEF Write
<1>5. ASSUME NEW t \in RemoteWrites, RemoteCommit(t) PROVE SyncInv'
  BY <1>1, <1>3, <1>5, WriterAssumption DEF RemoteCommit, writerVars
<1>6. ASSUME NEW s \in Sub, Subscription(s) \/ HandlerDies(s) PROVE SyncInv'
  BY <1>2, <1>6 DEF Subscription, Seed, Register, Unsubscribe, HandlerDies, writerVars
<1>7. ASSUME NEW x \in Sub, Handle(x) PROVE SyncInv'
  <2>1. x \notin SyncSub /\ UNCHANGED <<committed, lock, fresh, seed, status, degraded>>
    BY <1>7 DEF Handle, IInv, BeforeOK, writerVars, registryVars
  <2>2. \A s \in Sub : s # x => received'[s] = received[s]
    BY <1>7 DEF Handle, IInv, TypeOK
  <2>3. AnnouncedOK' /\ FirstLive' \subseteq FirstLive
    BY AnnouncedKept DEF IInv, SyncInv
  <2>4. NumberedOK'
    <3> SUFFICES ASSUME NEW v \in Writer, NEW i \in 1 .. Len(fresh'[v]),
                        fresh'[v][i].topic \in LocalTopic
                 PROVE  fresh'[v][i].version = committed'[fresh'[v][i].topic]
                                                 - Ahead(fresh[v], fresh[v][i].topic, i)'
      BY DEF NumberedOK
    <3>1. Ahead(fresh[v], fresh[v][i].topic, i)' = Ahead(fresh[v], fresh[v][i].topic, i)
      BY <2>1 DEF Ahead, TopicsOf, Places
    <3> QED
      BY <2>1, <3>1 DEF SyncInv, NumberedOK
  <2>5. ASSUME NEW s \in (FirstLive \cap SyncSub)', ~ degraded'[s],
               NEW t \in Pattern[s] \cap LocalTopic
        PROVE  SeenOK(s, t)'
    <3>1. SeenOK(s, t) /\ received'[s] = received[s]
      BY <2>1, <2>2, <2>3, <2>5, SubAssumption DEF SyncInv
    <3>2. Awaited(t)' = Awaited(t)
      BY <2>1 DEF Awaited, Ahead, TopicsOf, Places
    <3> QED
      BY <2>1, <3>1, <3>2 DEF SeenOK
  <2> QED
    BY <2>3, <2>4, <2>5 DEF SyncInv
<1>8. CASE Dispatcher
  <2>1. ASSUME NEW r, Emitted(r), UNCHANGED <<lock, fresh, received>> PROVE SyncInv'
    BY <1>1, <1>2, <1>3, <2>1, TopicAssumption DEF Emitted
  <2> QED
    BY <1>2, <1>8, <2>1 DEF Dispatcher, SkipSystem, Dispatch, Advance, EmitOverflow, EmitPanic,
         Receive, writerVars
<1>9. CASE Watcher \/ MissNotice \/ UNCHANGED vars
  BY <1>2, <1>9 DEF Watcher, Wake, Snapshot, Fetch, SendFetched, ScanDone, MissNotice, vars,
       writerVars
<1> QED
  BY <1>4, <1>5, <1>6, <1>7, <1>8, <1>9 DEF Next

\* Whenever the mutex is free, a Synchronous subscription that was made before the first
\* append has seen exactly the events that threads of this process committed.
THEOREM SyncConsistentHolds == Spec => []SyncConsistent
<1>1. IInv /\ SyncInv => SyncConsistent
  <2> SUFFICES ASSUME IInv, SyncInv, NEW s \in InitialSub \cap SyncSub,
                      NEW t \in Pattern[s] \ (RemoteWrites \cup {SystemTopic}),
                      lock = None, status[s] = "live", ~ degraded[s]
               PROVE  received[s][t] = [i \in 1 .. (committed[t] - 1 - seed[s][t]) |-> seed[s][t] + i]
    BY DEF SyncConsistent, SeenAll
  <2>1. s \in FirstLive \cap SyncSub /\ t \in Pattern[s] \cap LocalTopic /\ s \in Sub /\ t \in Topic
    BY SubAssumption DEF FirstLive, LocalTopic
  <2>2. SeenOK(s, t) /\ Awaited(t) = 0
    BY <2>1 DEF SyncInv, Awaited
  <2>3. seed[s] \in [Topic -> Nat \cup {-1}] /\ received[s][t] \in Seq(Nat)
    BY <2>1 DEF IInv, TypeOK
  <2>4. committed[t] \in Nat /\ seed[s][t] \in Int
    BY <2>1, <2>3 DEF IInv, TypeOK
  <2> DEFINE r == received[s][t]
  <2>5. Len(r) = committed[t] - 1 - seed[s][t] /\ \A i \in 1 .. Len(r) : r[i] = seed[s][t] + i
    BY <2>2, <2>4 DEF SeenOK
  <2>6. r = [i \in 1 .. Len(r) |-> r[i]]
    BY <2>3
  <2> QED
    BY <2>5, <2>6
<1>2. IInv /\ IInv' /\ SyncInv /\ [Next]_vars => SyncInv'
  BY NextSync
<1> QED
  BY <1>1, <1>2, Invariant, InitSync, PTL DEF Spec

-----------------------------------------------------------------------------
(* Nothing is skipped: while each topic has one appending thread or         *)
(* process, the channels hold every event after what a subscription has.    *)

\* A feed that stands at version p of topic t may get version v next, or is preceded
\* in S by the event before it.
Follows(p, t, v, S) == v <= p + 1 \/ [topic |-> t, version |-> v - 1] \in S

Prior(f, i) == {f[j] : j \in 1 .. (i - 1)}

\* The events of t in f follow one another, the first of them one of S.
Chained(f, S, p, t) ==
  \A i \in 1 .. Len(f) : f[i].topic = t => Follows(p, t, f[i].version, S \cup Prior(f, i))

\* A later position stands for the events up to it.
LEMMA Absorbed ==
  ASSUME NEW f \in Seq(Event), NEW S, NEW R, NEW p \in Int, NEW q \in Int, NEW t, p <= q,
         \A e \in S : e \in R \/ (e.topic = t => e.version <= q)
  PROVE  /\ Chained(f, S, p, t) => Chained(f, R, q, t)
         /\ \A v \in Int : Follows(p, t, v, S) => Follows(q, t, v, R)
<1>1. ASSUME NEW v \in Int, NEW X, Follows(p, t, v, S \cup X) PROVE Follows(q, t, v, R \cup X)
  <2>1. CASE v <= p + 1
    BY <2>1 DEF Follows
  <2>2. CASE [topic |-> t, version |-> v - 1] \in S \cup X
    <3> DEFINE e == [topic |-> t, version |-> v - 1]
    <3>1. CASE e \in R \cup X
      BY <3>1 DEF Follows
    <3>2. CASE e \notin R \cup X
      <4>1. e.topic = t /\ e.version = v - 1 /\ e \in S
        BY <2>2, <3>2
      <4>2. v - 1 <= q
        BY <3>2, <4>1
      <4> QED
        BY <4>2 DEF Follows
    <3> QED
      BY <3>1, <3>2
  <2> QED
    BY <1>1, <2>1, <2>2 DEF Follows
<1>2. ASSUME Chained(f, S, p, t) PROVE Chained(f, R, q, t)
  <2> SUFFICES ASSUME NEW i \in 1 .. Len(f), f[i].topic = t
               PROVE  Follows(q, t, f[i].version, R \cup Prior(f, i))
    BY DEF Chained
  <2>1. f[i].version \in Int
    BY EventsIn
  <2>2. Follows(p, t, f[i].version, S \cup Prior(f, i))
    BY <1>2 DEF Chained
  <2> QED
    BY <1>1, <2>1, <2>2
<1>3. ASSUME NEW v \in Int, Follows(p, t, v, S) PROVE Follows(q, t, v, R)
  <2>1. Follows(p, t, v, S \cup {})
    BY <1>3 DEF Follows
  <2>2. Follows(q, t, v, R \cup {})
    BY <1>1, <2>1
  <2> QED
    BY <2>2 DEF Follows
<1> QED
  BY <1>2, <1>3

LEMMA ChainedAppend ==
  ASSUME NEW f \in Seq(Event), NEW S, NEW p, NEW t, NEW e \in Event, Chained(f, S, p, t),
         e.topic = t => Follows(p, t, e.version, S \cup Items(f))
  PROVE  Chained(Append(f, e), S, p, t)
<1> DEFINE g == Append(f, e)
<1>1. Len(f) \in Nat /\ Len(g) = Len(f) + 1 /\ g[Len(f) + 1] = e
      /\ \A i \in 1 .. Len(f) : g[i] = f[i]
  OBVIOUS
<1> HIDE DEF g
<1>2. ASSUME NEW i \in 1 .. Len(f) PROVE Prior(g, i) = Prior(f, i)
  BY <1>1 DEF Prior
<1>3. Prior(g, Len(f) + 1) = Items(f)
  BY <1>1 DEF Prior, Items
<1> SUFFICES ASSUME NEW i \in 1 .. Len(g), g[i].topic = t
             PROVE  Follows(p, t, g[i].version, S \cup Prior(g, i))
  BY DEF Chained, g
<1>4. CASE i \in 1 .. Len(f)
  BY <1>1, <1>2, <1>4 DEF Chained
<1>5. CASE i = Len(f) + 1
  BY <1>1, <1>3, <1>5
<1>6. i \in 1 .. Len(f) \/ i = Len(f) + 1
  BY <1>1
<1> QED
  BY <1>4, <1>5, <1>6

LEMMA ChainedTail ==
  ASSUME NEW f \in Seq(Event), f # << >>, NEW S, NEW p, NEW t, Chained(f, S, p, t)
  PROVE  /\ Chained(Tail(f), S \cup {Head(f)}, p, t)
         /\ Head(f).topic = t => Follows(p, t, Head(f).version, S)
<1> DEFINE g == Tail(f)
           e == Head(f)
<1>1. Len(f) \in Nat /\ Len(f) >= 1 /\ e = f[1] /\ Len(g) = Len(f) - 1
      /\ \A i \in 1 .. (Len(f) - 1) : g[i] = f[i + 1]
  BY HeadIs
<1> HIDE DEF g, e
<1>2. e.topic = t => Follows(p, t, e.version, S)
  <2>1. 1 \in 1 .. Len(f) /\ Prior(f, 1) = {}
    BY <1>1 DEF Prior
  <2> QED
    BY <1>1, <2>1 DEF Chained, Follows
<1>3. ASSUME NEW i \in 1 .. Len(g), g[i].topic = t
      PROVE  Follows(p, t, g[i].version, (S \cup {e}) \cup Prior(g, i))
  <2>1. i + 1 \in 1 .. Len(f) /\ g[i] = f[i + 1]
    BY <1>1
  <2>2. Prior(f, i + 1) \subseteq {e} \cup Prior(g, i)
    <3> SUFFICES ASSUME NEW j \in 1 .. i PROVE f[j] \in {e} \cup Prior(g, i)
      BY <1>1 DEF Prior
    <3>1. CASE j = 1
      BY <1>1, <3>1
    <3>2. CASE j # 1
      <4>1. j - 1 \in 1 .. (i - 1) /\ g[j - 1] = f[j]
        BY <1>1, <3>2
      <4> QED
        BY <4>1 DEF Prior
    <3> QED
      BY <3>1, <3>2
  <2>3. Follows(p, t, g[i].version, S \cup Prior(f, i + 1))
    BY <1>3, <2>1 DEF Chained
  <2> QED
    BY <2>2, <2>3 DEF Follows
<1> QED
  BY <1>2, <1>3 DEF Chained, g, e

LEMMA ItemsTail ==
  ASSUME NEW q \in Seq(Event), q # << >>
  PROVE  Items(q) = {Head(q)} \cup Items(Tail(q))
<1>1. Head(q) \in Items(q) /\ Items(Tail(q)) \subseteq Items(q)
  BY ItemsAre
<1>2. Len(q) \in Nat /\ Head(q) = q[1] /\ Len(Tail(q)) = Len(q) - 1
      /\ \A i \in 1 .. (Len(q) - 1) : Tail(q)[i] = q[i + 1]
  BY HeadIs
<1>3. ASSUME NEW i \in 1 .. Len(q) PROVE q[i] \in {Head(q)} \cup Items(Tail(q))
  <2>1. CASE i = 1
    BY <1>2, <2>1
  <2>2. CASE i # 1
    <3>1. i - 1 \in 1 .. Len(Tail(q)) /\ Tail(q)[i - 1] = q[i]
      BY <1>2, <2>2
    <3> QED
      BY <3>1 DEF Items
  <2> QED
    BY <2>1, <2>2
<1> QED
  BY <1>1, <1>3 DEF Items

\* Each topic has one appending thread, or other processes append to it.
OneSource ==
  \A t \in Topic \ {SystemTopic} :
    /\ \A v, w \in Writer : t \in Writes[v] /\ t \in Writes[w] => v = w
    /\ t \in RemoteWrites => \A w \in Writer : t \notin Writes[w]

\* Every subscription is made before the first append, and one with a wildcard finds
\* events in all the topics it matches.
FromTheStart ==
  /\ InitialSub = Sub
  /\ \A s \in GlobSub : \A t \in Pattern[s] \ {SystemTopic} : InitialEvents[t] > 0

\* The feeds that can move on.
Fed == {s \in Live \cap PostCommitSub : ~ degraded[s] /\ alive[s]}

\* The events of a topic that threads of this process append to, on their way to the
\* dispatcher.
Underway(t) ==
  Items(dispatch)
    \cup UNION {Items(pending[w]) \cup Items(fresh[w]) : w \in {v \in Writer : t \in Writes[v]}}

\* On each way to the dispatcher the events that s lacks follow one another, and a scan
\* starts no later than where s stands.
NoHole(s, t) ==
  /\ Chained(dispatch, {}, Position(s, t), t)
  /\ Chained(fetched, Items(dispatch), Position(s, t), t)
  /\ spc = "scan" /\ t \in DOMAIN group => group[t] <= Position(s, t)
  /\ \A w \in Writer :
       /\ Chained(pending[w], Items(dispatch), Position(s, t), t)
       /\ Chained(fresh[w], Items(dispatch) \cup Items(pending[w]), Position(s, t), t)
  /\ t \notin RemoteWrites => Follows(Position(s, t), t, committed[t], Underway(t))

FeedInv ==
  /\ AnnouncedOK
  /\ \A s \in Sub : status[s] = "closed" => \A t \in Topic : cursor[s][t] = -1
  /\ \A s \in GlobSub : status[s] = "live" => Pattern[s] \ {SystemTopic} \subseteq known[s]
  /\ \A s \in Fed : \A t \in Pattern[s] \ {SystemTopic} : NoHole(s, t)

\* Only the first pass of dispatch_post_commit moves a feed.
LEMMA PositionKept ==
  ASSUME IInv, IInv', AnnouncedOK, InitialSub = Sub, [Next]_vars, ~ Dispatch, NEW s \in Sub,
         status'[s] = "live", NEW t \in Topic
  PROVE  status[s] = "live" /\ Position(s, t)' = Position(s, t)
<1>1. CASE UNCHANGED <<status, cursor, event, delivered>>
  BY <1>1 DEF Position
<1>2. CASE UNCHANGED feedVars
  BY <1>1, <1>2 DEF feedVars, registryVars
<1>3. ASSUME NEW w \in Writer, NEW panics, DispatchSync(w, panics)
      PROVE  UNCHANGED <<status, cursor, event, delivered>>
  BY <1>3 DEF DispatchSync, dispatcherVars
<1>4. ASSUME NEW x \in Sub, Handle(x) \/ HandlerDies(x)
      PROVE  UNCHANGED <<status, cursor, event, delivered>>
  BY <1>4 DEF Handle, HandlerDies, registryVars, dispatcherVars
<1>5. ASSUME NEW x \in Sub, Seed(x) \/ Register(x) PROVE FALSE
  BY <1>5 DEF Seed, Register, AnnouncedOK
<1>6. ASSUME NEW x \in Sub, Unsubscribe(x)
      PROVE  status[s] = "live" /\ Position(s, t)' = Position(s, t)
  <2>1. s # x
    BY <1>6 DEF Unsubscribe, IInv, TypeOK
  <2>2. status'[s] = status[s] /\ cursor'[s] = cursor[s] /\ UNCHANGED <<event, delivered>>
    BY <1>6, <2>1 DEF Unsubscribe, IInv, TypeOK, dispatcherVars
  <2> QED
    BY <2>2 DEF Position
<1>7. CASE Advance \/ Receive
  <2>1. status[s] = "live"
    BY <1>7 DEF Advance, Receive, registryVars
  <2> QED
    BY <1>7, <2>1, AdvancePosition DEF IInv
<1> QED
  BY <1>1, <1>2, <1>3, <1>4, <1>5, <1>6, <1>7, Steps

LEMMA FedStays ==
  ASSUME IInv, IInv', AnnouncedOK, InitialSub = Sub, [Next]_vars
  PROVE  Fed' \subseteq Fed
<1> SUFFICES ASSUME NEW s \in Fed' PROVE s \in Fed
  OBVIOUS
<1>1. s \in Sub /\ s \in PostCommitSub /\ status'[s] = "live" /\ ~ degraded'[s] /\ alive'[s]
  BY DEF Fed, Live
<1>2. status[s] = "live"
  <2>1. CASE Dispatch
    BY <1>1, <2>1 DEF Dispatch
  <2>2. CASE ~ Dispatch
    BY <1>1, <2>2, PositionKept, TopicAssumption
  <2> QED
    BY <2>1, <2>2
<1>3. ~ degraded[s]
  BY <1>1, DegradedStays DEF IInv
<1>4. alive[s]
  <2>1. CASE alive' = alive
    BY <1>1, <2>1
  <2>2. ASSUME NEW x \in Sub, HandlerDies(x) PROVE alive[s]
    BY <1>1, <2>2 DEF HandlerDies, IInv, TypeOK
  <2>3. ASSUME NEW x \in Sub, Seed(x) \/ Register(x) \/ Unsubscribe(x) \/ Handle(x)
        PROVE  alive' = alive
    BY <2>3 DEF Seed, Register, Unsubscribe, Handle
  <2>4. ASSUME NEW w \in Writer, NEW panics, DispatchSync(w, panics) PROVE alive' = alive
    BY <2>4 DEF DispatchSync
  <2>5. CASE Dispatch \/ Advance \/ Receive \/ UNCHANGED feedVars
    BY <2>1, <2>5 DEF Dispatch, Advance, Receive, feedVars
  <2> QED
    BY <2>1, <2>2, <2>3, <2>4, <2>5, Steps
<1> QED
  BY <1>1, <1>2, <1>3, <1>4 DEF Fed, Live

\* A step that leaves the channels to the dispatcher alone.
LEMMA QuietHole ==
  ASSUME NEW s, NEW t, NoHole(s, t), UNCHANGED <<dispatch, fetched, fresh, pending, spc, group>>,
         Position(s, t)' = Position(s, t), t \in RemoteWrites \/ committed'[t] = committed[t]
  PROVE  NoHole(s, t)'
<1>1. Underway(t)' = Underway(t)
  BY DEF Underway
<1> QED
  BY <1>1 DEF NoHole

\* The types of what NoHole is about.
LEMMA HoleTypes ==
  ASSUME IInv, IInv', NEW s \in Sub, NEW t \in Topic
  PROVE  /\ dispatch \in Seq(Event) /\ fetched \in Seq(Event)
         /\ \A w \in Writer : pending[w] \in Seq(Event) /\ fresh[w] \in Seq(Event)
         /\ Position(s, t) \in Int /\ Position(s, t)' \in Int
         /\ committed[t] \in Nat /\ committed'[t] \in Nat
<1>1. /\ dispatch \in Seq(Event) /\ fetched \in Seq(Event)
      /\ \A w \in Writer : pending[w] \in Seq(Event) /\ fresh[w] \in Seq(Event)
  BY DEF IInv, TypeOK
<1>2. TypeOK /\ TypeOK'
  BY DEF IInv
<1>3. /\ Position(s, t) \in Nat \cup {-1} /\ Position(s, t)' \in Nat \cup {-1}
      /\ committed[t] \in Nat /\ committed'[t] \in Nat
  BY <1>2, SubTypes
<1> QED
  BY <1>1, <1>3

\* A writer puts an event on the channel.
LEMMA SendHole ==
  ASSUME IInv, IInv', NEW s \in Sub, NEW t \in Topic, NoHole(s, t),
         Position(s, t)' = Position(s, t), NEW w \in Writer, SendEvent(w)
  PROVE  NoHole(s, t)'
<1> DEFINE e == Head(pending[w])
           p == Position(s, t)
           D == Items(dispatch)
<1>1. /\ pending[w] # << >> /\ dispatch' = Append(dispatch, e)
      /\ UNCHANGED <<fetched, fresh, spc, group, committed>>
      /\ \A v \in Writer : pending'[v] = IF v = w THEN Tail(pending[w]) ELSE pending[v]
  BY DEF SendEvent, IInv, TypeOK, scanVars
<1>2. /\ dispatch \in Seq(Event) /\ fetched \in Seq(Event) /\ p \in Int
      /\ \A v \in Writer : pending[v] \in Seq(Event) /\ fresh[v] \in Seq(Event)
      /\ committed[t] \in Nat
  BY HoleTypes
<1>3. /\ e \in Event /\ Tail(pending[w]) \in Seq(Event)
      /\ Items(pending[w]) = {e} \cup Items(Tail(pending[w]))
  BY <1>1, <1>2, HeadIs, ItemsTail
<1>4. Items(dispatch') = D \cup {e}
  BY <1>1, <1>2, <1>3, ItemsAre
<1>5. /\ Chained(Tail(pending[w]), D \cup {e}, p, t)
      /\ e.topic = t => Follows(p, t, e.version, D)
  BY <1>1, <1>2, ChainedTail DEF NoHole
<1> HIDE DEF e, p, D
<1>6. Chained(dispatch', {}, p, t)
  <2>1. Chained(dispatch, {}, p, t) /\ D = {} \cup D
    BY DEF NoHole, p
  <2> QED
    BY <1>1, <1>2, <1>3, <1>5, <2>1, ChainedAppend DEF D
<1>7. ASSUME NEW f \in Seq(Event), NEW S, NEW R, S \subseteq R, Chained(f, S, p, t)
      PROVE  Chained(f, R, p, t)
  BY <1>2, <1>7, Absorbed
<1>8. Chained(fetched', Items(dispatch'), p, t)
  BY <1>1, <1>2, <1>4, <1>7 DEF NoHole, p, D
<1>9. ASSUME NEW v \in Writer
      PROVE  /\ Chained(pending'[v], Items(dispatch'), p, t)
             /\ Chained(fresh'[v], Items(dispatch') \cup Items(pending'[v]), p, t)
             /\ Items(pending[v]) \subseteq Items(dispatch') \cup Items(pending'[v])
  <2>1. Chained(pending[v], D, p, t) /\ Chained(fresh[v], D \cup Items(pending[v]), p, t)
    BY DEF NoHole, p, D
  <2>2. Items(pending[v]) \subseteq Items(dispatch') \cup Items(pending'[v])
    BY <1>1, <1>3, <1>4
  <2>3. Chained(fresh'[v], Items(dispatch') \cup Items(pending'[v]), p, t)
    BY <1>1, <1>2, <1>4, <1>7, <2>1, <2>2
  <2>4. Chained(pending'[v], Items(dispatch'), p, t)
    BY <1>1, <1>2, <1>4, <1>5, <1>7, <2>1
  <2> QED
    BY <2>2, <2>3, <2>4
<1>10. ASSUME t \notin RemoteWrites PROVE Follows(p, t, committed'[t], Underway(t)')
  <2>1. Underway(t) \subseteq Underway(t)'
    <3> SUFFICES ASSUME NEW x \in Underway(t) PROVE x \in Underway(t)'
      OBVIOUS
    <3>1. CASE x \in Items(dispatch)
      BY <1>4, <3>1 DEF Underway, D
    <3>2. CASE \E v \in Writer : t \in Writes[v] /\ x \in Items(pending[v]) \cup Items(fresh[v])
      <4>1. PICK v \in Writer : t \in Writes[v] /\ x \in Items(pending[v]) \cup Items(fresh[v])
        BY <3>2
      <4>2. x \in Items(dispatch') \cup Items(pending'[v]) \cup Items(fresh'[v])
        BY <1>1, <1>9, <4>1
      <4> QED
        BY <4>1, <4>2 DEF Underway
    <3> QED
      BY <3>1, <3>2 DEF Underway
  <2>2. Follows(p, t, committed[t], Underway(t))
    BY <1>10 DEF NoHole, p
  <2> QED
    BY <1>1, <2>1, <2>2 DEF Follows
<1> QED
  BY <1>1, <1>6, <1>8, <1>9, <1>10 DEF NoHole, p

\* A writer has run the Synchronous handlers of an event.
LEMMA DispatchSyncHole ==
  ASSUME IInv, IInv', NEW s \in Sub, NEW t \in Topic \ {SystemTopic}, NoHole(s, t),
         Position(s, t)' = Position(s, t), NEW w \in Writer, NEW panics, DispatchSync(w, panics)
  PROVE  NoHole(s, t)'
<1> DEFINE e == Head(fresh[w])
           p == Position(s, t)
           D == Items(dispatch)
<1>1. /\ fresh[w] # << >> /\ UNCHANGED <<dispatch, fetched, spc, group, committed>>
      /\ \A v \in Writer :
           /\ fresh'[v] = IF v = w THEN Tail(fresh[w]) ELSE fresh[v]
           /\ pending'[v] = IF v = w /\ e.topic # SystemTopic THEN Append(pending[w], e)
                            ELSE pending[v]
  BY DEF DispatchSync, IInv, TypeOK, scanVars
<1>2. /\ dispatch \in Seq(Event) /\ p \in Int
      /\ \A v \in Writer : pending[v] \in Seq(Event) /\ fresh[v] \in Seq(Event)
      /\ committed[t] \in Nat
  BY HoleTypes
<1>3. /\ e \in Event /\ Tail(fresh[w]) \in Seq(Event)
      /\ Items(fresh[w]) = {e} \cup Items(Tail(fresh[w]))
  BY <1>1, <1>2, HeadIs, ItemsTail
<1>4. \A v \in Writer : Items(pending'[v]) = Items(pending[v])
                          \cup (IF v = w /\ e.topic # SystemTopic THEN {e} ELSE {})
  BY <1>1, <1>2, <1>3, ItemsAre
<1>5. /\ Chained(Tail(fresh[w]), (D \cup Items(pending[w])) \cup {e}, p, t)
      /\ e.topic = t => Follows(p, t, e.version, D \cup Items(pending[w]))
  BY <1>1, <1>2, ChainedTail DEF NoHole
<1> HIDE DEF e, p, D
<1>6. ASSUME NEW v \in Writer PROVE Chained(pending'[v], D, p, t)
  <2>1. Chained(pending[v], D, p, t)
    BY DEF NoHole, p, D
  <2> QED
    BY <1>1, <1>2, <1>3, <1>5, <2>1, ChainedAppend
<1>7. ASSUME NEW v \in Writer PROVE Chained(fresh'[v], D \cup Items(pending'[v]), p, t)
  <2>1. CASE v # w
    <3>1. fresh'[v] = fresh[v] /\ pending'[v] = pending[v]
      BY <1>1, <2>1
    <3> QED
      BY <3>1 DEF NoHole, p, D
  <2>2. CASE v = w
    <3>1. \A x \in (D \cup Items(pending[w])) \cup {e} :
            x \in D \cup Items(pending'[w]) \/ (x.topic = t => x.version <= p)
      BY <1>4
    <3> DEFINE S == (D \cup Items(pending[w])) \cup {e}
               R == D \cup Items(pending'[w])
               g == Tail(fresh[w])
    <3>2. p <= p /\ g \in Seq(Event) /\ Chained(g, S, p, t)
      BY <1>2, <1>3, <1>5
    <3> HIDE DEF S, R, g
    <3>3. \A x \in S : x \in R \/ (x.topic = t => x.version <= p)
      BY <3>1 DEF S, R
    <3>4. Chained(g, R, p, t)
      BY <1>2, <3>2, <3>3, Absorbed
    <3> QED
      BY <1>1, <2>2, <3>4 DEF g, R
  <2> QED
    BY <2>1, <2>2
<1>8. ASSUME t \notin RemoteWrites PROVE Follows(p, t, committed'[t], Underway(t)')
  <2>1. \A x \in Underway(t) : ~ (x = e /\ e.topic = SystemTopic) => x \in Underway(t)'
    <3> SUFFICES ASSUME NEW x \in Underway(t), ~ (x = e /\ e.topic = SystemTopic)
                 PROVE  x \in Underway(t)'
      OBVIOUS
    <3>1. CASE x \in Items(dispatch)
      BY <1>1, <3>1 DEF Underway
    <3>2. CASE \E v \in Writer : t \in Writes[v] /\ x \in Items(pending[v]) \cup Items(fresh[v])
      <4>1. PICK v \in Writer : t \in Writes[v] /\ x \in Items(pending[v]) \cup Items(fresh[v])
        BY <3>2
      <4>2. x \in Items(pending'[v]) \cup Items(fresh'[v])
        BY <1>1, <1>3, <1>4, <4>1
      <4> QED
        BY <4>1, <4>2 DEF Underway
    <3> QED
      BY <3>1, <3>2 DEF Underway
  <2>2. Follows(p, t, committed[t], Underway(t))
    BY <1>8 DEF NoHole, p
  <2> QED
    BY <1>1, <2>1, <2>2 DEF Follows
<1>9. Chained(dispatch', {}, p, t) /\ Chained(fetched', Items(dispatch'), p, t)
      /\ (spc' = "scan" /\ t \in DOMAIN group' => group'[t] <= p)
  BY <1>1 DEF NoHole, p
<1> QED
  BY <1>1, <1>6, <1>7, <1>8, <1>9 DEF NoHole, p, D

\* The watcher puts an event it fetched on the channel.
LEMMA SendFetchedHole ==
  ASSUME IInv, IInv', NEW s \in Sub, NEW t \in Topic, NoHole(s, t),
         Position(s, t)' = Position(s, t), SendFetched
  PROVE  NoHole(s, t)'
<1> DEFINE e == Head(fetched)
           p == Position(s, t)
           D == Items(dispatch)
<1>1. /\ fetched # << >> /\ dispatch' = Append(dispatch, e) /\ fetched' = Tail(fetched)
      /\ UNCHANGED <<fresh, pending, spc, group, committed>>
  BY DEF SendFetched, writerVars
<1>2. /\ dispatch \in Seq(Event) /\ fetched \in Seq(Event) /\ p \in Int
      /\ \A v \in Writer : pending[v] \in Seq(Event) /\ fresh[v] \in Seq(Event)
      /\ committed[t] \in Nat
  BY HoleTypes
<1>3. e \in Event /\ Tail(fetched) \in Seq(Event)
  BY <1>1, <1>2, HeadIs
<1>4. Items(dispatch') = D \cup {e}
  BY <1>1, <1>2, <1>3, ItemsAre
<1>5. /\ Chained(Tail(fetched), D \cup {e}, p, t)
      /\ e.topic = t => Follows(p, t, e.version, D)
  BY <1>1, <1>2, ChainedTail DEF NoHole
<1> HIDE DEF e, p, D
<1>6. Chained(dispatch', {}, p, t)
  <2>1. Chained(dispatch, {}, p, t) /\ D = {} \cup D
    BY DEF NoHole, p
  <2> QED
    BY <1>1, <1>2, <1>3, <1>5, <2>1, ChainedAppend DEF D
<1>7. ASSUME NEW f \in Seq(Event), NEW S, NEW R, S \subseteq R, Chained(f, S, p, t)
      PROVE  Chained(f, R, p, t)
  BY <1>2, <1>7, Absorbed
<1>8. ASSUME NEW v \in Writer
      PROVE  /\ Chained(pending'[v], Items(dispatch'), p, t)
             /\ Chained(fresh'[v], Items(dispatch') \cup Items(pending'[v]), p, t)
  <2>1. Chained(pending[v], D, p, t) /\ Chained(fresh[v], D \cup Items(pending[v]), p, t)
    BY DEF NoHole, p, D
  <2>2. Chained(pending[v], D \cup {e}, p, t)
    BY <1>2, <1>7, <2>1
  <2>3. Chained(fresh[v], (D \cup {e}) \cup Items(pending[v]), p, t)
    BY <1>2, <1>7, <2>1
  <2> QED
    BY <1>1, <1>4, <2>2, <2>3
<1>9. ASSUME t \notin RemoteWrites PROVE Follows(p, t, committed'[t], Underway(t)')
  <2>1. Underway(t) \subseteq Underway(t)'
    BY <1>1, <1>4 DEF Underway, D
  <2>2. Follows(p, t, committed[t], Underway(t))
    BY <1>9 DEF NoHole, p
  <2> QED
    BY <1>1, <2>1, <2>2 DEF Follows
<1> QED
  BY <1>1, <1>4, <1>5, <1>6, <1>8, <1>9 DEF NoHole, p

\* The dispatcher takes an event off the channel, and a feed that it is for is past it.
LEMMA TakeHole ==
  ASSUME IInv, IInv', NEW s \in Sub, NEW t \in Topic, NoHole(s, t),
         dispatch # << >>, dispatch' = Tail(dispatch),
         UNCHANGED <<fetched, fresh, pending, spc, group, committed>>,
         Position(s, t) <= Position(s, t)',
         Head(dispatch).topic = t => Head(dispatch).version <= Position(s, t)'
  PROVE  NoHole(s, t)'
<1> DEFINE e == Head(dispatch)
           p == Position(s, t)
           q == Position(s, t)'
           D == Items(dispatch)
<1>1. /\ dispatch \in Seq(Event) /\ fetched \in Seq(Event) /\ p \in Int /\ q \in Int
      /\ \A v \in Writer : pending[v] \in Seq(Event) /\ fresh[v] \in Seq(Event)
      /\ committed[t] \in Nat
  BY HoleTypes
<1>2. e \in Event /\ Tail(dispatch) \in Seq(Event) /\ D = {e} \cup Items(dispatch')
  BY <1>1, HeadIs, ItemsTail
<1>3. Chained(Tail(dispatch), {e}, p, t)
  <2>1. Chained(dispatch, {}, p, t) /\ {} \cup {e} = {e}
    BY DEF NoHole
  <2> QED
    BY <1>1, <2>1, ChainedTail
<1>4. p <= q /\ (e.topic = t => e.version <= q)
  OBVIOUS
<1> HIDE DEF e, p, q, D
<1>5. ASSUME NEW f \in Seq(Event), NEW S, NEW R, S \subseteq R \cup {e}
      PROVE  /\ Chained(f, S, p, t) => Chained(f, R, q, t)
             /\ \A v \in Int : Follows(p, t, v, S) => Follows(q, t, v, R)
  <2>1. \A x \in S : x \in R \/ (x.topic = t => x.version <= q)
    BY <1>4, <1>5
  <2> QED
    BY <1>1, <1>4, <2>1, Absorbed
<1>6. Chained(dispatch', {}, q, t)
  <2>1. {e} \subseteq {} \cup {e}
    OBVIOUS
  <2> QED
    BY <1>2, <1>3, <1>5, <2>1
<1>7. Chained(fetched, Items(dispatch'), q, t)
  <2>1. Chained(fetched, D, p, t) /\ D \subseteq Items(dispatch') \cup {e}
    BY <1>2 DEF NoHole, p, D
  <2> QED
    BY <1>1, <1>5, <2>1
<1>8. spc = "scan" /\ t \in DOMAIN group => group[t] <= q
  <2>1. spc = "scan" /\ t \in DOMAIN group => group[t] <= p /\ group[t] \in Int
    BY DEF NoHole, p, IInv, TypeOK
  <2> QED
    BY <1>1, <1>4, <2>1
<1>9. ASSUME NEW v \in Writer
      PROVE  /\ Chained(pending[v], Items(dispatch'), q, t)
             /\ Chained(fresh[v], Items(dispatch') \cup Items(pending[v]), q, t)
  <2>1. Chained(pending[v], D, p, t) /\ Chained(fresh[v], D \cup Items(pending[v]), p, t)
    BY DEF NoHole, p, D
  <2>2. /\ D \subseteq Items(dispatch') \cup {e}
        /\ D \cup Items(pending[v]) \subseteq (Items(dispatch') \cup Items(pending[v])) \cup {e}
    BY <1>2
  <2>3. Chained(pending[v], Items(dispatch'), q, t)
    BY <1>1, <1>5, <2>1, <2>2
  <2>4. Chained(fresh[v], Items(dispatch') \cup Items(pending[v]), q, t)
    BY <1>1, <1>5, <2>1, <2>2
  <2> QED
    BY <2>3, <2>4
<1>10. ASSUME t \notin RemoteWrites PROVE Follows(q, t, committed[t], Underway(t)')
  <2>1. Follows(p, t, committed[t], Underway(t))
    BY <1>10 DEF NoHole, p
  <2>2. Underway(t) \subseteq Underway(t)' \cup {e}
    BY <1>2 DEF Underway, D
  <2>3. \A v \in Int : Follows(p, t, v, Underway(t)) => Follows(q, t, v, Underway(t)')
    <3>1. << >> \in Seq(Event)
      OBVIOUS
    <3> QED
      BY <1>5, <2>2, <3>1
  <2> QED
    BY <1>1, <2>1, <2>3
<1> QED
  BY <1>6, <1>7, <1>8, <1>9, <1>10 DEF NoHole, q

\* The watcher reads the events of a topic after the version it starts from.
LEMMA FetchHole ==
  ASSUME IInv, IInv', NEW s \in Sub, NEW t \in Topic, NoHole(s, t),
         Position(s, t)' = Position(s, t), NEW u \in DOMAIN group, Fetch(u)
  PROVE  NoHole(s, t)'
<1> DEFINE p == Position(s, t)
           g == group[u]
           f == EventsAfter(u, g)
<1>1. /\ spc = "scan" /\ fetched' = f /\ group' = [x \in DOMAIN group \ {u} |-> group[x]]
      /\ UNCHANGED <<dispatch, fresh, pending, spc, committed>>
  BY DEF Fetch, writerVars
<1>2. p \in Int /\ u \in Topic /\ g \in Nat \cup {-1}
  BY HoleTypes DEF IInv, TypeOK
<1>3. f \in Seq(Event) /\ \A i \in 1 .. Len(f) : f[i] = [topic |-> u, version |-> g + i]
  BY <1>2, EventsAfterAre DEF IInv
<1>4. u = t => g <= p
  BY <1>1 DEF NoHole
<1> HIDE DEF p, g, f
<1>5. Chained(f, Items(dispatch), p, t)
  <2> SUFFICES ASSUME NEW i \in 1 .. Len(f), f[i].topic = t
               PROVE  Follows(p, t, f[i].version, Items(dispatch) \cup Prior(f, i))
    BY DEF Chained
  <2>1. f[i] = [topic |-> u, version |-> g + i] /\ Len(f) \in Nat
    BY <1>3
  <2>2. u = t /\ f[i].version = g + i /\ g <= p /\ Len(f) \in Nat
    BY <1>4, <2>1
  <2>3. CASE i = 1
    BY <1>2, <2>2, <2>3 DEF Follows
  <2>4. CASE i # 1
    <3>1. i - 1 \in 1 .. (i - 1) /\ i - 1 \in 1 .. Len(f)
      BY <2>2, <2>4
    <3>2. f[i - 1] \in Prior(f, i)
      BY <3>1 DEF Prior
    <3>3. f[i - 1] = [topic |-> t, version |-> f[i].version - 1]
      <4>1. g + (i - 1) = (g + i) - 1
        BY <1>2
      <4> QED
        BY <1>3, <2>2, <3>1, <4>1
    <3> QED
      BY <3>2, <3>3 DEF Follows
  <2> QED
    BY <2>3, <2>4
<1>6. t \in DOMAIN group' => group'[t] <= p
  BY <1>1 DEF NoHole, p
<1>7. Underway(t)' = Underway(t)
  BY <1>1 DEF Underway
<1> QED
  BY <1>1, <1>5, <1>6, <1>7 DEF NoHole, p

\* A scan starts no later than where any feed stands.
LEMMA SnapshotHole ==
  ASSUME IInv, IInv', NEW s \in Fed, NEW t \in Pattern[s], t \in Topic, NoHole(s, t),
         s \in GlobSub => t \in known[s], Position(s, t)' = Position(s, t), Snapshot
  PROVE  NoHole(s, t)'
<1>1. UNCHANGED <<dispatch, fetched, fresh, pending, committed>>
  BY DEF Snapshot, writerVars
<1>2. s \in Watching /\ s \in Sub /\ s \in PostCommitSub /\ status[s] = "live"
  BY DEF Fed, Watching, Live
<1>3. group'[t] <= ScanStart(s) /\ t \in DOMAIN group' /\ group'[t] \in Int
  BY <1>2, SnapshotIs DEF IInv
<1>4. ScanStart(s) <= cursor[s][t] /\ ScanStart(s) \in Int
  <2>1. ScanStart(s) \in Nat \cup {-1}
    BY <1>2, ScanStartIs DEF IInv
  <2>2. CASE s \in GlobSub
    BY <1>2, <2>1, <2>2, ScanStartIs DEF IInv
  <2>3. CASE s \notin GlobSub
    BY <1>2, <2>1, <2>3, ScanStartIs DEF IInv
  <2> QED
    BY <2>1, <2>2, <2>3
<1>5. cursor[s][t] \in Int /\ Position(s, t) \in Int /\ cursor[s][t] <= Position(s, t)
  <2>1. cursor[s][t] \in Int /\ Position(s, t) \in Int
    BY <1>2, SubTypes DEF IInv
  <2>2. s \in delivered /\ event.topic = t => event.version > cursor[s][t] /\ event.version \in Nat
    BY <1>2 DEF IInv, SubsOK, SubOK, TypeOK, Event
  <2> QED
    BY <2>1, <2>2 DEF Position
<1>6. group'[t] <= Position(s, t)
  BY <1>3, <1>4, <1>5
<1>7. Underway(t)' = Underway(t)
  BY <1>1 DEF Underway
<1> QED
  BY <1>1, <1>6, <1>7 DEF NoHole

\* The new events of a topic follow one another, and its next version follows them.
LEMMA NewChain ==
  ASSUME NEW n \in Nat, NEW items \in [1 .. n -> Topic], committed \in [Topic -> Nat],
         NEW p \in Int, NEW t \in Topic, NEW S, Follows(p, t, committed[t], S),
         NEW i \in 1 .. (n + 1)
  PROVE  Follows(p, t, committed[t] + Cardinality(Places(items, t, 1, i - 1)),
                 S \cup Prior(NewEvents(items), i))
<1> DEFINE f == NewEvents(items)
           c == committed[t]
           before(k) == Cardinality(Places(items, t, 1, k))
<1>1. \A k \in 1 .. n : f[k].topic = items[k]
                         /\ f[k].version = committed[items[k]] + Cardinality(Places(items, items[k], 1, k - 1))
  BY NewEventsAre
<1>2. f \in Seq(Event) /\ Len(f) = n
  BY NewEventsAre
<1>3. c \in Nat
  OBVIOUS
<1> HIDE DEF f
<1>4. CASE Places(items, t, 1, i - 1) = {}
  <2>1. before(i - 1) = 0
    BY <1>4, FS_EmptySet
  <2> QED
    BY <1>3, <2>1 DEF Follows
<1>5. CASE Places(items, t, 1, i - 1) # {}
  <2>1. PICK m \in Places(items, t, 1, i - 1) : \A k \in Places(items, t, 1, i - 1) : k <= m
    <3>1. i - 1 \in Nat /\ Places(items, t, 1, i - 1) \in SUBSET (1 .. (i - 1))
      BY DEF Places
    <3> QED
      BY <1>5, <3>1, HasLast
  <2>2. m \in 1 .. (i - 1) /\ items[m] = t /\ m \in 1 .. n
    BY DEF Places
  <2>3. \A k \in m .. (i - 1) : k # m => items[k] # t
    <3> SUFFICES ASSUME NEW k \in m .. (i - 1), k # m, items[k] = t PROVE FALSE
      OBVIOUS
    <3>1. k \in Places(items, t, 1, i - 1)
      BY <2>2 DEF Places
    <3> QED
      BY <2>1, <2>2, <3>1
  <2>4. Cardinality(Places(items, t, m, i - 1)) = 1
    BY <2>2, <2>3, OnePlace
  <2>5. before(i - 1) = before(m - 1) + Cardinality(Places(items, t, (m - 1) + 1, i - 1))
    BY <2>2, PlacesSplit
  <2>6. (m - 1) + 1 = m /\ before(m - 1) \in Nat
    BY <2>2, PlacesFinite
  <2>7. before(i - 1) = before(m - 1) + 1
    BY <2>4, <2>5, <2>6
  <2>8. f[m].topic = t /\ f[m].version = c + before(m - 1) /\ f[m] \in Prior(f, i)
    BY <1>1, <2>2 DEF Prior
  <2>9. f[m] \in Event
    BY <1>2, <2>2
  <2>10. f[m] = [topic |-> t, version |-> (c + before(i - 1)) - 1]
    <3>1. (c + before(i - 1)) - 1 = c + before(m - 1)
      BY <1>3, <2>6, <2>7
    <3> HIDE DEF before, c
    <3>2. f[m] = [topic |-> f[m].topic, version |-> f[m].version]
      BY <2>9 DEF Event
    <3> QED
      BY <2>8, <3>1, <3>2
  <2> QED
    BY <2>8, <2>10 DEF Follows, f
<1> QED
  BY <1>4, <1>5

\* A writer commits: it alone appends to the topics of its events.
LEMMA CommitHole ==
  ASSUME IInv, IInv', AnnouncedOK, OneSource, InitialSub = Sub,
         NEW s \in Fed, NEW t \in Topic \ {SystemTopic}, NoHole(s, t),
         Position(s, t)' = Position(s, t), NEW w \in Writer, NEW n \in 0 .. MaxBatch,
         NEW items \in [1 .. n -> Writes[w]], Commit(w, items)
  PROVE  NoHole(s, t)'
<1> DEFINE f == NewEvents(items)
           p == Position(s, t)
           D == Items(dispatch)
<1>1. /\ UNCHANGED <<dispatch, fetched, pending, spc, group>> /\ wpc[w] = "entered"
      /\ committed'[t] = committed[t] + Count(items, t)
      /\ fresh' = [fresh EXCEPT ![w] = IF hasSubs[w] THEN NewEvents(items) ELSE << >>]
  BY DEF Commit, scanVars
<1>2. s \in Sub /\ s \in FirstLive
  BY DEF Fed, Live, FirstLive
<1>3. hasSubs[w]
  BY <1>1, <1>2 DEF AnnouncedOK
<1>4. p \in Int /\ committed[t] \in Nat
  BY <1>2, HoleTypes
<1>5. fresh[w] = << >> /\ pending[w] = << >>
  BY <1>1 DEF IInv, LocksOK
<1>6. /\ n \in Nat /\ items \in [1 .. n -> Topic] /\ committed \in [Topic -> Nat]
      /\ \A i \in 1 .. n : items[i] \in Writes[w]
  <2>1. n \in Nat /\ items \in [1 .. n -> Topic]
    BY WriterAssumption, BoundAssumption
  <2>2. committed \in [Topic -> Nat]
    BY DEF IInv, TypeOK
  <2> QED
    BY <2>1, <2>2
<1>7. /\ f \in Seq(Event) /\ Len(f) = n
      /\ \A i \in 1 .. n : f[i].topic = items[i]
           /\ f[i].version = committed[items[i]] + Cardinality(Places(items, items[i], 1, i - 1))
  BY <1>6, NewEventsAre
<1>8. /\ Count(items, t) = Cardinality(Places(items, t, 1, n))
      /\ Count(items, t) \in Nat
  BY <1>6, NewEventsAre, CountIs
<1>9. /\ fresh'[w] = f
      /\ \A v \in Writer : v # w => fresh'[v] = fresh[v]
  BY <1>1, <1>3 DEF IInv, TypeOK
<1>10. ASSUME t \in Writes[w]
       PROVE  t \notin RemoteWrites /\ Follows(p, t, committed[t], D)
  <2>1. t \notin RemoteWrites /\ \A v \in Writer : t \in Writes[v] => v = w
    BY <1>10 DEF OneSource
  <2>2. Items(<< >>) = {}
    BY DEF Items
  <2>3. Underway(t) = D
    BY <1>5, <1>10, <2>1, <2>2 DEF Underway
  <2> QED
    BY <2>1, <2>3 DEF NoHole
<1> HIDE DEF f, p, D
<1>11. ASSUME t \in Writes[w], NEW i \in 1 .. (n + 1)
       PROVE  Follows(p, t, committed[t] + Cardinality(Places(items, t, 1, i - 1)), D \cup Prior(f, i))
  <2>1. t \in Topic /\ Follows(p, t, committed[t], D)
    BY <1>10, <1>11
  <2>2. Follows(p, t, committed[t] + Cardinality(Places(items, t, 1, i - 1)),
                D \cup Prior(NewEvents(items), i))
    BY ONLY <1>4, <1>6, <1>11, <2>1, NewChain
  <2> QED
    BY <2>2 DEF f
<1>12. Chained(f, D, p, t)
  <2> SUFFICES ASSUME NEW i \in 1 .. Len(f), f[i].topic = t
               PROVE  Follows(p, t, f[i].version, D \cup Prior(f, i))
    BY DEF Chained
  <2>1. i \in 1 .. n /\ i \in 1 .. (n + 1) /\ items[i] = t /\ t \in Writes[w]
    BY <1>6, <1>7
  <2>2. f[i].version = committed[t] + Cardinality(Places(items, t, 1, i - 1))
    BY <1>7, <2>1
  <2> QED
    BY <1>11, <2>1, <2>2
<1>13. ASSUME NEW v \in Writer
       PROVE  /\ Chained(pending'[v], Items(dispatch'), p, t)
              /\ Chained(fresh'[v], Items(dispatch') \cup Items(pending'[v]), p, t)
  <2>1. Chained(pending[v], D, p, t) /\ Chained(fresh[v], D \cup Items(pending[v]), p, t)
    BY DEF NoHole, p, D
  <2>2. CASE v # w
    BY <1>1, <1>9, <2>1, <2>2 DEF D
  <2>3. CASE v = w
    <3>1. Items(pending[w]) = {}
      BY <1>5 DEF Items
    <3> QED
      BY <1>1, <1>9, <1>12, <2>1, <2>3, <3>1 DEF D
  <2> QED
    BY <2>2, <2>3
<1>14. ASSUME t \notin RemoteWrites PROVE Follows(p, t, committed'[t], Underway(t)')
  <2>1. CASE t \in Writes[w]
    <3>1. D \cup Items(f) \subseteq Underway(t)'
      BY <1>1, <1>9, <2>1 DEF Underway, D
    <3>2. Prior(f, n + 1) = Items(f)
      BY <1>6, <1>7 DEF Prior, Items
    <3>3. Follows(p, t, committed[t] + Cardinality(Places(items, t, 1, (n + 1) - 1)),
                  D \cup Prior(f, n + 1))
      <4>1. n + 1 \in 1 .. (n + 1)
        BY <1>6
      <4> QED
        BY <1>11, <2>1, <4>1
    <3>4. (n + 1) - 1 = n
      BY <1>6
    <3>5. Follows(p, t, committed'[t], D \cup Items(f))
      BY <1>1, <1>8, <3>2, <3>3, <3>4
    <3> QED
      BY <3>1, <3>5 DEF Follows
  <2>2. CASE t \notin Writes[w]
    <3>1. Places(items, t, 1, n) = {}
      BY <1>6, <2>2 DEF Places
    <3>2. committed'[t] = committed[t]
      <4>1. Cardinality(Places(items, t, 1, n)) = 0
        BY <3>1, FS_EmptySet
      <4> QED
        BY <1>1, <1>4, <1>8, <4>1
    <3>3. Underway(t)' = Underway(t)
      BY <1>1, <1>9, <2>2 DEF Underway
    <3> QED
      BY <1>14, <3>2, <3>3 DEF NoHole, p
  <2> QED
    BY <2>1, <2>2
<1>15. Chained(dispatch', {}, p, t) /\ Chained(fetched', Items(dispatch'), p, t)
       /\ (spc' = "scan" /\ t \in DOMAIN group' => group'[t] <= p)
  BY <1>1 DEF NoHole, p
<1> QED
  BY <1>13, <1>14, <1>15 DEF NoHole, p

\* What the feeds lack is on its way to them after every step.
LEMMA NextHole ==
  ASSUME IInv, IInv', FeedInv, OneSource, FromTheStart, [Next]_vars,
         NEW s \in Fed', NEW t \in Pattern[s] \ {SystemTopic}
  PROVE  NoHole(s, t)'
<1>1. /\ s \in Fed /\ s \in Sub /\ s \in PostCommitSub /\ status'[s] = "live" /\ status[s] = "live"
      /\ ~ degraded[s] /\ ~ degraded'[s] /\ alive[s]
      /\ AnnouncedOK /\ InitialSub = Sub
  <2>1. AnnouncedOK /\ InitialSub = Sub /\ s \in Fed
    BY FedStays DEF FeedInv, FromTheStart
  <2> QED
    BY <2>1 DEF Fed, Live
<1>2. t \in Topic \ {SystemTopic} /\ t \in Pattern[s]
  BY <1>1, SubAssumption
<1>3. NoHole(s, t)
  BY <1>1 DEF FeedInv
<1>4. ~ Dispatch => Position(s, t)' = Position(s, t)
  BY <1>1, <1>2, PositionKept
<1>5. ASSUME UNCHANGED <<dispatch, fetched, fresh, pending, spc, group>>, ~ Dispatch,
             t \in RemoteWrites \/ committed'[t] = committed[t]
      PROVE  NoHole(s, t)'
  BY <1>3, <1>4, <1>5, QuietHole
<1>6. ASSUME NEW u \in Topic, committed' = [committed EXCEPT ![u] = @ + 1],
             u = SystemTopic \/ u \in RemoteWrites
      PROVE  t \in RemoteWrites \/ committed'[t] = committed[t]
  BY <1>2, <1>6 DEF IInv, TypeOK
<1>7. CASE Dispatch
  <2> DEFINE e == Head(dispatch)
  <2>1. /\ dispatch # << >> /\ dispatch' = Tail(dispatch) /\ delivered = {} /\ event' = e
        /\ UNCHANGED <<fetched, fresh, pending, spc, group, committed, cursor>>
    BY <1>7 DEF Dispatch, IInv, DispatcherOK, writerVars, scanVars
  <2>2. /\ Position(s, t) = cursor[s][t]
        /\ Position(s, t)' = IF s \in delivered' /\ e.topic = t THEN e.version ELSE cursor[s][t]
    BY <2>1 DEF Position
  <2>3. /\ s \in delivered' => e.version > cursor[s][e.topic]
        /\ e.topic = t /\ e.version > cursor[s][t] => s \in delivered'
    <3> DEFINE reachable == {x \in Wanting(e) : alive[x]}
               full == {x \in reachable : Len(queue[x]) = QueueSize}
    <3>1. delivered' = reachable \ full /\ degraded' = [x \in Sub |-> degraded[x] \/ x \in full]
      BY <1>7 DEF Dispatch
    <3>2. \A x \in Wanting(e) : e.version > cursor[x][e.topic]
      BY DEF Wanting
    <3>3. e.topic = t /\ e.version > cursor[s][t] => s \in Wanting(e)
      BY <1>1, <1>2 DEF Wanting, Matching, Live
    <3> HIDE DEF e
    <3>4. s \notin full
      BY <1>1, <3>1
    <3> QED
      BY <1>1, <3>1, <3>2, <3>3, <3>4
  <2>4. e \in Event /\ e.version \in Nat /\ cursor[s][t] \in Int
    <3>1. dispatch \in Seq(Event)
      BY DEF IInv, TypeOK
    <3>2. cursor[s][t] \in Nat \cup {-1}
      BY <1>1, <1>2, SubTypes DEF IInv
    <3>3. e \in Event
      BY <2>1, <3>1, HeadIs
    <3> HIDE DEF e
    <3> QED
      BY <3>2, <3>3 DEF Event
  <2> HIDE DEF e
  <2>5. Position(s, t) <= Position(s, t)' /\ (e.topic = t => e.version <= Position(s, t)')
    BY <2>2, <2>3, <2>4
  <2> QED
    BY <1>1, <1>2, <1>3, <2>1, <2>5, TakeHole DEF e
<1>8. CASE SkipSystem
  <2>1. /\ dispatch # << >> /\ dispatch' = Tail(dispatch) /\ Head(dispatch).topic = SystemTopic
        /\ UNCHANGED <<fetched, fresh, pending, spc, group, committed, cursor, event, delivered>>
    BY <1>8 DEF SkipSystem, writerVars, scanVars, registryVars, dispatcherVars
  <2>2. Position(s, t)' = Position(s, t) /\ Position(s, t) \in Int
    BY <1>1, <1>2, <2>1, HoleTypes DEF Position
  <2> QED
    BY <1>1, <1>2, <1>3, <2>1, <2>2, TakeHole
<1>9. ASSUME NEW w \in Writer, Write(w), ~ Dispatch PROVE NoHole(s, t)'
  <2>1. CASE Enter(w) \/ Refuse(w) \/ Unlock(w) \/ (\E r \in panicked[w] : SendReport(w, r)) \/ Return(w)
    BY <1>5, <1>9, <2>1 DEF Enter, Refuse, Unlock, SendReport, Return, scanVars
  <2>2. CASE SendEvent(w)
    BY <1>1, <1>2, <1>3, <1>4, <1>9, <2>2, SendHole
  <2>3. ASSUME NEW panics, DispatchSync(w, panics) PROVE NoHole(s, t)'
    BY <1>1, <1>2, <1>3, <1>4, <1>9, <2>3, DispatchSyncHole
  <2>4. ASSUME NEW n \in 0 .. MaxBatch, NEW items \in [1 .. n -> Writes[w]], Commit(w, items)
        PROVE  NoHole(s, t)'
    BY <1>1, <1>2, <1>3, <1>4, <1>9, <2>4, CommitHole
  <2> QED
    BY <1>9, <2>1, <2>2, <2>3, <2>4 DEF Write
<1>10. CASE (\E u \in RemoteWrites : RemoteCommit(u)) /\ ~ Dispatch
  <2>1. PICK u \in RemoteWrites : RemoteCommit(u)
    BY <1>10
  <2>2. committed' = [committed EXCEPT ![u] = @ + 1]
        /\ UNCHANGED <<dispatch, fetched, fresh, pending, spc, group>> /\ u \in Topic
    BY <2>1, WriterAssumption DEF RemoteCommit, writerVars, scanVars
  <2> QED
    BY <1>5, <1>6, <1>10, <2>1, <2>2
<1>11. CASE (\E x \in Sub : Subscription(x) \/ Handle(x) \/ HandlerDies(x)) /\ ~ Dispatch
  BY <1>5, <1>11 DEF Subscription, Seed, Register, Unsubscribe, Handle, HandlerDies, writerVars,
       scanVars
<1>12. CASE (Advance \/ (\E x \in overflowed : EmitOverflow(x)) \/ EmitPanic \/ Receive) /\ ~ Dispatch
  <2>1. UNCHANGED <<dispatch, fetched, fresh, pending, spc, group>>
    BY <1>12 DEF Advance, EmitOverflow, EmitPanic, Receive, writerVars, scanVars
  <2>2. ASSUME NEW r, Emitted(r) PROVE t \in RemoteWrites \/ committed'[t] = committed[t]
    BY <1>6, <2>2, TopicAssumption DEF Emitted
  <2> QED
    BY <1>5, <1>12, <2>1, <2>2 DEF Advance, EmitOverflow, EmitPanic, Receive
<1>13. CASE (Wake \/ ScanDone) /\ ~ Dispatch
  <2>1. UNCHANGED <<dispatch, fetched, fresh, pending, committed>> /\ spc' # "scan"
    BY <1>13 DEF Wake, ScanDone, writerVars
  <2>2. Underway(t)' = Underway(t)
    BY <2>1 DEF Underway
  <2> QED
    BY <1>3, <1>4, <1>13, <2>1, <2>2 DEF NoHole
<1>14. CASE Snapshot /\ ~ Dispatch
  <2>1. s \in GlobSub => t \in known[s]
    BY <1>1 DEF FeedInv
  <2> QED
    BY <1>1, <1>2, <1>3, <1>4, <1>14, <2>1, SnapshotHole
<1>15. CASE (SendFetched \/ \E u \in DOMAIN group : Fetch(u)) /\ ~ Dispatch
  BY <1>1, <1>2, <1>3, <1>4, <1>15, FetchHole, SendFetchedHole
<1>16. CASE (MissNotice \/ UNCHANGED vars) /\ ~ Dispatch
  BY <1>5, <1>16 DEF MissNotice, vars, writerVars, scanVars
<1> QED
  BY <1>7, <1>8, <1>9, <1>10, <1>11, <1>12, <1>13, <1>14, <1>15, <1>16 DEF Next, Dispatcher, Watcher

LEMMA NextFeed ==
  ASSUME IInv, IInv', FeedInv, OneSource, FromTheStart, [Next]_vars PROVE FeedInv'
<1>1. AnnouncedOK' /\ AnnouncedOK /\ InitialSub = Sub
  BY AnnouncedKept DEF IInv, FeedInv, FromTheStart
<1>2. ASSUME NEW s \in Sub
      PROVE  /\ status'[s] = "closed" => \A t \in Topic : cursor'[s][t] = -1
             /\ s \in GlobSub /\ status'[s] = "live" => Pattern[s] \ {SystemTopic} \subseteq known'[s]
  <2>1. /\ status[s] = "closed" => \A t \in Topic : cursor[s][t] = -1
        /\ s \in GlobSub /\ status[s] = "live" => Pattern[s] \ {SystemTopic} \subseteq known[s]
    BY DEF FeedInv
  <2>2. CASE UNCHANGED registryVars
    BY <2>1, <2>2 DEF registryVars
  <2>3. ASSUME NEW w \in Writer, NEW panics, DispatchSync(w, panics)
        PROVE  UNCHANGED <<status, cursor, known>>
    BY <2>3 DEF DispatchSync
  <2>4. ASSUME NEW x \in Sub, Handle(x) \/ HandlerDies(x) PROVE UNCHANGED registryVars
    BY <2>4 DEF Handle, HandlerDies
  <2>5. ASSUME NEW x \in Sub, Seed(x) \/ Register(x) PROVE FALSE
    BY <1>1, <2>5 DEF Seed, Register, AnnouncedOK
  <2>6. CASE \E x \in Sub : Unsubscribe(x)
    BY <2>1, <2>6 DEF Unsubscribe, IInv, TypeOK
  <2>7. CASE Dispatch \/ Receive
    BY <2>1, <2>7 DEF Dispatch, Receive, registryVars
  <2>8. CASE Advance
    <3>1. status' = status /\ (s \in Advancing => status[s] = "live")
      BY <2>8 DEF Advance, Advancing, Live
    <3>2. /\ cursor'[s] = IF s \in Advancing /\ event.version > cursor[s][event.topic]
                          THEN [cursor[s] EXCEPT ![event.topic] = event.version] ELSE cursor[s]
          /\ known[s] \subseteq known'[s]
      BY <2>8 DEF Advance
    <3> QED
      BY <2>1, <3>1, <3>2
  <2>9. CASE UNCHANGED feedVars
    BY <2>2, <2>9 DEF feedVars
  <2> QED
    BY <2>1, <2>2, <2>3, <2>4, <2>5, <2>6, <2>7, <2>8, <2>9, Steps
<1>3. \A s \in Fed' : \A t \in Pattern[s] \ {SystemTopic} : NoHole(s, t)'
  BY NextHole
<1> QED
  BY <1>1, <1>2, <1>3, SubAssumption DEF FeedInv

LEMMA InitFeed == Init /\ FromTheStart => FeedInv
<1> SUFFICES ASSUME Init, FromTheStart PROVE FeedInv
  OBVIOUS
<1>1. InitialSub = Sub
  BY DEF FromTheStart
<1>2. AnnouncedOK /\ \A s \in Sub : status[s] = "live"
  BY <1>1 DEF Init, AnnouncedOK
<1>3. ASSUME NEW s \in GlobSub PROVE Pattern[s] \ {SystemTopic} \subseteq known[s]
  <2> SUFFICES ASSUME NEW t \in Pattern[s] \ {SystemTopic} PROVE t \in known[s]
    OBVIOUS
  <2>1. s \in Sub /\ t \in Topic
    BY SubAssumption
  <2>2. InitialEvents[t] \in Nat /\ InitialEvents[t] > 0
    BY <2>1, BoundAssumption DEF FromTheStart
  <2>3. seed[s][t] = InitialEvents[t] - 1
    BY <1>1, <2>1 DEF Init
  <2> QED
    BY <2>1, <2>2, <2>3 DEF Init
<1>4. ASSUME NEW s \in Fed, NEW t \in Pattern[s] \ {SystemTopic} PROVE NoHole(s, t)
  <2>1. s \in Sub /\ t \in Topic
    BY SubAssumption DEF Fed, Live
  <2>2. Position(s, t) = committed[t] - 1 /\ committed[t] \in Nat
    BY <1>1, <2>1, BoundAssumption DEF Init, Position
  <2>3. \A S, p : Chained(<< >>, S, p, t)
    BY DEF Chained
  <2>4. dispatch = << >> /\ fetched = << >> /\ spc = "wait"
        /\ \A w \in Writer : pending[w] = << >> /\ fresh[w] = << >>
    BY DEF Init
  <2> QED
    BY <2>2, <2>3, <2>4 DEF NoHole, Follows
<1> QED
  BY <1>2, <1>3, <1>4 DEF FeedInv

\* The steps of a feed, in terms of the position of each subscription.
LEMMA FeedPublishes ==
  ASSUME \A t \in Topic : committed[t] \in Nat /\ committed'[t] \in Nat /\ committed[t] <= committed'[t],
         \A s \in Sub, t \in Topic : Position(s, t)' = Position(s, t),
         OpenFeeds' = OpenFeeds
  PROVE  PostCommitFeed!Next
<1> DEFINE P == [s \in Sub |-> [t \in Topic |-> Position(s, t)]]
<1>1. P' = P
  OBVIOUS
<1>2. PostCommitFeed!Publish
  BY <1>1 DEF PostCommitFeed!Publish
<1> QED
  BY <1>2 DEF PostCommitFeed!Next

LEMMA FeedGives ==
  ASSUME NEW t \in Topic, NEW feeds \in SUBSET OpenFeeds, NEW ended \in SUBSET (OpenFeeds \ feeds),
         committed' = committed, OpenFeeds' = OpenFeeds \ ended,
         \A s \in feeds : t \in Pattern[s] /\ Position(s, t) + 1 < committed[t],
         \A s \in Sub, u \in Topic :
           IF s \in feeds /\ u = t THEN Position(s, u)' = Position(s, u) + 1
           ELSE IF s \in OpenFeeds' THEN Position(s, u)' = Position(s, u)
           ELSE Position(s, u)' <= Position(s, u)
  PROVE  PostCommitFeed!Next
<1> DEFINE P == [s \in Sub |-> [u \in Topic |-> Position(s, u)]]
<1>1. \A s \in Sub, u \in Topic : P[s][u] = Position(s, u) /\ P'[s][u] = Position(s, u)'
  OBVIOUS
<1>2. \A s \in feeds : s \in Sub
  BY DEF OpenFeeds, Live
<1> HIDE DEF P
<1>3. PostCommitFeed!Give(t, feeds, ended)
  BY <1>1, <1>2 DEF PostCommitFeed!Give, P
<1> QED
  BY <1>3 DEF PostCommitFeed!Next

\* The event that dispatch_post_commit is about to push is the next one of the feeds that
\* want it.
LEMMA NextInFeed ==
  ASSUME IInv, FeedInv, Dispatch, NEW s \in Wanting(Head(dispatch)), alive[s]
  PROVE  LET e == Head(dispatch)
         IN  /\ s \in Sub /\ s \in PostCommitSub /\ e \in Event
             /\ e.topic \in Pattern[s] \ {SystemTopic} /\ Position(s, e.topic) \in Nat \cup {-1}
             /\ e.version = Position(s, e.topic) + 1
<1> DEFINE e == Head(dispatch)
           p == Position(s, e.topic)
<1>1. dispatch # << >> /\ e.topic # SystemTopic /\ delivered = {} /\ dispatch \in Seq(Event)
  BY DEF Dispatch, IInv, DispatcherOK, TypeOK
<1>2. e \in Event
  BY <1>1, HeadIs
<1>3. s \in Sub /\ s \in PostCommitSub /\ s \in Fed /\ e.topic \in Pattern[s] /\ e.version > cursor[s][e.topic]
  BY DEF Wanting, Matching, Live, Fed
<1> HIDE DEF e
<1>4. e.topic \in Topic /\ e.version \in Nat
  BY <1>2 DEF Event
<1>5. p = cursor[s][e.topic] /\ cursor[s][e.topic] \in Nat \cup {-1}
  <2>1. cursor[s] \in [Topic -> Nat \cup {-1}]
    BY <1>3 DEF IInv, TypeOK
  <2> QED
    BY <1>1, <1>4, <2>1 DEF Position
<1>6. Chained(dispatch, {}, p, e.topic)
  BY <1>1, <1>3 DEF FeedInv, NoHole
<1>7. Follows(p, e.topic, e.version, {})
  BY <1>1, <1>6, ChainedTail DEF e
<1>8. e.version <= p + 1
  BY <1>7 DEF Follows
<1>9. e.version = p + 1
  BY <1>3, <1>4, <1>5, <1>8
<1> QED
  BY <1>1, <1>2, <1>3, <1>5, <1>9 DEF e

\* The first pass of dispatch_post_commit gives the event to feeds that stand right
\* before it, and ends those whose queues are full.
LEMMA DispatchFeeds ==
  ASSUME IInv, IInv', FeedInv, Dispatch PROVE PostCommitFeed!Next
<1> DEFINE e == Head(dispatch)
           reachable == {s \in Wanting(e) : alive[s]}
           full == {s \in reachable : Len(queue[s]) = QueueSize}
<1>1. /\ dispatch # << >> /\ e.topic # SystemTopic /\ delivered = {} /\ event' = e
      /\ delivered' = reachable \ full /\ degraded' = [s \in Sub |-> degraded[s] \/ s \in full]
      /\ UNCHANGED <<committed, cursor, status>>
  BY DEF Dispatch, IInv, DispatcherOK
<1>2. dispatch \in Seq(Event)
  BY DEF IInv, TypeOK
<1>3. e \in Event /\ e \in Items(dispatch)
  BY <1>1, <1>2, HeadIs, ItemsAre
<1>4. e.topic \in Topic /\ e.version \in Nat /\ e.version < committed[e.topic]
  <2> HIDE DEF e
  <2>1. Committed(e)
    BY <1>3 DEF IInv, ChannelsOK
  <2> QED
    BY <1>3, <2>1 DEF Committed, Event
<1>5. ASSUME NEW s \in reachable
      PROVE  /\ s \in Sub /\ s \in PostCommitSub /\ status[s] = "live" /\ ~ degraded[s] /\ alive[s]
             /\ e.topic \in Pattern[s] /\ e.version > cursor[s][e.topic]
  BY <1>5 DEF Wanting, Matching, Live
<1>6. full \subseteq reachable
  OBVIOUS
<1> HIDE DEF e, reachable, full
<1>7. \A s \in Sub, u \in Topic :
        /\ Position(s, u) = cursor[s][u] /\ cursor[s][u] \in Int
        /\ Position(s, u)' = IF s \in delivered' /\ e.topic = u THEN e.version ELSE cursor[s][u]
  <2> SUFFICES ASSUME NEW s \in Sub, NEW u \in Topic
               PROVE  /\ Position(s, u) = cursor[s][u] /\ cursor[s][u] \in Int
                      /\ Position(s, u)' = IF s \in delivered' /\ e.topic = u THEN e.version ELSE cursor[s][u]
    OBVIOUS
  <2>1. cursor[s][u] \in Nat \cup {-1}
    BY SubTypes DEF IInv
  <2> QED
    BY <1>1, <2>1 DEF Position
<1>8. ASSUME NEW s \in reachable PROVE e.version = Position(s, e.topic) + 1
  <2>1. s \in Wanting(e) /\ alive[s]
    BY DEF reachable
  <2> QED
    BY <2>1, NextInFeed DEF e
<1>9. reachable \subseteq OpenFeeds /\ OpenFeeds' = OpenFeeds \ full
  <2>1. reachable \subseteq OpenFeeds
    BY <1>5 DEF OpenFeeds, Live
  <2> QED
    BY <1>1, <2>1 DEF OpenFeeds, Live
<1>10. delivered' \in SUBSET OpenFeeds /\ full \in SUBSET (OpenFeeds \ delivered')
  BY <1>1, <1>6, <1>9
<1>11. \A s \in delivered' : e.topic \in Pattern[s] /\ Position(s, e.topic) + 1 < committed[e.topic]
  BY <1>1, <1>4, <1>5, <1>8
<1>12. \A s \in Sub, u \in Topic :
         IF s \in delivered' /\ u = e.topic THEN Position(s, u)' = Position(s, u) + 1
         ELSE Position(s, u)' = Position(s, u)
  BY <1>1, <1>7, <1>8
<1>13. \A s \in Sub, u \in Topic : Position(s, u)' = Position(s, u) => Position(s, u)' <= Position(s, u)
  BY <1>7
<1>14. \A s \in Sub, u \in Topic :
         IF s \in delivered' /\ u = e.topic THEN Position(s, u)' = Position(s, u) + 1
         ELSE IF s \in OpenFeeds' THEN Position(s, u)' = Position(s, u)
         ELSE Position(s, u)' <= Position(s, u)
  BY <1>12, <1>13
<1>15. PICK t \in Topic : t = e.topic
  BY <1>4
<1> QED
  BY ONLY <1>1, <1>9, <1>10, <1>11, <1>14, <1>15, FeedGives

\* Some feeds end, and nothing is given.
LEMMA FeedsEnd ==
  ASSUME TypeOK, TypeOK', NEW ended \in SUBSET OpenFeeds, committed' = committed,
         OpenFeeds' = OpenFeeds \ ended,
         \A s \in Sub, u \in Topic :
           \/ Position(s, u)' = Position(s, u)
           \/ s \notin OpenFeeds' /\ Position(s, u)' <= Position(s, u)
  PROVE  PostCommitFeed!Next
<1>1. \A s \in Sub, u \in Topic : Position(s, u)' = Position(s, u) => Position(s, u)' <= Position(s, u)
  <2> SUFFICES ASSUME NEW s \in Sub, NEW u \in Topic PROVE Position(s, u) \in Nat \cup {-1}
    OBVIOUS
  <2> QED
    BY SubTypes
<1>2. PICK none \in SUBSET OpenFeeds : none = {}
  OBVIOUS
<1>3. ended \in SUBSET (OpenFeeds \ none)
  BY <1>2
<1>4. \A s \in Sub, u \in Topic :
        IF s \in none /\ u = SystemTopic THEN Position(s, u)' = Position(s, u) + 1
        ELSE IF s \in OpenFeeds' THEN Position(s, u)' = Position(s, u)
        ELSE Position(s, u)' <= Position(s, u)
  BY <1>1, <1>2
<1>5. \A s \in none : SystemTopic \in Pattern[s] /\ Position(s, SystemTopic) + 1 < committed[SystemTopic]
  BY <1>2
<1> QED
  BY <1>3, <1>4, <1>5, FeedGives, TopicAssumption

\* Every step is a step of the feeds.
LEMMA NextFeeds ==
  ASSUME IInv, IInv', FeedInv, FeedInv', InitialSub = Sub, [Next]_vars
  PROVE  PostCommitFeed!Next
<1>1. TypeOK /\ TypeOK' /\ AnnouncedOK
  BY DEF IInv, FeedInv
<1>2. ASSUME NEW s \in Sub, NEW u \in Topic
      PROVE  /\ Position(s, u) \in Nat \cup {-1} /\ Position(s, u)' \in Nat \cup {-1}
             /\ cursor[s][u] \in Nat \cup {-1} /\ cursor'[s][u] \in Nat \cup {-1}
             /\ status[s] \in {"live", "closed"}
  BY <1>1, SubTypes DEF AnnouncedOK
<1>3. ASSUME \A s \in Sub, u \in Topic : Position(s, u)' = Position(s, u), OpenFeeds' = OpenFeeds
      PROVE  PostCommitFeed!Next
  <2>1. \A u \in Topic : committed[u] \in Nat /\ committed'[u] \in Nat /\ committed[u] <= committed'[u]
    BY <1>1, CommittedRises DEF TypeOK
  <2> QED
    BY <1>3, <2>1, FeedPublishes
<1>4. CASE UNCHANGED <<cursor, event, delivered, status, degraded>>
  BY <1>3, <1>4 DEF Position, OpenFeeds, Live
<1>5. CASE UNCHANGED feedVars
  BY <1>4, <1>5 DEF feedVars, registryVars
<1>6. ASSUME NEW w \in Writer, NEW panics, DispatchSync(w, panics) PROVE PostCommitFeed!Next
  <2>1. /\ UNCHANGED <<cursor, event, delivered, status, committed>>
        /\ degraded' = [s \in Sub |-> degraded[s] \/ s \in panics]
    BY <1>6 DEF DispatchSync, dispatcherVars
  <2>2. OpenFeeds' = OpenFeeds \ (panics \cap OpenFeeds)
    BY <2>1 DEF OpenFeeds, Live
  <2>3. \A s \in Sub, u \in Topic : Position(s, u)' = Position(s, u)
    BY <2>1 DEF Position
  <2>4. panics \cap OpenFeeds \in SUBSET OpenFeeds
    OBVIOUS
  <2> QED
    BY <1>1, <2>1, <2>2, <2>3, <2>4, FeedsEnd
<1>7. ASSUME NEW x \in Sub, Unsubscribe(x) PROVE PostCommitFeed!Next
  <2>1. /\ UNCHANGED <<event, delivered, degraded, committed>>
        /\ \A s \in Sub : s # x => status'[s] = status[s] /\ cursor'[s] = cursor[s]
        /\ status'[x] = "closed" /\ \A u \in Topic : cursor'[x][u] = -1
    BY <1>1, <1>7 DEF Unsubscribe, dispatcherVars, TypeOK
  <2>2. OpenFeeds' = OpenFeeds \ ({x} \cap OpenFeeds)
    BY <2>1 DEF OpenFeeds, Live
  <2>3. ASSUME NEW s \in Sub, NEW u \in Topic
        PROVE  \/ Position(s, u)' = Position(s, u)
               \/ s \notin OpenFeeds' /\ Position(s, u)' <= Position(s, u)
    <3>1. CASE s # x
      BY <2>1, <3>1 DEF Position
    <3>2. CASE s = x
      BY <1>2, <2>1, <2>2, <3>2 DEF Position
    <3> QED
      BY <3>1, <3>2
  <2>4. {x} \cap OpenFeeds \in SUBSET OpenFeeds
    OBVIOUS
  <2> QED
    BY <1>1, <2>1, <2>2, <2>3, <2>4, FeedsEnd
<1>8. ASSUME NEW x \in Sub, Seed(x) \/ Register(x) PROVE FALSE
  BY <1>1, <1>8 DEF Seed, Register, AnnouncedOK
<1>9. ASSUME NEW x \in Sub, Handle(x) \/ HandlerDies(x) PROVE PostCommitFeed!Next
  BY <1>4, <1>9 DEF Handle, HandlerDies, registryVars, dispatcherVars
<1>10. CASE Advance \/ Receive
  <2>1. /\ UNCHANGED <<status, degraded, committed>> /\ delivered' = {}
        /\ OpenFeeds' = OpenFeeds
    BY <1>10 DEF Advance, Receive, registryVars, IInv, DispatcherOK, OpenFeeds, Live
  <2>2. ASSUME NEW s \in Sub, NEW u \in Topic
        PROVE  \/ Position(s, u)' = Position(s, u)
               \/ s \notin OpenFeeds' /\ Position(s, u)' <= Position(s, u)
    <3>1. CASE status[s] = "live"
      BY <1>10, <3>1, AdvancePosition DEF IInv
    <3>2. CASE status[s] # "live"
      <4>1. cursor[s][u] = -1
        BY <1>2, <3>2 DEF FeedInv
      <4>2. cursor'[s] = cursor[s]
        BY <1>10, <3>2 DEF Advance, Receive, Advancing, Live, registryVars
      <4>3. Position(s, u)' = -1 /\ s \notin OpenFeeds'
        BY <2>1, <3>2, <4>1, <4>2 DEF Position, OpenFeeds, Live
      <4> QED
        BY <1>2, <4>3
    <3> QED
      BY <3>1, <3>2
  <2>3. {} \in SUBSET OpenFeeds /\ OpenFeeds' = OpenFeeds \ {}
    BY <2>1
  <2> QED
    BY <1>1, <2>1, <2>2, <2>3, FeedsEnd
<1> QED
  BY <1>5, <1>6, <1>7, <1>8, <1>9, <1>10, DispatchFeeds, Steps

LEMMA InitFeeds == Init /\ FromTheStart => PostCommitFeed!Init
<1> SUFFICES ASSUME Init, FromTheStart PROVE PostCommitFeed!Init
  OBVIOUS
<1>1. InitialSub = Sub /\ committed \in [Topic -> Nat] /\ OpenFeeds = Sub
  BY BoundAssumption DEF FromTheStart, Init, OpenFeeds, Live
<1>2. \A s \in Sub, t \in Topic :
        Position(s, t) = IF t \in Pattern[s] THEN committed[t] - 1 ELSE -1
  BY <1>1 DEF Init, Position
<1> QED
  BY <1>1, <1>2 DEF PostCommitFeed!Init

\* Subscriptions made before the first append implement the feeds they promise, whatever
\* the queues, the threads, the other processes and the notices that go missing: between
\* two events that dispatch_post_commit pushes there is never one that it left out.
THEOREM RefinesFeedHolds ==
  ASSUME OneSource, FromTheStart
  PROVE  Spec => RefinesFeed
<1>1. Init => PostCommitFeed!Init /\ FeedInv
  BY InitFeed, InitFeeds
<1>2. IInv /\ IInv' /\ FeedInv /\ [Next]_vars => FeedInv'
  BY NextFeed
<1>3. IInv /\ IInv' /\ FeedInv /\ FeedInv' /\ [Next]_vars
        => [PostCommitFeed!Next]_(PostCommitFeed!vars)
  BY NextFeeds DEF FromTheStart
<1> QED
  BY <1>1, <1>2, <1>3, Invariant, PTL DEF Spec, RefinesFeed, PostCommitFeed!Spec

-----------------------------------------------------------------------------
(* No gaps, under the same two conditions.                                  *)

\* What a handler thread saw before it died has no gap if what was pushed had none.
LEMMA SeenHasNoGap ==
  ASSUME NEW r \in Seq(Nat), NEW q \in Seq(Event), NEW t, OrderedOf(r, q, t), NEW n \in Int,
         \A v \in PushedOf(r, q, t) : (n + 1) .. v \subseteq PushedOf(r, q, t)
  PROVE  \A v \in PushedOf(r, << >>, t) : (n + 1) .. v \subseteq PushedOf(r, << >>, t)
<1>1. PushedOf(r, << >>, t) = {r[i] : i \in 1 .. Len(r)}
  <2>1. QueuedOf(<< >>, t) = {}
    BY DEF QueuedOf
  <2> QED
    BY <2>1 DEF PushedOf
<1> SUFFICES ASSUME NEW i \in 1 .. Len(r), NEW k \in (n + 1) .. r[i]
             PROVE  k \in {r[j] : j \in 1 .. Len(r)}
  BY <1>1
<1>2. r[i] \in Nat /\ k \in Int /\ k <= r[i]
  OBVIOUS
<1>3. k \in PushedOf(r, q, t)
  BY DEF PushedOf
<1>4. CASE \E j \in QueuedOf(q, t) : k = q[j].version
  BY <1>2, <1>4 DEF OrderedOf
<1> QED
  BY <1>3, <1>4 DEF PushedOf

LEMMA NextGap ==
  ASSUME IInv, IInv', FeedInv, InitialSub = Sub, [Next]_vars, NoGap PROVE NoGap'
<1> SUFFICES ASSUME NEW s \in PostCommitSub, NEW t \in Pattern[s], NEW v \in Pushed(s, t)'
             PROVE  (seed'[s][t] + 1) .. v \subseteq Pushed(s, t)'
  BY DEF NoGap
<1>1. s \in Sub /\ s \notin SyncSub /\ t \in Topic
  BY SubAssumption DEF PostCommitSub
<1>2. \A u \in Pushed(s, t) : (seed[s][t] + 1) .. u \subseteq Pushed(s, t)
  BY DEF NoGap
<1>3. TypeOK /\ TypeOK' /\ SubsOK /\ AnnouncedOK
  BY DEF IInv, FeedInv
<1>4. /\ received[s][t] \in Seq(Nat) /\ queue[s] \in Seq(Event) /\ seed[s][t] \in Nat \cup {-1}
      /\ Pushed(s, t) \subseteq Nat
  BY <1>1, <1>3, SubTypes
<1>5. ASSUME UNCHANGED <<queue, seed>>, received'[s] = received[s]
      PROVE  (seed'[s][t] + 1) .. v \subseteq Pushed(s, t)'
  <2>1. Pushed(s, t)' = Pushed(s, t)
    BY <1>1, <1>5, PushedIs
  <2> QED
    BY <1>2, <1>5, <2>1
<1>6. ASSUME NEW w \in Writer, NEW panics, DispatchSync(w, panics)
      PROVE  (seed'[s][t] + 1) .. v \subseteq Pushed(s, t)'
  <2>1. queue' = queue /\ seed' = seed /\ received'[s] = received[s]
    BY <1>1, <1>6 DEF DispatchSync
  <2> QED
    BY <1>5, <2>1
<1>7. ASSUME NEW x \in Sub, Handle(x) \/ HandlerDies(x)
      PROVE  (seed'[s][t] + 1) .. v \subseteq Pushed(s, t)'
  <2>1. seed' = seed
    BY <1>7 DEF Handle, HandlerDies
  <2>2. Pushed(s, t)' = Pushed(s, t) \/ (queue'[s] = << >> /\ received'[s] = received[s])
    BY <1>1, <1>3, <1>7, HandlerSubKept
  <2>3. CASE Pushed(s, t)' = Pushed(s, t)
    BY <1>2, <2>1, <2>3
  <2>4. CASE queue'[s] = << >> /\ received'[s] = received[s]
    <3>1. /\ Pushed(s, t) = PushedOf(received[s][t], queue[s], t)
          /\ Pushed(s, t)' = PushedOf(received[s][t], << >>, t)
      BY <1>1, <2>4, PushedIs
    <3>2. OrderedOf(received[s][t], queue[s], t)
      BY <1>1, <1>3 DEF SubsOK, SubOK
    <3>3. seed[s][t] \in Int
      BY <1>4
    <3>4. v \in PushedOf(received[s][t], << >>, t)
      BY <3>1
    <3>5. \A u \in PushedOf(received[s][t], queue[s], t) :
            (seed[s][t] + 1) .. u \subseteq PushedOf(received[s][t], queue[s], t)
      BY <1>2, <3>1
    <3>6. (seed[s][t] + 1) .. v \subseteq PushedOf(received[s][t], << >>, t)
      BY <1>4, <3>2, <3>3, <3>4, <3>5, SeenHasNoGap
    <3> QED
      BY <2>1, <3>1, <3>6
  <2> QED
    BY <2>2, <2>3, <2>4
<1>8. ASSUME NEW x \in Sub, Seed(x) \/ Register(x) PROVE FALSE
  BY <1>3, <1>8 DEF Seed, Register, AnnouncedOK
<1>9. CASE (\E x \in Sub : Unsubscribe(x)) \/ Advance \/ Receive
  BY <1>5, <1>9 DEF Unsubscribe, Advance, Receive
<1>10. CASE Dispatch
  <2> DEFINE e == Head(dispatch)
             p == Position(s, t)
  <2>1. UNCHANGED <<received, seed>> /\ (queue'[s] # queue[s] =>
          s \in Wanting(e) /\ alive[s] /\ queue'[s] = Append(queue[s], e))
    BY <1>1, <1>10 DEF Dispatch
  <2>2. CASE queue'[s] = queue[s]
    <3>1. Pushed(s, t)' = Pushed(s, t)
      BY <1>1, <2>1, <2>2, PushedIs
    <3> QED
      BY <1>2, <2>1, <3>1
  <2>3. CASE queue'[s] # queue[s]
    <3>1. /\ e \in Event /\ queue'[s] = Append(queue[s], e)
          /\ e.topic = t => e.version = p + 1 /\ p \in Nat \cup {-1}
      BY <1>10, <2>1, <2>3, NextInFeed
    <3>2. status[s] = "live" /\ alive[s]
      BY <2>1, <2>3 DEF Wanting, Matching, Live
    <3>3. /\ \A u \in Pushed(s, t) \cup {seed[s][t]} : u <= p
          /\ p \in Pushed(s, t) \cup {seed[s][t]}
          /\ OrderedOf(received[s][t], queue[s], t)
      BY <1>1, <1>3, <3>2 DEF SubsOK, SubOK
    <3> HIDE DEF e, p
    <3>4. t = e.topic => \A u \in PushedOf(received[s][t], queue[s], t) : u < e.version
      BY <1>1, <1>4, <3>1, <3>3, PushedIs
    <3>5. Pushed(s, t)' = Pushed(s, t) \cup (IF t = e.topic THEN {e.version} ELSE {})
      <4>1. Pushed(s, t)' = PushedOf(received[s][t], Append(queue[s], e), t)
        BY <1>1, <2>1, <3>1, PushedIs
      <4>2. Pushed(s, t) = PushedOf(received[s][t], queue[s], t)
        BY <1>1, PushedIs
      <4> QED
        BY <1>1, <1>4, <3>1, <3>3, <3>4, <4>1, <4>2, PushSeq
    <3>6. CASE v \in Pushed(s, t)
      BY <1>2, <2>1, <3>5, <3>6
    <3>7. CASE v \notin Pushed(s, t)
      <4>1. v = p + 1 /\ t = e.topic /\ p \in Nat \cup {-1}
        BY <3>1, <3>5, <3>7
      <4>2. (seed[s][t] + 1) .. p \subseteq Pushed(s, t)
        BY <1>2, <1>4, <3>3
      <4>3. \A k \in (seed[s][t] + 1) .. (p + 1) : k = p + 1 \/ k \in (seed[s][t] + 1) .. p
        BY <1>4, <4>1
      <4>4. p + 1 \in Pushed(s, t)'
        BY <3>1, <3>5, <4>1
      <4> QED
        BY <2>1, <3>5, <4>1, <4>2, <4>3, <4>4
    <3> QED
      BY <3>6, <3>7
  <2> QED
    BY <2>2, <2>3
<1> QED
  BY <1>5, <1>6, <1>7, <1>8, <1>9, <1>10, Steps DEF feedVars

\* A subscription made before the first append gets every event since it began, without
\* a hole, as long as each topic is appended to by one thread or by other processes.
\* (The two runs that refute NoGap drop one of the two conditions each.)
THEOREM NoGapHolds ==
  ASSUME OneSource, FromTheStart
  PROVE  Spec => []NoGap
<1>1. Init => FeedInv /\ NoGap
  <2> SUFFICES ASSUME Init PROVE NoGap
    BY InitFeed
  <2>1. \A s \in PostCommitSub, t \in Topic : received[s][t] = << >> /\ queue[s] = << >>
    BY DEF Init, PostCommitSub
  <2>2. \A s \in PostCommitSub, t \in Topic : Pushed(s, t) = {}
    BY <2>1 DEF Pushed, Queued
  <2>3. \A s \in PostCommitSub : Pattern[s] \subseteq Topic
    BY SubAssumption DEF PostCommitSub
  <2> QED
    BY <2>2, <2>3 DEF NoGap
<1>2. IInv /\ IInv' /\ FeedInv /\ [Next]_vars => FeedInv'
  BY NextFeed
<1>3. IInv /\ IInv' /\ FeedInv /\ [Next]_vars /\ NoGap => NoGap'
  BY NextGap DEF FromTheStart
<1> QED
  BY <1>1, <1>2, <1>3, Invariant, PTL DEF Spec

=============================================================================
