--------------------------- MODULE Snapshots_proofs ---------------------------
(***************************************************************************)
(* Proofs that snapshots do not affect what is read: SnapshotsSound, the   *)
(* refinement of StateReads, the types and LatestOnlyAdvances, for all     *)
(* sets of threads, processes and reducers and any number of events.       *)
(*                                                                         *)
(* The first two assume two obligations of the users: reducers that share  *)
(* a key share their logic (SharedLogic), and no event is purged once a    *)
(* snapshot has folded it (~ PurgeFolded). Their invariant, IInv, extends  *)
(* the claim about the table to what the threads carry between their       *)
(* statements: the snapshot a fold starts from, and the row that is about  *)
(* to be written. The others assume nothing of the users, and rest on an   *)
(* invariant of their own, TInv.                                           *)
(***************************************************************************)
EXTENDS Snapshots, TLAPS, SequenceTheorems, FiniteSetTheorems, WellFoundedInduction

\* What MAX(version) relies on in find_latest_snapshot: a bounded set of
\* versions has a greatest one.
LEMMA BoundedHasMax ==
  ASSUME NEW V \in SUBSET Nat, V # {}, NEW n \in Nat, \A v \in V : v <= n
  PROVE  \E m \in V : \A v \in V : v <= m
<1> DEFINE U == {k \in Nat : \A v \in V : v <= k}
<1>1. PICK m \in U : \A k \in U : ~ (<<k, m>> \in OpToRel(<, Nat))
  <2>1. U # {} /\ U \subseteq Nat
    OBVIOUS
  <2> QED
    BY <2>1, NatLessThanWellFounded, WFMin
<1>2. m \in Nat /\ \A v \in V : v <= m
  OBVIOUS
<1>3. \A k \in U : ~ (k < m)
  BY <1>1, <1>2 DEF OpToRel
<1>4. ASSUME m \notin V PROVE FALSE
  <2>1. \A v \in V : v \in Nat /\ v < m
    BY <1>2, <1>4
  <2>2. m # 0
    <3>1. PICK v \in V : TRUE
      OBVIOUS
    <3> QED
      BY <2>1, <3>1
  <2>3. m - 1 \in U
    BY <1>2, <2>1, <2>2
  <2> QED
    BY <1>2, <1>3, <2>3
<1> QED
  BY <1>2, <1>4

\* Rows have versions below the number of appends.
LogOK ==
  /\ appended \in Nat
  /\ \A row \in log : row.version \in Nat /\ row.version < appended

\* The start of a fold: a sound snapshot, or the initial state before version 0.
BaseOK(r, bound, base) ==
  /\ Within(base.version, bound)
  /\ \/ base = [version |-> -1, state |-> InitialState]
     \/ SoundAt(r, base.version, base.state)

\* A snapshot row is sound for every reducer that may find it.
RowOK(s) ==
  \A r \in Reducers :
    Key(r) = <<s.name, s.schema>> => SoundAt(r, s.version, s.state)

CarriedOK(c) ==
  /\ c.at \in {"finding", "loading"} =>
       /\ c.reducer \in Reducers
       /\ c.bound \in Bounds
       /\ c.purpose = "snapshot" => c.bound = Unbounded
  /\ c.at = "loading" => BaseOK(c.reducer, c.bound, c.base)
  /\ c.at = "writing" => RowOK(c.row)

CallsOK ==
  /\ DOMAIN call = Threads
  /\ \A t \in Threads : CarriedOK(call[t])

\* A registry is filled entry by entry, so it has a most specific one.
RegistryOK ==
  /\ registry \in [Processes -> Seq(Reducers)]
  /\ \A p \in Processes :
       \E n \in Nat : \A i \in DOMAIN registry[p] : registry[p][i].specificity <= n

IInv ==
  /\ LogOK
  /\ RegistryOK
  /\ SnapshotsSound
  /\ CallsOK

-----------------------------------------------------------------------------
(* Lemmas about folds. *)

\* A state that is sound holds each event up to its version once.
LEMMA FoldOf ==
  ASSUME NEW r, NEW rows
  PROVE  Fold(r, rows) = [applied |-> rows \X {r.version}, again |-> {}]
BY DEF Fold, Apply, InitialState

\* Replaying the events after the base of a read gives the fold of the stream.
LEMMA FoldFromBase ==
  ASSUME LogOK, NEW r, NEW bound \in Bounds, NEW base, BaseOK(r, bound, base)
  PROVE  Apply(r, base.state, EventsAfterBase(base, bound))
           = Fold(r, RowsWithin(log, bound))
<1> DEFINE Before == IF base.version = -1 THEN {} ELSE RowsWithin(log, base.version)
           After == EventsAfterBase(base, bound)
<1>1. base.version \in Int /\ base.version >= -1
  BY DEF BaseOK, SoundAt, LogOK
<1>2. base.state = [applied |-> Before \X {r.version}, again |-> {}]
  <2>1. CASE base = [version |-> -1, state |-> InitialState]
    BY <2>1 DEF InitialState
  <2>2. CASE SoundAt(r, base.version, base.state)
    <3>1. base.version # -1
      BY <2>2 DEF SoundAt, LogOK
    <3> QED
      BY <2>2, <3>1, FoldOf DEF SoundAt
  <2> QED
    BY <2>1, <2>2 DEF BaseOK
<1>3. RowsWithin(log, bound) = Before \cup After
  BY <1>1 DEF BaseOK, LogOK, RowsWithin, Within, EventsAfterBase, RowsAfter,
              Unbounded, Bounds
<1>4. Before \cap After = {}
  BY <1>1 DEF LogOK, RowsWithin, Within, EventsAfterBase, RowsAfter, Unbounded
<1>5. (Before \X {r.version}) \cap (After \X {r.version}) = {}
  BY <1>4
<1>6. (Before \X {r.version}) \cup (After \X {r.version})
        = (Before \cup After) \X {r.version}
  OBVIOUS
<1> HIDE DEF Before, After
<1>7. Apply(r, base.state, After)
        = [applied |-> (Before \cup After) \X {r.version}, again |-> {}]
  BY <1>2, <1>5, <1>6 DEF Apply
<1> QED
  BY <1>3, <1>7, FoldOf DEF After

-----------------------------------------------------------------------------
(* Lemmas about what a change of the stream does to sound states. *)

LEMMA NextVersionAbove ==
  ASSUME LogOK
  PROVE  /\ NextVersion \in Nat
         /\ NextVersion <= appended
         /\ \A row \in log : row.version < NextVersion
<1> DEFINE V == {row.version : row \in log}
<1>1. CASE log = {}
  BY <1>1 DEF NextVersion, LogOK
<1>2. CASE log # {}
  <2>1. V \in SUBSET Nat /\ V # {} /\ \A v \in V : v <= appended
    BY <1>2 DEF LogOK
  <2>2. appended \in Nat
    BY DEF LogOK
  <2> HIDE DEF V
  <2>3. \E m \in V : \A v \in V : v <= m
    BY <2>1, <2>2, BoundedHasMax
  <2> DEFINE m == CHOOSE v \in V : \A w \in V : w <= v
  <2>4. m \in V /\ \A v \in V : v <= m
    BY <2>3
  <2>5. m = CHOOSE v \in V : \A row \in log : row.version <= v
    <3>1. \A v \in V : (\A w \in V : w <= v) <=> (\A row \in log : row.version <= v)
      BY DEF V
    <3> QED
      BY <3>1
  <2>6. NextVersion = 1 + m
    BY <1>2, <2>5 DEF NextVersion, V
  <2> HIDE DEF m
  <2> QED
    BY <2>1, <2>4, <2>6 DEF V, LogOK
<1> QED
  BY <1>1, <1>2

\* The next event comes after the version of every sound state.
LEMMA AppendKeepsSound ==
  ASSUME LogOK, AppendEvent
  PROVE  \A r, v, state : SoundAt(r, v, state) => SoundAt(r, v, state)'
<1> SUFFICES ASSUME NEW r, NEW v, NEW state, SoundAt(r, v, state)
             PROVE  SoundAt(r, v, state)'
  OBVIOUS
<1>1. PICK row \in log : row.version = v
  BY DEF SoundAt
<1>2. v \in Nat /\ v < NextVersion /\ NextVersion \in Nat
  BY <1>1, NextVersionAbove DEF LogOK
<1>3. RowsWithin(log', v) = RowsWithin(log, v)
  BY <1>2 DEF AppendEvent, RowsWithin, Within, Unbounded
<1>4. row \in log'
  BY DEF AppendEvent
<1> QED
  BY <1>1, <1>3, <1>4, FoldOf DEF SoundAt

\* A purged event that is not part of a sound state is after its version.
LEMMA PurgeKeepsSound ==
  ASSUME LogOK, NEW gone \in log, log' = log \ {gone}
  PROVE  \A r, v, state :
           SoundAt(r, v, state) /\ gone \notin {step[1] : step \in state.applied}
             => SoundAt(r, v, state)'
<1> SUFFICES ASSUME NEW r, NEW v, NEW state, SoundAt(r, v, state),
                    gone \notin {step[1] : step \in state.applied}
             PROVE  SoundAt(r, v, state)'
  OBVIOUS
<1>1. PICK row \in log : row.version = v
  BY DEF SoundAt
<1>2. state.applied = RowsWithin(log, v) \X {r.version}
  BY FoldOf DEF SoundAt
<1>3. gone \notin RowsWithin(log, v)
  <2>1. SUFFICES ASSUME gone \in RowsWithin(log, v) PROVE FALSE
    OBVIOUS
  <2>2. <<gone, r.version>> \in state.applied
    BY <1>2, <2>1
  <2> QED
    BY <2>2
<1>4. RowsWithin(log', v) = RowsWithin(log, v) /\ row \in log'
  BY <1>1, <1>3 DEF RowsWithin, Within, LogOK
<1> QED
  BY <1>1, <1>4, FoldOf DEF SoundAt

-----------------------------------------------------------------------------
(* The invariant. *)

LEMMA IdleOK == CarriedOK(Idle) /\ CarriedOK([at |-> "resolving"])
                /\ CarriedOK([at |-> "estimating"])
BY DEF CarriedOK, Idle

\* A thread moves on while the stream stands still.
LEMMA GotoKeeps ==
  ASSUME IInv, UNCHANGED log, NEW t \in Threads, NEW next, Goto(t, next),
         CarriedOK(next)
  PROVE  CallsOK'
<1>1. DOMAIN call' = Threads
  BY DEF Goto, IInv, CallsOK
<1>2. \A u \in Threads : call'[u] = IF u = t THEN next ELSE call[u]
  BY DEF Goto, IInv, CallsOK
<1>3. \A u \in Threads : CarriedOK(call'[u])
  BY <1>2 DEF IInv, CallsOK
<1>4. ASSUME NEW u \in Threads PROVE (CarriedOK(call[u]))'
  <2>1. CarriedOK(call'[u])
    BY <1>3
  <2> QED
    BY <2>1 DEF CarriedOK, BaseOK, RowOK, SoundAt
<1> QED
  BY <1>1, <1>4 DEF CallsOK

\* find_latest_snapshot returns a sound snapshot, if any.
LEMMA BaseIsOK ==
  ASSUME LogOK, SnapshotsSound, NEW r \in Reducers, NEW bound \in Bounds
  PROVE  BaseOK(r, bound, Base(r, bound))
<1> DEFINE U == Usable(r, bound)
           V == {s.version : s \in U}
<1>1. \A s \in U : SoundAt(r, s.version, s.state) /\ Within(s.version, bound)
  BY DEF Usable, SnapshotsSound
<1>2. CASE U = {}
  <2>1. Base(r, bound) = [version |-> -1, state |-> InitialState]
    BY <1>2 DEF Base
  <2>2. Within(-1, bound)
    BY VersionsAssumption DEF Within, Unbounded, Bounds
  <2> QED
    BY <2>1, <2>2 DEF BaseOK
<1>3. CASE U # {}
  <2>1. V \in SUBSET Nat /\ V # {} /\ \A v \in V : v <= appended
    BY <1>1, <1>3 DEF SoundAt, LogOK
  <2>2. appended \in Nat
    BY DEF LogOK
  <2>3. \E m \in V : \A v \in V : v <= m
    <3> HIDE DEF V
    <3> QED
      BY <2>1, <2>2, BoundedHasMax
  <2> DEFINE s == CHOOSE x \in U : \A y \in U : y.version <= x.version
  <2>4. s \in U
    <3>1. \E x \in U : \A y \in U : y.version <= x.version
      BY <2>3
    <3> QED
      BY <3>1
  <2>5. Base(r, bound) = [version |-> s.version, state |-> s.state]
    BY <1>3 DEF Base
  <2> HIDE DEF s, U
  <2> QED
    BY <1>1, <2>4, <2>5 DEF BaseOK
<1> QED
  BY <1>2, <1>3

\* The row that take_snapshot computes is sound.
LEMMA NewRowIsOK ==
  ASSUME LogOK, SharedLogic, NEW r \in Reducers, NEW base,
         BaseOK(r, Unbounded, base), EventsAfterBase(base, Unbounded) # {}
  PROVE  LET rows == EventsAfterBase(base, Unbounded)
             last == CHOOSE v \in {x.version : x \in rows} :
                       \A x \in rows : x.version <= v
         IN  SoundAt(r, last, Apply(r, base.state, rows))
<1> DEFINE rows == EventsAfterBase(base, Unbounded)
           V == {x.version : x \in rows}
           last == CHOOSE v \in V : \A x \in rows : x.version <= v
<1>1. rows \subseteq log /\ V \in SUBSET Nat /\ V # {}
      /\ \A v \in V : v <= appended
  BY DEF EventsAfterBase, RowsWithin, RowsAfter, LogOK
<1>2. appended \in Nat
  BY DEF LogOK
<1>3. \E m \in V : \A v \in V : v <= m
  <2> HIDE DEF V
  <2> QED
    BY <1>1, <1>2, BoundedHasMax
<1>4. last \in V /\ \A x \in rows : x.version <= last
  <2>1. \E m \in V : \A x \in rows : x.version <= m
    BY <1>3
  <2> QED
    BY <2>1
<1>5. \E row \in log : row.version = last
  BY <1>1, <1>4
<1>6. Apply(r, base.state, rows) = Fold(r, log)
  <2>1. RowsWithin(log, Unbounded) = log /\ Unbounded \in Bounds
    BY DEF RowsWithin, Within, Unbounded, Bounds
  <2> QED
    BY <2>1, FoldFromBase
<1>7. RowsWithin(log, last) = log
  <2> HIDE DEF last
  <2>1. base.version \in Int /\ base.version < last
    BY <1>1, <1>4 DEF BaseOK, SoundAt, LogOK, EventsAfterBase, RowsWithin, RowsAfter
  <2>2. ASSUME NEW row \in log PROVE row.version <= last
    <3>1. CASE row.version > base.version
      <4>1. row \in rows
        BY <3>1 DEF EventsAfterBase, RowsWithin, RowsAfter, Within, Unbounded
      <4> QED
        BY <1>4, <4>1
    <3>2. CASE ~ (row.version > base.version)
      BY <2>1, <3>2, <1>1, <1>4 DEF LogOK
    <3> QED
      BY <3>1, <3>2
  <2> QED
    BY <2>2 DEF RowsWithin, Within
<1> HIDE DEF last
<1>8. SoundAt(r, last, Apply(r, base.state, rows))
  BY <1>5, <1>6, <1>7 DEF SoundAt
<1> QED
  BY <1>8 DEF last

\* A reducer that is looked up is a registered one.
LEMMA ReducerOfIsRegistered ==
  ASSUME RegistryOK, NEW p \in Processes, registry[p] # <<>>
  PROVE  ReducerOf(p) \in Reducers
<1> DEFINE V == {r.specificity : r \in Entries(p)}
<1>1. Entries(p) \subseteq Reducers /\ Entries(p) # {}
  <2>1. registry[p] \in Seq(Reducers)
    BY DEF RegistryOK
  <2>2. Len(registry[p]) # 0
    BY <2>1, EmptySeq
  <2>3. 1 \in DOMAIN registry[p]
    BY <2>1, <2>2
  <2>4. registry[p][1] \in Entries(p)
    BY <2>3 DEF Entries
  <2>5. \A i \in DOMAIN registry[p] : registry[p][i] \in Reducers
    BY <2>1
  <2> QED
    BY <2>4, <2>5 DEF Entries
<1>2. V \in SUBSET Nat /\ V # {}
  BY <1>1, ReducersAssumption
<1>3. PICK n \in Nat : \A v \in V : v <= n
  BY DEF RegistryOK, Entries
<1>4. \E m \in V : \A v \in V : v <= m
  <2> HIDE DEF V
  <2> QED
    BY <1>2, <1>3, BoundedHasMax
<1>5. \E r \in Entries(p) : \A q \in Entries(p) : q.specificity <= r.specificity
  BY <1>4
<1> QED
  BY <1>1, <1>5 DEF ReducerOf

\* A thread moves on to a sound place; what it adds to the table is sound.
LEMMA GotoStep ==
  ASSUME IInv, NEW t \in Threads, NEW next, Goto(t, next), CarriedOK(next),
         UNCHANGED <<log, appended, registry>>,
         \A s \in snaps' : s \in snaps \/ RowOK(s)
  PROVE  IInv'
<1>1. LogOK' /\ CallsOK'
  BY GotoKeeps DEF IInv, LogOK
<1>2. RegistryOK'
  BY DEF IInv, RegistryOK
<1>3. \A s \in snaps' : RowOK(s)
  BY DEF IInv, SnapshotsSound, RowOK
<1>4. SnapshotsSound'
  BY <1>3 DEF SnapshotsSound, RowOK, SoundAt
<1> QED
  BY <1>1, <1>2, <1>4 DEF IInv

\* The stream changes, and all that is carried or stored is still sound.
LEMMA LogStep ==
  ASSUME IInv, LogOK', UNCHANGED <<snaps, registry, call>>,
         \A s \in snaps : RowOK(s)',
         \A t \in Threads : (CarriedOK(call[t]))'
  PROVE  IInv'
<1>1. SnapshotsSound'
  BY DEF SnapshotsSound, RowOK
<1>2. RegistryOK' /\ CallsOK'
  BY DEF IInv, RegistryOK, CallsOK
<1> QED
  BY <1>1, <1>2 DEF IInv

LEMMA AppendStep ==
  ASSUME IInv, AppendEvent
  PROVE  IInv'
<1>1. \A r, v, state : SoundAt(r, v, state) => SoundAt(r, v, state)'
  BY AppendKeepsSound DEF IInv
<1>2. LogOK'
  BY NextVersionAbove DEF IInv, LogOK, AppendEvent
<1>3. \A s \in snaps : RowOK(s)'
  BY <1>1 DEF IInv, SnapshotsSound, RowOK
<1>4. ASSUME NEW t \in Threads PROVE (CarriedOK(call[t]))'
  <2>1. CarriedOK(call[t])
    BY DEF IInv, CallsOK
  <2>2. call' = call
    BY DEF AppendEvent
  <2> QED
    BY <1>1, <2>1, <2>2 DEF CarriedOK, BaseOK, RowOK
<1> QED
  BY <1>2, <1>3, <1>4, LogStep DEF AppendEvent

LEMMA PurgeStep ==
  ASSUME ~ PurgeFolded, IInv, PurgeEvent
  PROVE  IInv'
<1>1. PICK gone \in log : gone \notin FoldedRows /\ log' = log \ {gone}
  BY DEF PurgeEvent
<1> DEFINE Kept(state) == gone \notin {step[1] : step \in state.applied}
<1>2. \A r, v, state : SoundAt(r, v, state) /\ Kept(state) => SoundAt(r, v, state)'
  BY <1>1, PurgeKeepsSound DEF IInv
<1>3. \A s \in snaps : Kept(s.state)
  BY <1>1 DEF FoldedRows
<1>4. \A t \in Threads : call[t].at = "loading" => Kept(call[t].base.state)
  BY <1>1 DEF FoldedRows
<1>5. \A t \in Threads : call[t].at = "writing" => Kept(call[t].row.state)
  BY <1>1 DEF FoldedRows
<1> HIDE DEF Kept
<1>6. LogOK'
  BY <1>1 DEF IInv, LogOK, PurgeEvent
<1>7. \A s \in snaps : RowOK(s)'
  BY <1>2, <1>3 DEF IInv, SnapshotsSound, RowOK
<1>8. ASSUME NEW t \in Threads PROVE (CarriedOK(call[t]))'
  <2>1. CarriedOK(call[t])
    BY DEF IInv, CallsOK
  <2>2. call' = call
    BY DEF PurgeEvent
  <2> QED
    BY <1>2, <1>4, <1>5, <2>1, <2>2 DEF CarriedOK, BaseOK, RowOK
<1> QED
  BY <1>6, <1>7, <1>8, LogStep DEF PurgeEvent

\* register_reducer adds one entry, which may be the most specific.
LEMMA RegistryGrows ==
  ASSUME RegistryOK, NEW p \in Processes, NEW r \in Reducers, Register(p, r)
  PROVE  RegistryOK'
<1>1. registry \in [Processes -> Seq(Reducers)]
  BY DEF RegistryOK
<1>2. registry' = [registry EXCEPT ![p] = Append(@, r)]
  BY DEF Register
<1>3. registry' \in [Processes -> Seq(Reducers)]
  BY <1>1, <1>2
<1>4. ASSUME NEW q \in Processes
      PROVE  \E n \in Nat : \A i \in DOMAIN registry'[q] :
               registry'[q][i].specificity <= n
  <2>1. PICK n \in Nat : \A i \in DOMAIN registry[q] :
                            registry[q][i].specificity <= n
    BY DEF RegistryOK
  <2>2. /\ r.specificity \in Nat
        /\ \A i \in DOMAIN registry[q] : registry[q][i].specificity \in Nat
    BY <1>1, ReducersAssumption
  <2>3. \A i \in DOMAIN registry'[q] :
          \/ registry'[q][i] = r
          \/ i \in DOMAIN registry[q] /\ registry'[q][i] = registry[q][i]
    BY <1>1, <1>2
  <2>4. \A i \in DOMAIN registry'[q] :
          registry'[q][i].specificity <= n + r.specificity
    BY <2>1, <2>2, <2>3
  <2>5. n + r.specificity \in Nat
    BY <2>2
  <2> QED
    BY <2>4, <2>5
<1> QED
  BY <1>3, <1>4 DEF RegistryOK

\* A process that starts again has an empty registry.
LEMMA RegistryClears ==
  ASSUME RegistryOK, NEW p \in Processes, Restart(p)
  PROVE  RegistryOK'
<1>1. registry' = [registry EXCEPT ![p] = <<>>] /\ <<>> \in Seq(Reducers)
  BY DEF Restart
<1>2. registry' \in [Processes -> Seq(Reducers)]
  BY <1>1 DEF RegistryOK
<1>3. \A q \in Processes : registry'[q] = registry[q] \/ DOMAIN registry'[q] = {}
  BY <1>1 DEF RegistryOK
<1> QED
  BY <1>2, <1>3 DEF RegistryOK

LEMMA RegisterStep ==
  ASSUME IInv, NEW p \in Processes, NEW r \in Reducers, Register(p, r)
  PROVE  IInv'
<1>1. RegistryOK'
  BY RegistryGrows DEF IInv
<1>2. UNCHANGED <<log, appended, snaps, call>>
  BY DEF Register
<1>3. LogOK' /\ SnapshotsSound'
  BY <1>2 DEF IInv, LogOK, SnapshotsSound, SoundAt
<1>4. CallsOK'
  BY <1>2 DEF IInv, CallsOK, CarriedOK, BaseOK, RowOK, SoundAt
<1> QED
  BY <1>1, <1>3, <1>4 DEF IInv

LEMMA RestartStep ==
  ASSUME IInv, NEW p \in Processes, Restart(p)
  PROVE  IInv'
<1>1. RegistryOK'
  BY RegistryClears DEF IInv
<1>2. CallsOK'
  <2>1. DOMAIN call' = Threads
    BY DEF Restart
  <2>2. ASSUME NEW t \in Threads PROVE (CarriedOK(call[t]))'
    <3>1. CarriedOK(call[t]) /\ CarriedOK(Idle)
      BY IdleOK DEF IInv, CallsOK
    <3>2. call'[t] = Idle \/ call'[t] = call[t]
      BY DEF Restart
    <3> QED
      BY <3>1, <3>2 DEF CarriedOK, BaseOK, RowOK, SoundAt, Restart
  <2> QED
    BY <2>1, <2>2 DEF CallsOK
<1> QED
  BY <1>1, <1>2 DEF IInv, LogOK, SnapshotsSound, SoundAt, Restart

\* The steps of a thread that look something up, fold or write.
LEMMA ThreadStep ==
  ASSUME SharedLogic, IInv, NEW t \in Threads,
         \/ CallReadState(t) \/ CallReadAtVersion(t) \/ CallReadWithReducer(t)
         \/ FindSnapshot(t) \/ FoldEvents(t)
         \/ Return(t) \/ CountEvents(t) \/ CountAdaptively(t) \/ Estimate(t)
         \/ CallTakeSnapshot(t) \/ Resolve(t)
         \/ FoldForSnapshot(t) \/ WriteSnapshot(t)
         \/ CallCollect(t) \/ SelectOrphans(t) \/ DeleteOrphans(t)
         \/ Fail(t)
  PROVE  IInv'
<1> USE DEF Finding
<1> DEFINE c == call[t]
<1>1. CarriedOK(c) /\ LogOK /\ RegistryOK /\ SnapshotsSound
  BY DEF IInv, CallsOK
<1>2. Home[t] \in Processes
  BY HomeAssumption
<1>3. CASE CallReadState(t)
  <2> DEFINE next == Finding("read", ReducerOf(Home[t]), Unbounded)
  <2>1. ReducerOf(Home[t]) \in Reducers
    BY <1>1, <1>2, <1>3, ReducerOfIsRegistered DEF CallReadState
  <2>2. CarriedOK(next)
    BY <2>1 DEF CarriedOK, Bounds
  <2> QED
    BY <1>3, <2>2, GotoStep DEF CallReadState
<1>4. CASE CallReadAtVersion(t)
  <2>1. PICK v \in Versions : Goto(t, Finding("read", ReducerOf(Home[t]), v))
    BY <1>4 DEF CallReadAtVersion
  <2>2. ReducerOf(Home[t]) \in Reducers
    BY <1>1, <1>2, <1>4, ReducerOfIsRegistered DEF CallReadAtVersion
  <2>3. CarriedOK(Finding("read", ReducerOf(Home[t]), v))
    BY <2>2 DEF CarriedOK, Bounds
  <2> QED
    BY <1>4, <2>1, <2>3, GotoStep DEF CallReadAtVersion
<1>20. CASE CallReadWithReducer(t)
  <2>1. PICK i \in DOMAIN registry[Home[t]], v \in Versions :
          Goto(t, Finding("read", registry[Home[t]][i], v))
    BY <1>20 DEF CallReadWithReducer
  <2>2. registry[Home[t]][i] \in Reducers
    BY <1>1, <1>2 DEF RegistryOK
  <2>3. CarriedOK(Finding("read", registry[Home[t]][i], v))
    BY <2>2 DEF CarriedOK, Bounds
  <2> QED
    BY <1>20, <2>1, <2>3, GotoStep DEF CallReadWithReducer
<1>5. CASE FindSnapshot(t)
  <2> DEFINE next == [at |-> "loading", purpose |-> c.purpose, reducer |-> c.reducer,
                      bound |-> c.bound, base |-> Base(c.reducer, c.bound)]
  <2>1. /\ c.reducer \in Reducers /\ c.bound \in Bounds
        /\ c.purpose = "snapshot" => c.bound = Unbounded
    BY <1>1, <1>5 DEF CarriedOK, FindSnapshot
  <2>2. BaseOK(c.reducer, c.bound, Base(c.reducer, c.bound))
    BY <1>1, <2>1, BaseIsOK
  <2>3. CarriedOK(next)
    BY <2>1, <2>2 DEF CarriedOK
  <2>4. Goto(t, next)
    BY <1>5 DEF FindSnapshot
  <2> HIDE DEF next
  <2> QED
    BY <1>5, <2>3, <2>4, GotoStep DEF FindSnapshot
<1>6. CASE FoldEvents(t)
  <2>1. PICK next : Goto(t, next) /\ next.at = "folded"
    BY <1>6 DEF FoldEvents
  <2>2. CarriedOK(next)
    BY <2>1 DEF CarriedOK
  <2> QED
    BY <1>6, <2>1, <2>2, GotoStep DEF FoldEvents
<1>7. CASE Return(t)
  BY <1>7, IdleOK, GotoStep DEF Return
<1>8. CASE CountEvents(t)
  BY <1>8, IdleOK, GotoStep DEF CountEvents
<1>9. CASE CountAdaptively(t)
  BY <1>9, IdleOK, GotoStep DEF CountAdaptively
<1>10. CASE Estimate(t)
  BY <1>10, IdleOK, GotoStep DEF Estimate
<1>11. CASE CallTakeSnapshot(t)
  BY <1>11, IdleOK, GotoStep DEF CallTakeSnapshot
<1>12. CASE Resolve(t)
  <2> DEFINE next == Finding("snapshot", ReducerOf(Home[t]), Unbounded)
  <2>1. ReducerOf(Home[t]) \in Reducers
    BY <1>1, <1>2, <1>12, ReducerOfIsRegistered DEF Resolve
  <2>2. CarriedOK(next)
    BY <2>1 DEF CarriedOK, Bounds
  <2> QED
    BY <1>12, <2>2, GotoStep DEF Resolve
<1>13. CASE FoldForSnapshot(t)
  <2> DEFINE rows == EventsAfterBase(c.base, Unbounded)
             last == CHOOSE v \in {x.version : x \in rows} :
                       \A x \in rows : x.version <= v
             state == Apply(c.reducer, c.base.state, rows)
             row == [name |-> c.reducer.name, schema |-> c.reducer.schema,
                     version |-> last, reducer_version |-> c.reducer.version,
                     state |-> state]
  <2>1. c.reducer \in Reducers /\ BaseOK(c.reducer, Unbounded, c.base)
    BY <1>1, <1>13 DEF CarriedOK, FoldForSnapshot
  <2>2. CASE rows = {}
    BY <1>13, <2>2, IdleOK, GotoStep DEF FoldForSnapshot
  <2>3. CASE rows # {}
    <3>1. SoundAt(c.reducer, last, state)
      BY <1>1, <2>1, <2>3, NewRowIsOK
    <3>2. Goto(t, [at |-> "writing", row |-> row])
      BY <1>13, <2>3 DEF FoldForSnapshot
    <3> HIDE DEF last, state
    <3>3. RowOK(row)
      BY <2>1, <3>1, FoldOf DEF RowOK, SharedLogic, Key, SoundAt
    <3> HIDE DEF row
    <3>4. CarriedOK([at |-> "writing", row |-> row])
      BY <3>3 DEF CarriedOK
    <3> QED
      BY <1>13, <3>2, <3>4, GotoStep DEF FoldForSnapshot
  <2> QED
    BY <2>2, <2>3
<1>14. CASE WriteSnapshot(t)
  <2>1. \A s \in snaps' : s \in snaps \/ RowOK(s)
    BY <1>1, <1>14 DEF WriteSnapshot, Replace, CarriedOK
  <2> QED
    BY <1>14, <2>1, IdleOK, GotoStep DEF WriteSnapshot
<1>15. CASE CallCollect(t)
  <2>1. CarriedOK([at |-> "selecting", active |-> ActiveKeys(Home[t])])
    BY DEF CarriedOK
  <2> QED
    BY <1>15, <2>1, GotoStep DEF CallCollect
<1>16. \A active, keys : CarriedOK(Collecting(active, keys))
  BY IdleOK DEF Collecting, CarriedOK
<1>17. CASE SelectOrphans(t)
  BY <1>16, <1>17, IdleOK, GotoStep DEF SelectOrphans
<1>18. CASE DeleteOrphans(t)
  BY <1>16, <1>18, GotoStep DEF DeleteOrphans
<1>19. CASE Fail(t)
  BY <1>19, IdleOK, GotoStep DEF Fail
<1> QED
  BY <1>3, <1>4, <1>5, <1>6, <1>7, <1>8, <1>9, <1>10, <1>11, <1>12, <1>13,
     <1>14, <1>15, <1>17, <1>18, <1>19, <1>20

\* The inductive invariant, under the two obligations of the users: what the
\* table holds and what calls in progress carry is sound at every moment.
THEOREM Invariant ==
  ASSUME ~ PurgeFolded, SharedLogic
  PROVE  Spec => []IInv
<1>1. Init => IInv
  BY IdleOK DEF Init, IInv, LogOK, RegistryOK, SnapshotsSound, CallsOK
<1>2. IInv /\ [Next]_vars => IInv'
  <2> SUFFICES ASSUME IInv, [Next]_vars PROVE IInv'
    OBVIOUS
  <2>1. CASE AppendEvent
    BY <2>1, AppendStep
  <2>2. CASE PurgeEvent
    BY <2>2, PurgeStep
  <2>3. ASSUME NEW p \in Processes, NEW r \in Reducers, Register(p, r) PROVE IInv'
    BY <2>3, RegisterStep
  <2>4. ASSUME NEW p \in Processes, Restart(p) PROVE IInv'
    BY <2>4, RestartStep
  <2>5. CASE UNCHANGED vars
    BY <2>5 DEF vars, IInv, LogOK, RegistryOK, SnapshotsSound, CallsOK,
                CarriedOK, BaseOK, RowOK, SoundAt
  <2> QED
    BY <2>1, <2>2, <2>3, <2>4, <2>5, ThreadStep DEF Next
<1> QED
  BY <1>1, <1>2, PTL DEF Spec

\* Every snapshot in the table is the fold of the events up to its version,
\* through any reducer whose key find_latest_snapshot matches it with.
THEOREM SnapshotsSoundHolds ==
  ASSUME ~ PurgeFolded, SharedLogic
  PROVE  Spec => []SnapshotsSound
<1>1. IInv => SnapshotsSound
  BY DEF IInv
<1> QED
  BY <1>1, Invariant, PTL

-----------------------------------------------------------------------------
(* The refinement of StateReads. *)

\* The read that a place in a call stands for; Reading is this for each thread.
ReadOf(c) ==
  CASE c.at \in {"finding", "loading"} /\ c.purpose = "read" ->
         [reducer |-> c.reducer, bound |-> c.bound]
    [] c.at = "folded" ->
         [reducer |-> c.reducer, bound |-> c.bound, state |-> c.state]
    [] OTHER -> None

LEMMA ReadingIs ==
  /\ Reading = [t \in Threads |-> ReadOf(call[t])]
  /\ Reading' = [t \in Threads |-> ReadOf(call'[t])]
BY DEF Reading, ReadOf

\* The two definitions of the fold are one.
LEMMA SameFold ==
  \A r, rows, bound :
    /\ Abstract!Fold(r, rows) = Fold(r, rows)
    /\ Abstract!RowsWithin(rows, bound) = RowsWithin(rows, bound)
BY DEF Abstract!Fold, Abstract!Apply, Abstract!InitialState, Fold, Apply,
       InitialState, Abstract!RowsWithin, Abstract!Within, Abstract!Unbounded,
       RowsWithin, Within, Unbounded

LEMMA NoReadOf ==
  /\ ReadOf(Idle) = None
  /\ ReadOf([at |-> "resolving"]) = None
  /\ ReadOf([at |-> "estimating"]) = None
  /\ \A active, keys : ReadOf(Collecting(active, keys)) = None
BY DEF ReadOf, Idle, Collecting

LEMMA GotoReading ==
  ASSUME IInv, NEW t \in Threads, NEW next, Goto(t, next)
  PROVE  Reading' = [Reading EXCEPT ![t] = ReadOf(next)]
BY ReadingIs DEF Goto, IInv, CallsOK

\* A step after which the thread is in no read ends the one it was in, if any.
LEMMA EndsRead ==
  ASSUME IInv, UNCHANGED log, NEW t \in Threads, NEW next, Goto(t, next),
         ReadOf(next) = None
  PROVE  Abstract!Next
<1>1. Reading' = [u \in Threads |-> IF u \in {t} THEN None ELSE Reading[u]]
  <2>1. \A u \in Threads : call'[u] = IF u = t THEN next ELSE call[u]
    BY DEF Goto, IInv, CallsOK
  <2>2. \A u \in Threads :
          ReadOf(call'[u]) = IF u \in {t} THEN None ELSE Reading[u]
    BY <2>1, ReadingIs
  <2> QED
    BY <2>2, ReadingIs
<1> QED
  BY <1>1 DEF Abstract!Next, Abstract!End

\* A step that leaves the read of the thread as it was is a stutter.
LEMMA KeepsRead ==
  ASSUME IInv, UNCHANGED log, NEW t \in Threads, NEW next, Goto(t, next),
         ReadOf(next) = ReadOf(call[t])
  PROVE  UNCHANGED Abstract!vars
BY GotoReading, ReadingIs DEF Abstract!vars

LEMMA BeginsRead ==
  ASSUME IInv, UNCHANGED log, NEW t \in Threads, call[t] = Idle,
         NEW r \in Reducers, NEW bound \in Bounds, Goto(t, Finding("read", r, bound))
  PROVE  Abstract!Next
<1>1. ReadOf(Finding("read", r, bound)) = [reducer |-> r, bound |-> bound]
  BY DEF ReadOf, Finding
<1>2. Reading[t] = None
  BY ReadingIs, NoReadOf
<1>3. Abstract!Begin(t)
  BY <1>1, <1>2, GotoReading DEF Abstract!Begin
<1> QED
  BY <1>3 DEF Abstract!Next

\* The fold of a read is that of the whole stream at the moment of its query.
LEMMA FoldReturns ==
  ASSUME IInv, NEW t \in Threads, FoldEvents(t)
  PROVE  Abstract!Next
<1> DEFINE c == call[t]
           rows == EventsAfterBase(c.base, c.bound)
           state == Apply(c.reducer, c.base.state, rows)
           next == [at |-> "folded", reducer |-> c.reducer, bound |-> c.bound,
                    state |-> state, applied |-> Cardinality(rows)]
<1>1. /\ c.at = "loading" /\ c.purpose = "read"
      /\ Goto(t, next) /\ UNCHANGED log
  BY DEF FoldEvents
<1>2. /\ c.reducer \in Reducers /\ c.bound \in Bounds /\ LogOK
      /\ BaseOK(c.reducer, c.bound, c.base)
  BY <1>1 DEF IInv, CallsOK, CarriedOK
<1>3. state = Abstract!Fold(c.reducer, Abstract!RowsWithin(log, c.bound))
  BY <1>2, FoldFromBase, SameFold
<1> HIDE DEF state
<1>4. ReadOf(next) = [reducer |-> c.reducer, bound |-> c.bound, state |-> state]
  BY DEF ReadOf
<1>5. Reading[t] = [reducer |-> c.reducer, bound |-> c.bound]
  BY <1>1, ReadingIs DEF ReadOf
<1>6. Reading' = [Reading EXCEPT ![t] =
                    [reducer |-> c.reducer, bound |-> c.bound, state |-> state]]
  BY <1>1, <1>4, GotoReading
<1>7. Abstract!Return(t)
  BY <1>1, <1>2, <1>3, <1>5, <1>6 DEF Abstract!Return
<1> QED
  BY <1>7 DEF Abstract!Next

\* The steps of a thread, as steps of the abstract reads.
LEMMA ThreadReads ==
  ASSUME IInv, NEW t \in Threads,
         \/ CallReadState(t) \/ CallReadAtVersion(t) \/ CallReadWithReducer(t)
         \/ FindSnapshot(t) \/ FoldEvents(t)
         \/ Return(t) \/ CountEvents(t) \/ CountAdaptively(t) \/ Estimate(t)
         \/ CallTakeSnapshot(t) \/ Resolve(t)
         \/ FoldForSnapshot(t) \/ WriteSnapshot(t)
         \/ CallCollect(t) \/ SelectOrphans(t) \/ DeleteOrphans(t)
         \/ Fail(t)
  PROVE  [Abstract!Next]_Abstract!vars
<1>1. Home[t] \in Processes /\ RegistryOK
  BY HomeAssumption DEF IInv
<1>2. CASE CallReadState(t)
  <2>1. ReducerOf(Home[t]) \in Reducers
    BY <1>1, <1>2, ReducerOfIsRegistered DEF CallReadState
  <2>2. Unbounded \in Bounds
    BY DEF Bounds
  <2> QED
    BY <1>2, <2>1, <2>2, BeginsRead DEF CallReadState
<1>3. CASE CallReadAtVersion(t)
  <2>1. ReducerOf(Home[t]) \in Reducers
    BY <1>1, <1>3, ReducerOfIsRegistered DEF CallReadAtVersion
  <2>2. \A v \in Versions : v \in Bounds
    BY DEF Bounds
  <2> QED
    BY <1>3, <2>1, <2>2, BeginsRead DEF CallReadAtVersion
<1>18. CASE CallReadWithReducer(t)
  <2>1. PICK i \in DOMAIN registry[Home[t]], v \in Versions :
          Goto(t, Finding("read", registry[Home[t]][i], v))
    BY <1>18 DEF CallReadWithReducer
  <2>2. registry[Home[t]][i] \in Reducers /\ v \in Bounds
    BY <1>1 DEF RegistryOK, Bounds
  <2> QED
    BY <1>18, <2>1, <2>2, BeginsRead DEF CallReadWithReducer
<1>4. CASE FindSnapshot(t)
  <2> DEFINE c == call[t]
             next == [at |-> "loading", purpose |-> c.purpose, reducer |-> c.reducer,
                      bound |-> c.bound, base |-> Base(c.reducer, c.bound)]
  <2>1. ReadOf(next) = ReadOf(c)
    BY <1>4 DEF ReadOf, FindSnapshot
  <2>2. Goto(t, next) /\ UNCHANGED log
    BY <1>4 DEF FindSnapshot
  <2> QED
    BY <2>1, <2>2, KeepsRead
<1>5. CASE FoldEvents(t)
  BY <1>5, FoldReturns
<1>6. CASE Return(t)
  BY <1>6, NoReadOf, EndsRead DEF Return
<1>7. CASE CountEvents(t)
  BY <1>7, NoReadOf, EndsRead DEF CountEvents
<1>8. CASE CountAdaptively(t)
  BY <1>8, NoReadOf, EndsRead DEF CountAdaptively
<1>9. CASE Estimate(t)
  BY <1>9, NoReadOf, EndsRead DEF Estimate
<1>10. CASE CallTakeSnapshot(t)
  BY <1>10, NoReadOf, EndsRead DEF CallTakeSnapshot
<1>11. CASE Resolve(t)
  <2>1. ReadOf(Finding("snapshot", ReducerOf(Home[t]), Unbounded)) = None
    BY DEF ReadOf, Finding
  <2> QED
    BY <1>11, <2>1, EndsRead DEF Resolve
<1>12. CASE FoldForSnapshot(t)
  <2>1. \A row : ReadOf([at |-> "writing", row |-> row]) = None
    BY DEF ReadOf
  <2> QED
    BY <1>12, <2>1, NoReadOf, EndsRead DEF FoldForSnapshot
<1>13. CASE WriteSnapshot(t)
  BY <1>13, NoReadOf, EndsRead DEF WriteSnapshot
<1>14. CASE CallCollect(t)
  <2>1. ReadOf([at |-> "selecting", active |-> ActiveKeys(Home[t])]) = None
    BY DEF ReadOf
  <2> QED
    BY <1>14, <2>1, EndsRead DEF CallCollect
<1>15. CASE SelectOrphans(t)
  BY <1>15, NoReadOf, EndsRead DEF SelectOrphans
<1>16. CASE DeleteOrphans(t)
  BY <1>16, NoReadOf, EndsRead DEF DeleteOrphans
<1>17. CASE Fail(t)
  BY <1>17, NoReadOf, EndsRead DEF Fail
<1> QED
  BY <1>2, <1>3, <1>4, <1>5, <1>6, <1>7, <1>8, <1>9, <1>10, <1>11, <1>12,
     <1>13, <1>14, <1>15, <1>16, <1>17, <1>18

\* Snapshots never affect what is read: every behaviour of the store is one of
\* reads that know of no snapshots.
THEOREM RefinesStateReadsHolds ==
  ASSUME ~ PurgeFolded, SharedLogic
  PROVE  Spec => RefinesStateReads
<1>1. Init => Abstract!Init
  BY ReadingIs, NoReadOf DEF Init, Abstract!Init
<1>2. IInv /\ [Next]_vars => [Abstract!Next]_Abstract!vars
  <2> SUFFICES ASSUME IInv, [Next]_vars PROVE [Abstract!Next]_Abstract!vars
    OBVIOUS
  <2>1. CASE AppendEvent
    <3>1. Reading' = Reading
      BY <2>1, ReadingIs DEF AppendEvent
    <3> DEFINE row == [version |-> NextVersion, event |-> appended]
    <3>2. row \in log' /\ log' = log \cup {row}
      BY <2>1 DEF AppendEvent
    <3>3. \A other \in log : other.version < row.version
      BY NextVersionAbove DEF IInv
    <3> QED
      BY <3>1, <3>2, <3>3 DEF Abstract!Next, Abstract!Change
  <2>2. CASE PurgeEvent
    <3>1. Reading' = Reading
      BY <2>2, ReadingIs DEF PurgeEvent
    <3> QED
      BY <2>2, <3>1 DEF PurgeEvent, Abstract!Next, Abstract!Change
  <2>3. ASSUME NEW p \in Processes, NEW r \in Reducers, Register(p, r)
        PROVE  UNCHANGED Abstract!vars
    BY <2>3, ReadingIs DEF Register, Abstract!vars
  <2>4. ASSUME NEW p \in Processes, Restart(p) PROVE Abstract!Next
    <3> DEFINE T == {t \in Threads : Home[t] = p}
    <3>1. Reading' = [t \in Threads |-> IF t \in T THEN None ELSE Reading[t]]
      BY <2>4, ReadingIs, NoReadOf DEF Restart
    <3> QED
      BY <2>4, <3>1 DEF Restart, Abstract!Next, Abstract!End
  <2>5. CASE UNCHANGED vars
    BY <2>5, ReadingIs DEF vars, Abstract!vars
  <2> QED
    BY <2>1, <2>2, <2>3, <2>4, <2>5, ThreadReads DEF Next
<1> QED
  BY <1>1, <1>2, Invariant, PTL DEF Spec, RefinesStateReads, Abstract!Spec

-----------------------------------------------------------------------------
(* The types, and which snapshot is the latest one. Neither needs what is   *)
(* assumed above: reducers of one key may differ, and any event be purged.  *)

\* A row about to be written is of an event of the past, and what a collection
\* still has to delete was not active when it began.
CarriedBelow(c) ==
  /\ c.at = "writing" => c.row.version < appended
  /\ c.at = "collecting" => c.keys \cap c.active = {}

TInv ==
  /\ LogOK
  /\ IsFiniteSet(log)
  /\ RegistryOK
  /\ TypeOK
  /\ \A s \in snaps : s.version < appended
  /\ \A t \in Threads : CarriedBelow(call[t])

\* What the type of a call says of the place where it is.
LEMMA CallFields ==
  ASSUME NEW c, CallOK(c)
  PROVE  /\ c.at \in {"finding", "loading", "folded"} =>
              c.reducer \in Reducers /\ c.bound \in Bounds
         /\ c.at \in {"finding", "loading"} => c.purpose \in {"read", "snapshot"}
         /\ c.at = "loading" =>
              c.base \in [version : Nat \cup {-1}, state : States]
         /\ c.at = "folded" => c.applied \in Nat
         /\ c.at = "writing" => c.row \in SnapshotRows
         /\ c.at \in {"selecting", "collecting"} => c.active \in SUBSET (STRING \X Nat)
         /\ c.at = "collecting" => c.keys \in SUBSET (STRING \X Nat)
BY DEF CallOK

LEMMA IdleTyped == /\ CallOK(Idle)
                   /\ CallOK([at |-> "resolving"])
                   /\ CallOK([at |-> "estimating"])
BY DEF CallOK, Idle

LEMMA FindingTyped ==
  ASSUME NEW purpose \in {"read", "snapshot"}, NEW r \in Reducers, NEW bound \in Bounds
  PROVE  CallOK(Finding(purpose, r, bound))
BY DEF CallOK, Finding

LEMMA CollectingTyped ==
  ASSUME NEW active \in SUBSET (STRING \X Nat), NEW keys \in SUBSET (STRING \X Nat)
  PROVE  CallOK(Collecting(active, keys))
BY IdleTyped DEF CallOK, Collecting

\* Folding rows of the stream on top of a state gives a state.
LEMMA ApplyTyped ==
  ASSUME NEW r \in Reducers, NEW state \in States, NEW rows \in SUBSET Rows
  PROVE  Apply(r, state, rows) \in States
<1>1. r.version \in Nat
  BY ReducersAssumption
<1>2. rows \X {r.version} \subseteq Rows \X Nat
  BY <1>1
<1>3. state.applied \subseteq Rows \X Nat /\ state.again \subseteq Rows \X Nat
  BY DEF States
<1> QED
  BY <1>2, <1>3 DEF Apply, States

\* The greatest version of some rows, as the queries for it choose it.
LEMMA LastOfRows ==
  ASSUME NEW rows, rows # {}, NEW n \in Nat,
         \A x \in rows : x.version \in Nat /\ x.version < n
  PROVE  LET last == CHOOSE v \in {x.version : x \in rows} :
                       \A x \in rows : x.version <= v
         IN  /\ last \in Nat /\ last < n
             /\ last \in {x.version : x \in rows}
             /\ \A x \in rows : x.version <= last
<1> DEFINE V == {x.version : x \in rows}
           last == CHOOSE v \in V : \A x \in rows : x.version <= v
<1>1. V \in SUBSET Nat /\ V # {} /\ \A v \in V : v <= n
  OBVIOUS
<1>2. \E m \in V : \A v \in V : v <= m
  <2> HIDE DEF V
  <2> QED
    BY <1>1, BoundedHasMax
<1>3. last \in V /\ \A x \in rows : x.version <= last
  <2>1. \E m \in V : \A x \in rows : x.version <= m
    BY <1>2
  <2> QED
    BY <2>1
<1> HIDE DEF last
<1> QED
  BY <1>3 DEF last

\* find_latest_snapshot returns a row of the table, or the initial state.
LEMMA BaseTyped ==
  ASSUME TInv, NEW r \in Reducers, NEW bound \in Bounds
  PROVE  Base(r, bound) \in [version : Nat \cup {-1}, state : States]
<1> DEFINE U == Usable(r, bound)
           V == {s.version : s \in U}
<1>1. \A s \in U : s \in SnapshotRows /\ s.version < appended
  BY DEF Usable, TInv, TypeOK
<1>2. CASE U = {}
  <2>1. InitialState \in States
    BY DEF InitialState, States
  <2> QED
    BY <1>2, <2>1 DEF Base
<1>3. CASE U # {}
  <2>1. appended \in Nat
    BY DEF TInv, LogOK
  <2>2. V \in SUBSET Nat /\ V # {} /\ \A v \in V : v <= appended
    BY <1>1, <1>3, <2>1 DEF SnapshotRows
  <2>3. \E m \in V : \A v \in V : v <= m
    <3> HIDE DEF V
    <3> QED
      BY <2>1, <2>2, BoundedHasMax
  <2> DEFINE s == CHOOSE x \in U : \A y \in U : y.version <= x.version
  <2>4. s \in U
    <3>1. \E x \in U : \A y \in U : y.version <= x.version
      BY <2>3
    <3> QED
      BY <3>1
  <2>5. Base(r, bound) = [version |-> s.version, state |-> s.state]
    BY <1>3 DEF Base
  <2> HIDE DEF s, U
  <2> QED
    BY <1>1, <2>4, <2>5 DEF SnapshotRows
<1> QED
  BY <1>2, <1>3

\* A thread moves on, and the table keeps rows of the past.
LEMMA TGotoStep ==
  ASSUME TInv, NEW t \in Threads, NEW next, Goto(t, next), CallOK(next),
         CarriedBelow(next), UNCHANGED <<log, appended, registry>>,
         counter' \in [Processes -> Nat],
         \A s \in snaps' : s \in snaps \/ (s \in SnapshotRows /\ s.version < appended)
  PROVE  TInv'
<1>1. DOMAIN call = Threads /\ \A u \in Threads : CallOK(call[u]) /\ CarriedBelow(call[u])
  BY DEF TInv, TypeOK
<1>2. DOMAIN call' = Threads /\ \A u \in Threads : call'[u] = IF u = t THEN next ELSE call[u]
  BY <1>1 DEF Goto
<1>3. \A u \in Threads : CallOK(call'[u]) /\ CarriedBelow(call'[u])
  BY <1>1, <1>2
<1>4. snaps' \in SUBSET SnapshotRows /\ \A s \in snaps' : s.version < appended
  BY DEF TInv, TypeOK
<1>5. /\ log' \in SUBSET Rows /\ appended' \in 0 .. MaxEvents
      /\ registry' \in [Processes -> Seq(Reducers)]
  BY DEF TInv, TypeOK
<1>6. TypeOK'
  <2>1. \A u \in Threads : CallOK(call[u])'
    BY <1>3 DEF CallOK
  <2> QED
    BY <1>2, <1>4, <1>5, <2>1 DEF TypeOK
<1>7. LogOK' /\ RegistryOK' /\ IsFiniteSet(log')
  BY DEF TInv, LogOK, RegistryOK
<1>8. \A u \in Threads : CarriedBelow(call[u])'
  BY <1>3 DEF CarriedBelow
<1> QED
  BY <1>4, <1>6, <1>7, <1>8 DEF TInv

\* The stream or the registries change, and nothing that is carried is younger.
LEMMA TStillStep ==
  ASSUME TInv, LogOK', IsFiniteSet(log'), RegistryOK', log' \in SUBSET Rows,
         appended' \in 0 .. MaxEvents, appended <= appended',
         counter' \in [Processes -> Nat], UNCHANGED snaps,
         DOMAIN call' = Threads,
         \A t \in Threads : call'[t] = call[t] \/ call'[t] = Idle
  PROVE  TInv'
<1>1. \A t \in Threads : CallOK(call'[t])
  BY IdleTyped DEF TInv, TypeOK
<1>2. \A t \in Threads : CallOK(call[t])'
  BY <1>1 DEF CallOK
<1>3. TypeOK'
  BY <1>2 DEF TInv, TypeOK, RegistryOK
<1>4. appended \in Nat /\ appended' \in Nat
  BY DEF TInv, LogOK
<1>5. \A s \in snaps' : s.version < appended'
  <2>1. \A s \in snaps : s.version \in Nat /\ s.version < appended
    BY DEF TInv, TypeOK, SnapshotRows
  <2> QED
    BY <1>4, <2>1
<1>6. ASSUME NEW t \in Threads PROVE CarriedBelow(call[t])'
  <2>1. CarriedBelow(call[t]) /\ CallOK(call[t])
    BY DEF TInv, TypeOK
  <2>2. call[t].at = "writing" => call[t].row.version \in Nat
    BY <2>1, CallFields DEF SnapshotRows
  <2>3. CASE call'[t] = call[t]
    BY <1>4, <2>1, <2>2, <2>3 DEF CarriedBelow
  <2>4. CASE call'[t] = Idle
    BY <2>4 DEF CarriedBelow, Idle
  <2> QED
    BY <2>3, <2>4
<1> QED
  BY <1>3, <1>5, <1>6 DEF TInv

LEMMA TAppendStep ==
  ASSUME TInv, AppendEvent
  PROVE  TInv'
<1>1. LogOK /\ appended \in Nat /\ appended' = appended + 1
  BY DEF TInv, LogOK, AppendEvent
<1>2. NextVersion \in Nat /\ NextVersion <= appended
  BY <1>1, NextVersionAbove
<1>3. log' = log \cup {[version |-> NextVersion, event |-> appended]}
  BY DEF AppendEvent
<1>4. LogOK'
  BY <1>1, <1>2, <1>3 DEF LogOK
<1>5. IsFiniteSet(log')
  BY <1>3, FS_AddElement DEF TInv
<1>6. log' \in SUBSET Rows
  BY <1>1, <1>2, <1>3 DEF TInv, TypeOK, Rows
<1>7. appended' \in 0 .. MaxEvents /\ appended <= appended'
  BY <1>1, MaxEventsAssumption DEF AppendEvent
<1>8. RegistryOK' /\ counter' \in [Processes -> Nat]
  BY DEF AppendEvent, TInv, RegistryOK, TypeOK
<1>9. UNCHANGED <<snaps, call>> /\ DOMAIN call' = Threads
  BY DEF AppendEvent, TInv, TypeOK
<1> QED
  BY <1>4, <1>5, <1>6, <1>7, <1>8, <1>9, TStillStep

LEMMA TPurgeStep ==
  ASSUME TInv, PurgeEvent
  PROVE  TInv'
<1>1. log' \in SUBSET log /\ UNCHANGED <<appended, snaps, registry, counter, call>>
  BY DEF PurgeEvent
<1>2. LogOK' /\ log' \in SUBSET Rows
  BY <1>1 DEF TInv, LogOK, TypeOK
<1>3. IsFiniteSet(log')
  BY <1>1, FS_Subset DEF TInv
<1>4. appended' \in 0 .. MaxEvents /\ appended <= appended'
  BY <1>1 DEF TInv, TypeOK, LogOK
<1>5. RegistryOK' /\ counter' \in [Processes -> Nat] /\ DOMAIN call' = Threads
  BY <1>1 DEF TInv, RegistryOK, TypeOK
<1> QED
  BY <1>1, <1>2, <1>3, <1>4, <1>5, TStillStep

LEMMA TRegisterStep ==
  ASSUME TInv, NEW p \in Processes, NEW r \in Reducers, Register(p, r)
  PROVE  TInv'
<1>1. RegistryOK'
  BY RegistryGrows DEF TInv
<1>2. UNCHANGED <<log, appended, snaps, counter, call>>
  BY DEF Register
<1>3. /\ LogOK' /\ log' \in SUBSET Rows /\ IsFiniteSet(log')
      /\ appended' \in 0 .. MaxEvents /\ appended <= appended'
      /\ counter' \in [Processes -> Nat] /\ DOMAIN call' = Threads
  BY <1>2 DEF TInv, LogOK, TypeOK
<1> QED
  BY <1>1, <1>2, <1>3, TStillStep

LEMMA TRestartStep ==
  ASSUME TInv, NEW p \in Processes, Restart(p)
  PROVE  TInv'
<1>1. RegistryOK'
  BY RegistryClears DEF TInv
<1>2. UNCHANGED <<log, appended, snaps>>
  BY DEF Restart
<1>3. /\ LogOK' /\ log' \in SUBSET Rows /\ IsFiniteSet(log')
      /\ appended' \in 0 .. MaxEvents /\ appended <= appended'
  BY <1>2 DEF TInv, LogOK, TypeOK
<1>4. counter' \in [Processes -> Nat] /\ DOMAIN call' = Threads
  BY DEF Restart, TInv, TypeOK
<1>5. \A t \in Threads : call'[t] = call[t] \/ call'[t] = Idle
  BY DEF Restart
<1> QED
  BY <1>1, <1>2, <1>3, <1>4, <1>5, TStillStep

\* The steps of a thread keep the types.
LEMMA TThreadStep ==
  ASSUME TInv, NEW t \in Threads,
         \/ CallReadState(t) \/ CallReadAtVersion(t) \/ CallReadWithReducer(t)
         \/ FindSnapshot(t) \/ FoldEvents(t)
         \/ Return(t) \/ CountEvents(t) \/ CountAdaptively(t) \/ Estimate(t)
         \/ CallTakeSnapshot(t) \/ Resolve(t)
         \/ FoldForSnapshot(t) \/ WriteSnapshot(t)
         \/ CallCollect(t) \/ SelectOrphans(t) \/ DeleteOrphans(t)
         \/ Fail(t)
  PROVE  TInv'
<1> DEFINE c == call[t]
           home == Home[t]
<1>1. /\ CallOK(c) /\ CarriedBelow(c) /\ LogOK /\ IsFiniteSet(log) /\ RegistryOK
      /\ log \in SUBSET Rows /\ snaps \in SUBSET SnapshotRows
      /\ counter \in [Processes -> Nat]
  BY DEF TInv, TypeOK
<1>2. home \in Processes
  BY HomeAssumption
<1>3. registry[home] # <<>> => ReducerOf(home) \in Reducers
  BY <1>1, <1>2, ReducerOfIsRegistered
<1>4. \A at \in {"idle", "resolving", "estimating"} : CarriedBelow([at |-> at])
  BY DEF CarriedBelow
<1>5. \A purpose, r, bound : CarriedBelow(Finding(purpose, r, bound))
  BY DEF CarriedBelow, Finding
<1>6. /\ c.at = "folded" => Counted(t) \in Nat
  BY <1>1, <1>2, MaxCountAssumption, CallFields DEF Counted
<1>7. Unbounded \in Bounds /\ Versions \subseteq Bounds
  BY DEF Bounds
<1>8. CallOK(Idle) /\ CarriedBelow(Idle)
  BY <1>4, IdleTyped DEF Idle
<1>9. ASSUME NEW base \in [version : Nat \cup {-1}, state : States], NEW bound
      PROVE  /\ EventsAfterBase(base, bound) \in SUBSET Rows
             /\ EventsAfterBase(base, bound) \in SUBSET log
             /\ Cardinality(EventsAfterBase(base, bound)) \in Nat
  <2>1. EventsAfterBase(base, bound) \in SUBSET log
    BY DEF EventsAfterBase, RowsWithin, RowsAfter
  <2> QED
    BY <1>1, <2>1, FS_Subset, FS_CardinalityType
<1>10. CASE CallReadState(t)
  <2>1. CallOK(Finding("read", ReducerOf(home), Unbounded))
    BY <1>3, <1>7, <1>10, FindingTyped DEF CallReadState
  <2> QED
    BY <1>1, <1>5, <1>10, <2>1, TGotoStep DEF CallReadState
<1>11. CASE CallReadAtVersion(t)
  <2>1. PICK v \in Versions : Goto(t, Finding("read", ReducerOf(home), v))
    BY <1>11 DEF CallReadAtVersion
  <2>2. CallOK(Finding("read", ReducerOf(home), v))
    BY <1>3, <1>7, <1>11, FindingTyped DEF CallReadAtVersion
  <2> QED
    BY <1>1, <1>5, <1>11, <2>1, <2>2, TGotoStep DEF CallReadAtVersion
<1>12. CASE CallReadWithReducer(t)
  <2>1. PICK i \in DOMAIN registry[home], v \in Versions :
          Goto(t, Finding("read", registry[home][i], v))
    BY <1>12 DEF CallReadWithReducer
  <2>2. registry[home][i] \in Reducers
    BY <1>1, <1>2 DEF RegistryOK
  <2>3. CallOK(Finding("read", registry[home][i], v))
    BY <1>7, <2>2, FindingTyped
  <2> QED
    BY <1>1, <1>5, <1>12, <2>1, <2>3, TGotoStep DEF CallReadWithReducer
<1>13. CASE FindSnapshot(t)
  <2> DEFINE next == [at |-> "loading", purpose |-> c.purpose, reducer |-> c.reducer,
                      bound |-> c.bound, base |-> Base(c.reducer, c.bound)]
  <2>1. /\ c.reducer \in Reducers /\ c.bound \in Bounds
        /\ c.purpose \in {"read", "snapshot"}
    BY <1>1, <1>13, CallFields DEF FindSnapshot
  <2>2. Base(c.reducer, c.bound) \in [version : Nat \cup {-1}, state : States]
    BY <2>1, BaseTyped
  <2>3. CallOK(next)
    BY <2>1, <2>2 DEF CallOK
  <2>4. CarriedBelow(next)
    BY DEF CarriedBelow
  <2>5. Goto(t, next) /\ UNCHANGED <<log, appended, snaps, registry, counter>>
    BY <1>13 DEF FindSnapshot
  <2> HIDE DEF next
  <2> QED
    BY <1>1, <2>3, <2>4, <2>5, TGotoStep
<1>14. CASE FoldEvents(t)
  <2> DEFINE rows == EventsAfterBase(c.base, c.bound)
             state == Apply(c.reducer, c.base.state, rows)
             next == [at |-> "folded", reducer |-> c.reducer, bound |-> c.bound,
                      state |-> state, applied |-> Cardinality(rows)]
  <2>1. /\ c.reducer \in Reducers /\ c.bound \in Bounds
        /\ c.base \in [version : Nat \cup {-1}, state : States]
    BY <1>1, <1>14, CallFields DEF FoldEvents
  <2>2. rows \in SUBSET Rows /\ Cardinality(rows) \in Nat
    BY <1>9, <2>1
  <2>3. Goto(t, next) /\ UNCHANGED <<log, appended, snaps, registry, counter>>
    BY <1>14 DEF FoldEvents
  <2>4. c.base.state \in States
    BY <2>1
  <2>5. state \in States
    <3> HIDE DEF rows
    <3> QED
      BY <2>1, <2>2, <2>4, ApplyTyped
  <2> HIDE DEF rows, state
  <2>6. CallOK(next)
    BY <2>1, <2>2, <2>5 DEF CallOK
  <2>7. CarriedBelow(next)
    BY DEF CarriedBelow
  <2> HIDE DEF next
  <2> QED
    BY <1>1, <2>3, <2>6, <2>7, TGotoStep
<1>15. CASE Return(t)
  BY <1>1, <1>8, <1>15, TGotoStep DEF Return
<1>16. CASE CountEvents(t)
  <2>1. PICK next \in {Idle, [at |-> "resolving"]} : Goto(t, next)
    BY <1>16 DEF CountEvents
  <2>2. CallOK(next) /\ CarriedBelow(next)
    BY <1>4, <1>8, <2>1, IdleTyped
  <2>3. counter' \in [Processes -> Nat]
    BY <1>1, <1>6, <1>16 DEF CountEvents
  <2> QED
    BY <1>16, <2>1, <2>2, <2>3, TGotoStep DEF CountEvents
<1>17. CASE CountAdaptively(t)
  <2>1. PICK next \in {Idle, [at |-> "estimating"]} : Goto(t, next)
    BY <1>17 DEF CountAdaptively
  <2>2. CallOK(next) /\ CarriedBelow(next)
    BY <1>4, <1>8, <2>1, IdleTyped
  <2>3. counter' \in [Processes -> Nat]
    BY <1>1, <1>6, <1>17 DEF CountAdaptively
  <2> QED
    BY <1>17, <2>1, <2>2, <2>3, TGotoStep DEF CountAdaptively
<1>18. CASE Estimate(t)
  <2>1. PICK next \in {Idle, [at |-> "resolving"]} : Goto(t, next)
    BY <1>18 DEF Estimate
  <2>2. CallOK(next) /\ CarriedBelow(next)
    BY <1>4, <1>8, <2>1, IdleTyped
  <2>3. counter' \in [Processes -> Nat]
    BY <1>1, <1>18 DEF Estimate
  <2> QED
    BY <1>18, <2>1, <2>2, <2>3, TGotoStep DEF Estimate
<1>19. CASE CallTakeSnapshot(t)
  BY <1>1, <1>4, <1>19, IdleTyped, TGotoStep DEF CallTakeSnapshot
<1>20. CASE Resolve(t)
  <2>1. CallOK(Finding("snapshot", ReducerOf(home), Unbounded))
    BY <1>3, <1>7, <1>20, FindingTyped DEF Resolve
  <2> QED
    BY <1>1, <1>5, <1>20, <2>1, TGotoStep DEF Resolve
<1>21. CASE FoldForSnapshot(t)
  <2> DEFINE rows == EventsAfterBase(c.base, Unbounded)
             last == CHOOSE v \in {x.version : x \in rows} :
                       \A x \in rows : x.version <= v
             state == Apply(c.reducer, c.base.state, rows)
             row == [name |-> c.reducer.name, schema |-> c.reducer.schema,
                     version |-> last, reducer_version |-> c.reducer.version,
                     state |-> state]
             next == [at |-> "writing", row |-> row]
  <2>1. /\ c.reducer \in Reducers
        /\ c.base \in [version : Nat \cup {-1}, state : States]
    BY <1>1, <1>21, CallFields DEF FoldForSnapshot
  <2>2. rows \in SUBSET Rows /\ rows \in SUBSET log
    BY <1>9, <2>1
  <2>3. UNCHANGED <<log, appended, snaps, registry, counter>>
    BY <1>21 DEF FoldForSnapshot
  <2>4. CASE rows = {}
    BY <1>1, <1>8, <1>21, <2>3, <2>4, TGotoStep DEF FoldForSnapshot
  <2>5. CASE rows # {}
    <3>1. last \in Nat /\ last < appended
      <4>1. appended \in Nat /\ \A x \in rows : x.version \in Nat /\ x.version < appended
        BY <1>1, <2>2 DEF LogOK
      <4> HIDE DEF rows
      <4> QED
        BY <2>5, <4>1, LastOfRows
    <3>2. c.base.state \in States
      BY <2>1
    <3>3. state \in States
      <4> HIDE DEF rows
      <4> QED
        BY <2>1, <2>2, <3>2, ApplyTyped
    <3>4. Goto(t, next)
      BY <1>21, <2>5 DEF FoldForSnapshot
    <3> HIDE DEF last, state
    <3>5. row \in SnapshotRows /\ row.version < appended
      BY <2>1, <3>1, <3>3, ReducersAssumption DEF SnapshotRows
    <3> HIDE DEF row
    <3>6. CallOK(next) /\ CarriedBelow(next)
      BY <3>5 DEF CallOK, CarriedBelow
    <3> HIDE DEF next
    <3> QED
      BY <1>1, <2>3, <3>4, <3>6, TGotoStep
  <2> QED
    BY <2>4, <2>5
<1>22. CASE WriteSnapshot(t)
  <2>1. c.row \in SnapshotRows /\ c.row.version < appended
    BY <1>1, <1>22, CallFields DEF WriteSnapshot, CarriedBelow
  <2>2. \A s \in snaps' : s \in snaps \/ s = c.row
    BY <1>22 DEF WriteSnapshot, Replace
  <2> QED
    BY <1>1, <1>8, <1>22, <2>1, <2>2, TGotoStep DEF WriteSnapshot
<1>23. CASE CallCollect(t)
  <2> DEFINE next == [at |-> "selecting", active |-> ActiveKeys(home)]
  <2>1. Entries(home) \subseteq Reducers
    BY <1>1, <1>2 DEF RegistryOK, Entries
  <2>2. ActiveKeys(home) \in SUBSET (STRING \X Nat)
    BY <2>1, ReducersAssumption DEF ActiveKeys, Key
  <2>3. CallOK(next)
    BY <2>2 DEF CallOK
  <2>4. CarriedBelow(next)
    BY DEF CarriedBelow
  <2>5. Goto(t, next) /\ UNCHANGED <<log, appended, snaps, registry, counter>>
    BY <1>23 DEF CallCollect
  <2> HIDE DEF next
  <2> QED
    BY <1>1, <2>3, <2>4, <2>5, TGotoStep
<1>24. CASE SelectOrphans(t)
  <2>1. c.active \in SUBSET (STRING \X Nat)
    BY <1>1, <1>24, CallFields DEF SelectOrphans
  <2>2. CASE c.active = {}
    BY <1>1, <1>8, <1>24, <2>2, TGotoStep DEF SelectOrphans
  <2>3. CASE c.active # {}
    <3>1. Orphans(c.active) \in SUBSET (STRING \X Nat)
      BY <1>1 DEF Orphans, StoredKeys, SnapshotRows
    <3>2. CallOK(Collecting(c.active, Orphans(c.active)))
      BY <2>1, <3>1, CollectingTyped
    <3>3. CarriedBelow(Collecting(c.active, Orphans(c.active)))
      BY <1>8 DEF CarriedBelow, Collecting, Orphans
    <3> QED
      BY <1>1, <1>24, <2>3, <3>2, <3>3, TGotoStep DEF SelectOrphans
  <2> QED
    BY <2>2, <2>3
<1>25. CASE DeleteOrphans(t)
  <2>1. /\ c.active \in SUBSET (STRING \X Nat) /\ c.keys \in SUBSET (STRING \X Nat)
        /\ c.keys \cap c.active = {}
    BY <1>1, <1>25, CallFields DEF DeleteOrphans, CarriedBelow
  <2>2. PICK key \in c.keys :
          /\ snaps' = {s \in snaps : <<s.name, s.schema>> # key}
          /\ Goto(t, Collecting(c.active, c.keys \ {key}))
    BY <1>25 DEF DeleteOrphans
  <2>3. CallOK(Collecting(c.active, c.keys \ {key}))
    BY <2>1, CollectingTyped
  <2>4. CarriedBelow(Collecting(c.active, c.keys \ {key}))
    BY <1>8, <2>1 DEF CarriedBelow, Collecting
  <2> QED
    BY <1>1, <1>25, <2>2, <2>3, <2>4, TGotoStep DEF DeleteOrphans
<1>26. CASE Fail(t)
  BY <1>1, <1>8, <1>26, TGotoStep DEF Fail
<1> QED
  BY <1>10, <1>11, <1>12, <1>13, <1>14, <1>15, <1>16, <1>17, <1>18, <1>19, <1>20,
     <1>21, <1>22, <1>23, <1>24, <1>25, <1>26

\* The second inductive invariant holds whatever the reducers are and whatever
\* is purged.
LEMMA TInvariant == Spec => []TInv
<1>1. Init => TInv
  <2> SUFFICES ASSUME Init PROVE TInv
    OBVIOUS
  <2>1. LogOK /\ RegistryOK /\ IsFiniteSet(log)
    BY FS_EmptySet DEF Init, LogOK, RegistryOK
  <2>2. TypeOK
    BY <2>1, IdleTyped, MaxEventsAssumption DEF Init, TypeOK, RegistryOK
  <2>3. \A t \in Threads : CarriedBelow(call[t])
    BY DEF Init, CarriedBelow, Idle
  <2> QED
    BY <2>1, <2>2, <2>3 DEF TInv, Init
<1>2. TInv /\ [Next]_vars => TInv'
  <2> SUFFICES ASSUME TInv, [Next]_vars PROVE TInv'
    OBVIOUS
  <2>1. ASSUME NEW p \in Processes, NEW r \in Reducers, Register(p, r) PROVE TInv'
    BY <2>1, TRegisterStep
  <2>2. ASSUME NEW p \in Processes, Restart(p) PROVE TInv'
    BY <2>2, TRestartStep
  <2>3. CASE UNCHANGED vars
    <3>1. LogOK' /\ RegistryOK' /\ TypeOK'
      BY <2>3 DEF vars, TInv, LogOK, RegistryOK, TypeOK, CallOK
    <3> QED
      BY <2>3, <3>1 DEF vars, TInv, CarriedBelow
  <2> QED
    BY <2>1, <2>2, <2>3, TAppendStep, TPurgeStep, TThreadStep DEF Next
<1> QED
  BY <1>1, <1>2, PTL DEF Spec

\* The tables, the registries and the calls have their types, also when events
\* are purged that snapshots have folded and keys are shared by other logic.
THEOREM TypeCorrect == Spec => []TypeOK
<1>1. TInv => TypeOK
  BY DEF TInv
<1> QED
  BY <1>1, TInvariant, PTL

-----------------------------------------------------------------------------
(* The latest snapshot of a key. *)

\* Latest, as an operator on the table.
LatestIn(S, k) ==
  LET V == {s.version : s \in {x \in S : <<x.name, x.schema>> = k}} IN
  IF V = {} THEN -1 ELSE CHOOSE v \in V : \A w \in V : w <= v

\* It is the version of a row, not below that of another; or there is no row.
LEMMA LatestIsGreatest ==
  ASSUME NEW S \in SUBSET SnapshotRows, NEW n \in Nat,
         \A s \in S : s.version < n, NEW k
  PROVE  LET mine == {x \in S : <<x.name, x.schema>> = k} IN
         /\ \A x \in mine : x.version <= LatestIn(S, k)
         /\ \/ LatestIn(S, k) = -1
            \/ \E x \in mine : x.version = LatestIn(S, k)
         /\ LatestIn(S, k) \in Nat \cup {-1}
<1> DEFINE mine == {x \in S : <<x.name, x.schema>> = k}
           V == {s.version : s \in mine}
<1>1. V \in SUBSET Nat /\ \A v \in V : v <= n
  BY DEF SnapshotRows
<1>2. CASE V = {}
  BY <1>2 DEF LatestIn
<1>3. CASE V # {}
  <2> DEFINE m == CHOOSE v \in V : \A w \in V : w <= v
  <2>1. m \in V /\ \A v \in V : v <= m
    <3> HIDE DEF V
    <3>1. \E v \in V : \A w \in V : w <= v
      BY <1>1, <1>3, BoundedHasMax
    <3> QED
      BY <3>1
  <2>2. LatestIn(S, k) = m
    BY <1>3 DEF LatestIn
  <2> HIDE DEF m
  <2> QED
    BY <1>1, <2>1, <2>2
<1> QED
  BY <1>2, <1>3

\* A table that keeps a row of each version of a key has no earlier latest one.
LEMMA LatestKept ==
  ASSUME NEW S \in SUBSET SnapshotRows, NEW T \in SUBSET SnapshotRows,
         NEW n \in Nat, \A s \in S \cup T : s.version < n, NEW k,
         \A s \in S : <<s.name, s.schema>> = k =>
           \E x \in T : <<x.name, x.schema>> = k /\ x.version = s.version
  PROVE  LatestIn(T, k) >= LatestIn(S, k)
<1> DEFINE before == LatestIn(S, k)
           after == LatestIn(T, k)
<1>1. /\ before \in Nat \cup {-1}
      /\ \/ before = -1
         \/ \E s \in S : <<s.name, s.schema>> = k /\ s.version = before
  BY LatestIsGreatest
<1>2. /\ after \in Nat \cup {-1}
      /\ \A x \in T : <<x.name, x.schema>> = k => x.version <= after
  BY LatestIsGreatest
<1> HIDE DEF before, after
<1>3. after >= before
  BY <1>1, <1>2
<1> QED
  BY <1>3 DEF before, after

\* The version from which reads replay goes back only when a collection deletes
\* the snapshots of a key that was not active when it began; a snapshot that is
\* written late does not hide a newer one.
THEOREM LatestOnlyAdvancesHolds == Spec => LatestOnlyAdvances
<1> DEFINE Collected(k) ==
             \E t \in Threads : /\ call[t].at \in {"selecting", "collecting"}
                                /\ call'[t] # call[t]
                                /\ k \notin call[t].active
<1>1. TInv /\ TInv' /\ [Next]_vars =>
        [\A k \in {Key(r) : r \in Reducers} :
           \/ Latest(k)' >= Latest(k)
           \/ \E t \in Threads : /\ call[t].at \in {"selecting", "collecting"}
                                 /\ call'[t] # call[t]
                                 /\ k \notin call[t].active]_vars
  <2> SUFFICES ASSUME TInv, TInv', Next, NEW k
               PROVE  Latest(k)' >= Latest(k) \/ Collected(k)
    OBVIOUS
  <2>1. Latest(k) = LatestIn(snaps, k) /\ Latest(k)' = LatestIn(snaps', k)
    BY DEF Latest, LatestIn
  <2>2. /\ snaps \in SUBSET SnapshotRows /\ snaps' \in SUBSET SnapshotRows
        /\ appended \in Nat /\ \A s \in snaps : s.version < appended
        /\ \A s \in snaps' : s.version < appended'
        /\ DOMAIN call = Threads
        /\ \A t \in Threads : CallOK(call[t]) /\ CarriedBelow(call[t])
    BY DEF TInv, TypeOK, LogOK
  <2>3. ASSUME UNCHANGED appended,
               \A s \in snaps : <<s.name, s.schema>> = k =>
                 \E x \in snaps' : <<x.name, x.schema>> = k /\ x.version = s.version
        PROVE  Latest(k)' >= Latest(k)
    <3>1. \A s \in snaps \cup snaps' : s.version < appended
      BY <2>2, <2>3
    <3> QED
      BY <2>1, <2>2, <2>3, <3>1, LatestKept
  <2>4. ASSUME UNCHANGED snaps PROVE Latest(k)' >= Latest(k)
    <3>1. LatestIn(snaps, k) \in Nat \cup {-1}
      BY <2>2, LatestIsGreatest
    <3> QED
      BY <2>1, <2>4, <3>1
  <2>5. ASSUME NEW t \in Threads, WriteSnapshot(t) PROVE Latest(k)' >= Latest(k)
    <3> DEFINE row == call[t].row
    <3>1. snaps' = Replace(row) /\ UNCHANGED appended
      BY <2>5 DEF WriteSnapshot
    <3>2. row \in snaps'
      BY <3>1 DEF Replace
    <3>3. \A s \in snaps :
            \/ s \in snaps'
            \/ <<s.name, s.schema, s.version>> = <<row.name, row.schema, row.version>>
      BY <3>1 DEF Replace
    <3> HIDE DEF row
    <3>4. \A s \in snaps : <<s.name, s.schema>> = k =>
            \E x \in snaps' : <<x.name, x.schema>> = k /\ x.version = s.version
      BY <3>2, <3>3
    <3> QED
      BY <2>3, <3>1, <3>4
  <2>6. ASSUME NEW t \in Threads, SelectOrphans(t)
        PROVE  Latest(k)' >= Latest(k) \/ Collected(k)
    <3>1. CASE call[t].active = {}
      <4>1. call'[t] = Idle /\ call[t].at = "selecting"
        BY <2>2, <2>6, <3>1 DEF SelectOrphans, Goto
      <4> QED
        BY <3>1, <4>1 DEF Idle
    <3>2. CASE call[t].active # {}
      BY <2>4, <2>6, <3>2 DEF SelectOrphans
    <3> QED
      BY <3>1, <3>2
  <2>7. ASSUME NEW t \in Threads, DeleteOrphans(t)
        PROVE  Latest(k)' >= Latest(k) \/ Collected(k)
    <3>1. PICK key \in call[t].keys :
            /\ snaps' = {s \in snaps : <<s.name, s.schema>> # key}
            /\ Goto(t, Collecting(call[t].active, call[t].keys \ {key}))
      BY <2>7 DEF DeleteOrphans
    <3>2. CASE key = k
      <4>1. call[t].at = "collecting" /\ k \notin call[t].active
        BY <2>2, <2>7, <3>1, <3>2 DEF DeleteOrphans, CarriedBelow
      <4>2. call'[t] = Collecting(call[t].active, call[t].keys \ {key})
        BY <2>2, <3>1 DEF Goto
      <4>3. call'[t].at = "idle" \/ call'[t].keys = call[t].keys \ {key}
        BY <4>2 DEF Collecting, Idle
      <4>4. call'[t] # call[t]
        BY <3>1, <4>1, <4>3
      <4> QED
        BY <4>1, <4>4
    <3>3. CASE key # k
      BY <2>3, <2>7, <3>1, <3>3 DEF DeleteOrphans
    <3> QED
      BY <3>2, <3>3
  <2>8. ASSUME NEW t \in Threads,
               \/ CallReadState(t) \/ CallReadAtVersion(t) \/ CallReadWithReducer(t)
               \/ FindSnapshot(t) \/ FoldEvents(t)
               \/ Return(t) \/ CountEvents(t) \/ CountAdaptively(t) \/ Estimate(t)
               \/ CallTakeSnapshot(t) \/ Resolve(t) \/ FoldForSnapshot(t)
               \/ CallCollect(t) \/ Fail(t)
        PROVE  UNCHANGED snaps
    BY <2>8 DEF CallReadState, CallReadAtVersion, CallReadWithReducer, FindSnapshot,
                FoldEvents, Return, CountEvents, CountAdaptively, Estimate,
                CallTakeSnapshot, Resolve, FoldForSnapshot, CallCollect, Fail
  <2>9. ASSUME AppendEvent \/ PurgeEvent
               \/ (\E p \in Processes, r \in Reducers : Register(p, r))
               \/ (\E p \in Processes : Restart(p))
        PROVE  UNCHANGED snaps
    BY <2>9 DEF AppendEvent, PurgeEvent, Register, Restart
  <2> HIDE DEF Collected
  <2> QED
    BY <2>4, <2>5, <2>6, <2>7, <2>8, <2>9 DEF Next
<1> QED
  BY <1>1, TInvariant, PTL DEF Spec, LatestOnlyAdvances
=============================================================================
