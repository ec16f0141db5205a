------------------------------ MODULE Snapshots ------------------------------
(***************************************************************************)
(* Reducers and snapshots of one stream and branch (src/src/snapshots.rs,  *)
(* reducers.rs and the methods of Store that use them): registration,      *)
(* reads of folded state, explicit, automatic and background snapshots,    *)
(* and the collection of orphaned ones, by threads of several processes    *)
(* that share the file.                                                    *)
(*                                                                         *)
(* A call is a sequence of statements on autocommit connections. Nothing   *)
(* is locked between the look-up of a snapshot, the read of the events     *)
(* after it, the fold, and the write of a new snapshot; others may append, *)
(* purge, register, write snapshots and collect in between. Any fallible   *)
(* step may return an error instead (Fail): a reducer that panics, SQLite, *)
(* a read pool that is exhausted.                                          *)
(***************************************************************************)
EXTENDS Reduction, FiniteSets, Sequences

CONSTANTS
  Threads,
  Processes,
  Home,        \* the process of each thread
  Reducers,    \* records: name, version, schema, specificity, policy
  Versions,    \* the versions at which historical reads ask for the state
  None,        \* no read
  PurgeFolded, \* whether events may be purged that some snapshot has folded
  MaxEvents,   \* bound: the number of appends
  MaxCount     \* bound: counters stop here, above all policies' thresholds

\* validate_snapshot_policy refuses the others.
Policies == [kind : {"Manual", "EveryNSeconds"}]
              \cup [kind : {"EveryNEvents"}, n : Nat \ {0}]
              \cup [kind : {"StateAdaptive"}, n : Nat]

ASSUME HomeAssumption == Home \in [Threads -> Processes]
ASSUME ReducersAssumption ==
  Reducers \subseteq [name : STRING, version : Nat, schema : Nat,
                      specificity : Nat, policy : Policies]
ASSUME VersionsAssumption == Versions \subseteq Nat
ASSUME MaxEventsAssumption == MaxEvents \in Nat
ASSUME MaxCountAssumption ==
  /\ MaxCount \in Nat
  /\ \A r \in Reducers : r.policy.kind \in {"EveryNEvents", "StateAdaptive"}
                            => r.policy.n <= MaxCount

VARIABLES
  log,         \* rows of the table events: [version, event]
  appended,    \* the number of appends so far, which names the next event
  snaps,       \* rows of the table snapshots
  registry,    \* per process, the entries of its ReducerRegistry, in order
  counter,     \* per process, its entry in snapshot_counters
  call         \* per thread, where it is in which call

vars == <<log, appended, snaps, registry, counter, call>>

Idle == [at |-> "idle"]

-----------------------------------------------------------------------------
(* Queries. *)

Key(r) == <<r.name, r.schema>>

NextVersion ==
  IF log = {} THEN 0
  ELSE 1 + (CHOOSE v \in {row.version : row \in log} :
              \A row \in log : row.version <= v)

Entries(p) == {registry[p][i] : i \in DOMAIN registry[p]}

\* find_arc_with_policy: the most specific entry that matches the stream.
ReducerOf(p) ==
  CHOOSE r \in Entries(p) : \A q \in Entries(p) : q.specificity <= r.specificity

\* find_by_name returns the first entry of a name.
FirstOfItsName(p, i) ==
  \A j \in 1 .. i - 1 : registry[p][j].name # registry[p][i].name

\* Mutant: the look-up that forgets the bound of the read.
UsableUnbounded(r, bound) == {s \in snaps : <<s.name, s.schema>> = Key(r)}
\* The WHERE clause of find_latest_snapshot.
Usable(r, bound) ==
  {s \in snaps : <<s.name, s.schema>> = Key(r) /\ Within(s.version, bound)}

\* find_latest_snapshot, or the initial state in front of version 0
Base(r, bound) ==
  LET rows == Usable(r, bound) IN
  IF rows = {} THEN [version |-> -1, state |-> InitialState]
  ELSE LET s == CHOOSE x \in rows : \A y \in rows : y.version <= x.version
       IN  [version |-> s.version, state |-> s.state]

\* Mutant: reads again from the version of the snapshot itself.
EventsFromBase(base, bound) ==
  RowsWithin(RowsAfter(log, base.version - 1), bound)
\* read_range_impl from the version after that of the base
EventsAfterBase(base, bound) == RowsWithin(RowsAfter(log, base.version), bound)

\* Mutant: a table keyed without the version.
ReplaceAnyVersion(s) ==
  {x \in snaps : <<x.name, x.schema>> # <<s.name, s.schema>>} \cup {s}
\* INSERT OR REPLACE under the primary key (name, schema, version)
Replace(s) ==
  {x \in snaps : <<x.name, x.schema, x.version>> # <<s.name, s.schema, s.version>>}
    \cup {s}

\* The counter of t's process, raised by the events t applied; what is beyond
\* all thresholds need not be told apart.
Counted(t) ==
  LET total == counter[Home[t]] + call[t].applied IN
  IF total > MaxCount THEN MaxCount ELSE total

ActiveKeys(p) == {Key(r) : r \in Entries(p)}
StoredKeys == {<<s.name, s.schema>> : s \in snaps}

-----------------------------------------------------------------------------
(* Actions of the environment: the stream and the registries. *)

Init ==
  /\ log = {}
  /\ appended = 0
  /\ snaps = {}
  /\ registry = [p \in Processes |-> <<>>]
  /\ counter = [p \in Processes |-> 0]
  /\ call = [t \in Threads |-> Idle]

AppendEvent ==
  /\ appended < MaxEvents
  /\ log' = log \cup {[version |-> NextVersion, event |-> appended]}
  /\ appended' = appended + 1
  /\ UNCHANGED <<snaps, registry, counter, call>>

\* The rows that are part of a snapshot, or of one being taken or built upon.
FoldedRows ==
  LET states == {s.state : s \in snaps}
        \cup {call[t].base.state : t \in {u \in Threads : call[u].at = "loading"}}
        \cup {call[t].row.state : t \in {u \in Threads : call[u].at = "writing"}}
  IN  {step[1] : step \in UNION {state.applied : state \in states}}

\* purge_event deletes the row and leaves the snapshots as they are.
PurgeEvent ==
  /\ \E row \in log :
       /\ PurgeFolded \/ row \notin FoldedRows
       /\ log' = log \ {row}
  /\ UNCHANGED <<appended, snaps, registry, counter, call>>

\* register_reducer: all patterns here match the stream, so they overlap, and
\* one of the specificity of another is refused as ambiguous.
Register(p, r) ==
  /\ \A q \in Entries(p) : q.specificity # r.specificity
  /\ registry' = [registry EXCEPT ![p] = Append(@, r)]
  /\ UNCHANGED <<log, appended, snaps, counter, call>>

\* The process ends and starts again: its registry and counters are in memory.
Restart(p) ==
  /\ registry' = [registry EXCEPT ![p] = <<>>]
  /\ counter' = [counter EXCEPT ![p] = 0]
  /\ call' = [t \in Threads |-> IF Home[t] = p THEN Idle ELSE call[t]]
  /\ UNCHANGED <<log, appended, snaps>>

-----------------------------------------------------------------------------
(* Reads of folded state. *)

Goto(t, next) == call' = [call EXCEPT ![t] = next]

Finding(purpose, r, bound) ==
  [at |-> "finding", purpose |-> purpose, reducer |-> r, bound |-> bound]

\* read_state, read_state_bytes
CallReadState(t) ==
  /\ call[t] = Idle
  /\ registry[Home[t]] # <<>>
  /\ Goto(t, Finding("read", ReducerOf(Home[t]), Unbounded))
  /\ UNCHANGED <<log, appended, snaps, registry, counter>>

\* read_state_at_version, read_state_bytes_at_version
CallReadAtVersion(t) ==
  /\ call[t] = Idle
  /\ registry[Home[t]] # <<>>
  /\ \E v \in Versions :
       Goto(t, Finding("read", ReducerOf(Home[t]), v))
  /\ UNCHANGED <<log, appended, snaps, registry, counter>>

\* read_state_at_version_with_reducer
CallReadWithReducer(t) ==
  /\ call[t] = Idle
  /\ \E i \in DOMAIN registry[Home[t]], v \in Versions :
       /\ FirstOfItsName(Home[t], i)
       /\ Goto(t, Finding("read", registry[Home[t]][i], v))
  /\ UNCHANGED <<log, appended, snaps, registry, counter>>

\* The first query, of a read or of a snapshot.
FindSnapshot(t) ==
  /\ call[t].at = "finding"
  /\ LET c == call[t] IN
       Goto(t, [at |-> "loading", purpose |-> c.purpose, reducer |-> c.reducer,
                bound |-> c.bound, base |-> Base(c.reducer, c.bound)])
  /\ UNCHANGED <<log, appended, snaps, registry, counter>>

\* The second query of a read, and the fold.
FoldEvents(t) ==
  /\ call[t].at = "loading"
  /\ call[t].purpose = "read"
  /\ LET c == call[t]
         rows == EventsAfterBase(c.base, c.bound)
     IN
       Goto(t, [at |-> "folded", reducer |-> c.reducer, bound |-> c.bound,
                state |-> Apply(c.reducer, c.base.state, rows),
                applied |-> Cardinality(rows)])
  /\ UNCHANGED <<log, appended, snaps, registry, counter>>

\* A historical read returns. So does a full one if maybe_auto_snapshot finds a
\* policy that counts nothing: Manual, or EveryNSeconds, which may schedule a
\* background task.
Return(t) ==
  /\ call[t].at = "folded"
  /\ \/ call[t].bound # Unbounded
     \/ call[t].reducer.policy.kind \in {"Manual", "EveryNSeconds"}
  /\ Goto(t, Idle)
  /\ UNCHANGED <<log, appended, snaps, registry, counter>>

\* maybe_auto_snapshot with EveryNEvents
CountEvents(t) ==
  /\ call[t].at = "folded"
  /\ call[t].bound = Unbounded
  /\ call[t].reducer.policy.kind = "EveryNEvents"
  /\ LET due == Counted(t) >= call[t].reducer.policy.n IN
       /\ counter' = [counter EXCEPT ![Home[t]] = IF due THEN 0 ELSE Counted(t)]
       /\ Goto(t, IF due THEN [at |-> "resolving"] ELSE Idle)
  /\ UNCHANGED <<log, appended, snaps, registry>>

\* ... with StateAdaptive: the counter is raised under one lock and reset under
\* another, after the average cost was looked up.
CountAdaptively(t) ==
  /\ call[t].at = "folded"
  /\ call[t].bound = Unbounded
  /\ call[t].reducer.policy.kind = "StateAdaptive"
  /\ counter' = [counter EXCEPT ![Home[t]] = Counted(t)]
  /\ Goto(t, IF Counted(t) < call[t].reducer.policy.n THEN Idle
             ELSE [at |-> "estimating"])
  /\ UNCHANGED <<log, appended, snaps, registry>>

\* The measured cost of a replay is above the target or not.
Estimate(t) ==
  /\ call[t].at = "estimating"
  /\ \/ /\ counter' = [counter EXCEPT ![Home[t]] = 0]
        /\ Goto(t, [at |-> "resolving"])
     \/ /\ Goto(t, Idle)
        /\ UNCHANGED counter
  /\ UNCHANGED <<log, appended, snaps, registry>>

-----------------------------------------------------------------------------
(* Snapshots. *)

\* take_snapshot by a client, or bg_take_snapshot by the executor
CallTakeSnapshot(t) ==
  /\ call[t] = Idle
  /\ Goto(t, [at |-> "resolving"])
  /\ UNCHANGED <<log, appended, snaps, registry, counter>>

\* take_snapshot looks the reducer up again, also when a read calls it.
Resolve(t) ==
  /\ call[t].at = "resolving"
  /\ registry[Home[t]] # <<>>
  /\ Goto(t, Finding("snapshot", ReducerOf(Home[t]), Unbounded))
  /\ UNCHANGED <<log, appended, snaps, registry, counter>>

\* The second query of take_snapshot, and the fold. Without new events it
\* returns the info of the snapshot there is, or NoEventsToSnapshot.
FoldForSnapshot(t) ==
  /\ call[t].at = "loading"
  /\ call[t].purpose = "snapshot"
  /\ LET c == call[t]
         rows == EventsAfterBase(c.base, Unbounded)
     IN
       Goto(t,
         IF rows = {} THEN Idle
         ELSE [at |-> "writing",
               row |-> [name |-> c.reducer.name, schema |-> c.reducer.schema,
                        version |-> CHOOSE v \in {x.version : x \in rows} :
                                      \A x \in rows : x.version <= v,
                        reducer_version |-> c.reducer.version,
                        state |-> Apply(c.reducer, c.base.state, rows)]])
  /\ UNCHANGED <<log, appended, snaps, registry, counter>>

\* write_snapshot, one statement under the mutex of the process
WriteSnapshot(t) ==
  /\ call[t].at = "writing"
  /\ snaps' = Replace(call[t].row)
  /\ Goto(t, Idle)
  /\ UNCHANGED <<log, appended, registry, counter>>

\* gc_orphaned_snapshots: the keys are read before the mutex is taken.
CallCollect(t) ==
  /\ call[t] = Idle
  /\ Goto(t, [at |-> "selecting", active |-> ActiveKeys(Home[t])])
  /\ UNCHANGED <<log, appended, snaps, registry, counter>>

Collecting(active, keys) ==
  IF keys = {} THEN Idle
  ELSE [at |-> "collecting", active |-> active, keys |-> keys]

Orphans(active) == StoredKeys \ active

\* SELECT DISTINCT; the table is emptied in one statement if no key is active.
SelectOrphans(t) ==
  /\ call[t].at = "selecting"
  /\ IF call[t].active = {}
       THEN snaps' = {} /\ Goto(t, Idle)
       ELSE /\ Goto(t, Collecting(call[t].active, Orphans(call[t].active)))
            /\ UNCHANGED snaps
  /\ UNCHANGED <<log, appended, registry, counter>>

\* One DELETE per orphaned key.
DeleteOrphans(t) ==
  /\ call[t].at = "collecting"
  /\ \E key \in call[t].keys :
       /\ snaps' = {s \in snaps : <<s.name, s.schema>> # key}
       /\ Goto(t, Collecting(call[t].active, call[t].keys \ {key}))
  /\ UNCHANGED <<log, appended, registry, counter>>

\* A step that may fail did: the call returns an error and leaves what it did.
Fail(t) ==
  /\ call[t].at \in {"finding", "loading", "resolving", "writing", "selecting",
                     "collecting"}
  /\ Goto(t, Idle)
  /\ UNCHANGED <<log, appended, snaps, registry, counter>>

Next ==
  \/ AppendEvent
  \/ PurgeEvent
  \/ \E p \in Processes, r \in Reducers : Register(p, r)
  \/ \E p \in Processes : Restart(p)
  \/ \E t \in Threads :
       \/ CallReadState(t) \/ CallReadAtVersion(t) \/ CallReadWithReducer(t)
       \/ FindSnapshot(t) \/ FoldEvents(t)
       \/ Return(t) \/ CountEvents(t) \/ CountAdaptively(t) \/ Estimate(t)
       \/ CallTakeSnapshot(t) \/ Resolve(t)
       \/ FoldForSnapshot(t) \/ WriteSnapshot(t)
       \/ CallCollect(t) \/ SelectOrphans(t) \/ DeleteOrphans(t)
       \/ Fail(t)

Spec == Init /\ [][Next]_vars

-----------------------------------------------------------------------------
(* Properties. *)

Rows == [version : Nat, event : Nat]
States == [applied : SUBSET (Rows \X Nat), again : SUBSET (Rows \X Nat)]
SnapshotRows == [name : STRING, schema : Nat, version : Nat,
                 reducer_version : Nat, state : States]
Bounds == {Unbounded} \cup Versions

CallOK(c) ==
  \/ c \in [at : {"idle", "resolving", "estimating"}]
  \/ c \in [at : {"finding"}, purpose : {"read", "snapshot"},
            reducer : Reducers, bound : Bounds]
  \/ c \in [at : {"loading"}, purpose : {"read", "snapshot"},
            reducer : Reducers, bound : Bounds,
            base : [version : Nat \cup {-1}, state : States]]
  \/ c \in [at : {"folded"}, reducer : Reducers, bound : Bounds,
            state : States, applied : Nat]
  \/ c \in [at : {"writing"}, row : SnapshotRows]
  \/ c \in [at : {"selecting"}, active : SUBSET (STRING \X Nat)]
  \/ c \in [at : {"collecting"}, active : SUBSET (STRING \X Nat),
            keys : SUBSET (STRING \X Nat)]

\* The tables, the registries and the calls have their types.
TypeOK ==
  /\ log \in SUBSET Rows
  /\ appended \in 0 .. MaxEvents
  /\ snaps \in SUBSET SnapshotRows
  /\ registry \in [Processes -> Seq(Reducers)]
  /\ counter \in [Processes -> Nat]
  /\ DOMAIN call = Threads /\ \A t \in Threads : CallOK(call[t])

\* What those who change the logic of a reducer must see to: a new VERSION goes
\* with a new STATE_SCHEMA_VERSION, since the look-up does not compare VERSION.
SharedLogic ==
  \A r, q \in Reducers : Key(r) = Key(q) => r.version = q.version

\* A state of reducer r at version v is the fold of exactly the events up to
\* v, each applied once, and v is the version of the last of them.
SoundAt(r, v, state) ==
  /\ \E row \in log : row.version = v
  /\ state = Fold(r, RowsWithin(log, v))

\* Every snapshot is the fold of the events up to its version through any
\* reducer that may find it, whatever threads of other processes appended,
\* wrote, registered or collected while it was computed.
SnapshotsSound ==
  \A s \in snaps, r \in Reducers :
    Key(r) = <<s.name, s.schema>> => SoundAt(r, s.version, s.state)

Latest(k) ==
  LET V == {s.version : s \in {x \in snaps : <<x.name, x.schema>> = k}} IN
  IF V = {} THEN -1 ELSE CHOOSE v \in V : \A w \in V : w <= v

\* A snapshot that was computed from an older prefix and is written late does
\* not hide a newer one: the version from which reads replay goes back only
\* when a collection deletes snapshots of a key that its process had not
\* registered when it began.
LatestOnlyAdvances ==
  [][\A k \in {Key(r) : r \in Reducers} :
       \/ Latest(k)' >= Latest(k)
       \/ \E t \in Threads : /\ call[t].at \in {"selecting", "collecting"}
                             /\ call'[t] # call[t]
                             /\ k \notin call[t].active]_vars

\* The reads a thread is in, for the abstract specification.
Reading ==
  [t \in Threads |->
     CASE call[t].at \in {"finding", "loading"} /\ call[t].purpose = "read" ->
            [reducer |-> call[t].reducer, bound |-> call[t].bound]
       [] call[t].at = "folded" ->
            [reducer |-> call[t].reducer, bound |-> call[t].bound,
             state |-> call[t].state]
       [] OTHER -> None]

Abstract == INSTANCE StateReads WITH reading <- Reading

\* Snapshots never affect what is read: the store implements reads that know
\* of no snapshots and fold the whole stream as it is at one moment of the call.
RefinesStateReads == Abstract!Spec
=============================================================================
