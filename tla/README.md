# A TLA+ development of fossic

fossic is an embedded event store: a Rust library over one SQLite file in WAL
mode. Clients append events to declared streams, read and fold them, and
subscribe to what is appended. This directory models the parts of it where
interleavings, failures and orders decide correctness. Paths below are those of
the repository; line numbers refer to the same commit.

## The system

| Component | State | Operations | Interacts with |
|---|---|---|---|
| Opening (`src/schema.rs`, `Store::open`) | the file, its version, its tables | `open`, `run_migrations`, `bootstrap_meta`, `bootstrap_system_streams` | other processes that open the same file |
| Event log (`src/append.rs`, `stream.rs`, `deletion.rs`, `system_stream.rs`) | tables `streams`, `events` | `declare_stream`, `append`, `append_if`, `append_batch`, `purge_event`, `SystemStreamWriter::emit` | every write is one `BEGIN IMMEDIATE` transaction; threads of a process share one write connection behind a mutex, other processes and the system writers have their own |
| Subscriptions and dispatcher (`src/subscriptions.rs`, `src/store.rs`) | registry of entries, cursors, bounded queues, degraded flags, two unbounded channels | `subscribe`, drop of the handle, `dispatch_sync`, `dispatch_post_commit`, dispatcher loop, handler threads | writers call `dispatch_sync` under the mutex and send to the dispatcher after it; the dispatcher writes `SubscriptionDegraded` events to the log |
| WAL watcher (`src/wal_watch.rs`) | last `data_version` | `run_scan_loop` | woken by the file system, reads cursors of the registry, sends what it finds to the dispatcher |
| Snapshots and reducers (`src/snapshots.rs`, `reducers.rs`) | table `snapshots`, registry of reducers, size and cost monitors | `register_reducer`, `read_state`, `take_snapshot`, `gc_orphaned_snapshots` | reads the log; triggered by reads and by the executor |
| Background executor and lifecycle (`src/executor.rs`, `src/store.rs`) | priority queue of tasks, quiescence clock, reference counts | `schedule`, the `fossic-bg` thread, drop of `Store` | runs snapshots, collection and saves of the index; writers and the dispatcher reset its clock |
| Branches (`src/branches.rs`) | table `branches`, a cache of chains per process | create, promote, mark dead end, resolve chain | pointers into the log |
| Reads (`src/read.rs`, `cross_stream.rs`) | none in the store: the caller holds a token | ranges, batches, correlations, causation walks, aggregates; whole, by pages, by iterator | a pool of read connections; the registry of upcasters |
| Patterns and upcasters (`src/glob.rs`, `upcasters.rs`) | registry of upcasters | matching, specificity, overlap, version chains | subscriptions, reducers, aggregates, every read |
| Similarity index (`crates/fossic-similarity-hnsw`) | graph, mappings, dirty and pending flags, three files | index, query, `schedule_save`, `save_to_disk`, load | the executor runs its saves |
| Python relay (`fossic-py/python/fossic/relay.py`) | an agent's subscription, queue and current event; no cursor | `relay_event`, retry, skip | appends to the store of a hub what a project's store delivers |
| Cursors (`src/cursors.rs`) | table `cursors` | get, set | consumers |
| Transforms, CCE, types | registry of transforms | before an append: transformation, canonical encoding | append path |
| Bindings (`crates/fossic-tauri`, `fossic-node`, `fossic-py`) | handles | forwarding | the core crate |

What is hard in it: commits are ordered by SQLite, but their events travel to
subscribers by two routes (the writer itself, and the watcher) over one channel
on which nothing orders them; cursors are read and raised by different threads
at different times; a subscription can overflow, panic, or go away at any
point; the process can die between two statements, or between two files;
retried appends carry the same id; purges make holes and give versions free
again; reads by pages hold nothing between two pages but a token; every
registry of a process is unknown to the others.

What makes each component correct:

* opening: a file that says it is whole is whole, and somebody gets it made;
* event log: acknowledged events are stored, ids and slots unique, versions
  gapless, batches atomic, purges audited, compare-and-swap sound;
* delivery: in order, at most once, no hole, nothing stuck, failures reported,
  Synchronous projections that were there first in agreement with the store;
* snapshots: a read through a snapshot equals the fold of the whole stream;
* executor: tasks run when the store is quiescent, no deferred task is lost in
  silence, drop-time collection runs once;
* branches: a cached chain is that of the table, a branch that is there
  resolves, a resolution ends, a closing is final;
* reads: pages ascend, a walk gives nothing twice, nothing that was there throughout
  is left out, reads end;
* reducers: one fits a stream best, in whatever order they are registered;
* similarity index: a hit is reported with the event it was indexed for, what is
  not dirty is saved, what was scheduled is saved;
* relay: each event is in the hub once, under its own id, those of one local stream in
  its order, and what an agent holds is relayed or given up.

## Modules

| Module | What it is |
|---|---|
| `EventStore` | the event log, one action per statement group of a write transaction |
| `EventLog` | its abstract specification: sequences that are extended at the end, or purged with an audit |
| `MCEventStore` | instance for TLC |
| `EventStore_proofs` | TLAPS proofs of the types and all six properties of `EventStore`, among them the refinement of `EventLog` |
| `Delivery` | writers, remote processes, watcher, dispatcher, registry and handler threads |
| `Feed` | abstract specification of a PostCommit subscription: a feed without holes that may end |
| `MCDelivery` | instances for TLC |
| `Delivery_proofs` | TLAPS proofs of four invariants of `Delivery`, of the refinement of `Feed` and of `NoGap` |
| `Reduction` | pure: the fold of rows through a reducer, and what a state is known by |
| `Snapshots` | reads of folded state, snapshots and their collection on one stream, by threads of several processes |
| `StateReads` | abstract specification of a read: the fold of the whole stream at one moment, no snapshots |
| `MCSnapshots` | instance for TLC |
| `Snapshots_proofs` | TLAPS proofs of `SnapshotsSound`, of the refinement of `StateReads`, of the types and of `LatestOnlyAdvances` |
| `Executor` | the background thread, its task queue, the clones of a store and its end |
| `MCExecutor` | instance for TLC |
| `Executor_proofs` | TLAPS proofs of the four safety properties of `Executor` |
| `Patterns` | pure: glob matching, specificity, overlap, and SQLite's `GLOB` as far as an aggregate uses it |
| `Upcasters` | pure: the sorted registry of one event type and the chain it makes |
| `Reads` | one reader by pages, by iterator or at once, against appends, purges and registrations |
| `MCReads` | instance for TLC |
| `Reads_proofs` | TLAPS proofs of the types and the three safety properties of run `reads` |
| `Branches` | the table of branches, its writers and the resolution of chains |
| `ReducerRegistry` | registration of reducers by pattern, and the choice among them |
| `Opening` | processes that open one file |
| `Catalogue` | the last three beside each other |
| `MCBranches` | instances of them for TLC |
| `Branches_proofs` | TLAPS proofs of the three safety properties of `Branches`, of `StampedOnceWhole` and `OpenIsWhole`, and of `OneMostSpecific` |
| `Similarity` | the vector index, its flags and its files |
| `MCSimilarity` | instances for TLC |
| `Similarity_proofs` | TLAPS proofs of its three safety properties |
| `Relay` | agents, two stores and the channel between them |
| `MCRelay` | instances for TLC |
| `Relay_proofs` | TLAPS proofs of its three safety properties |

### EventStore

`events` and `streams` are the committed tables, `tx` the one open transaction
with its own view `rows` of the events table. `Begin*` takes SQLite's write
lock, `Insert` is one pass of `append_impl` (or of the loop of
`append_batch_impl`): check the stream, evaluate the condition of `append_if`,
assign `MAX(version) + 1`, `INSERT OR IGNORE`. `Refuse` is the early return that
drops the transaction, `Rollback` an SQLite error or the death of the process
after any statement, `Commit` publishes. `Purge` and `EmitSystem` are the
transactions of `purge_event_impl` and `SystemStreamWriter::emit`; their
statements have no branch between them that depends on anything concurrent, so
they run in one step up to the commit. `seen` is the version a client read
before its `append_if`; `acked` and `purges` are histories.

An event is its id. Ids are given values, equal exactly when the hashed contents
are: the model lets any client append any id to any stream again, which is a
retry, a duplicate inside a batch, or the same content in another stream (the id
names no stream). Validation that rejects before any write (tags, stream names,
the purge confirmation) is left out.

Assumed of SQLite: transactions are atomic and serialised, committed data
survives the death of a process. (`PRAGMA synchronous = NORMAL` does not promise
the last commits after a loss of power; that is not modelled.)

### Delivery

A topic is a stream and branch, its events are numbered in commit order (which
`EventStore` shows in the absence of purges). A writer goes `idle` → `entered`
(it has read `has_subscribers`) → `locked` (committed, mutex held;
`DispatchSync` moves one new event at a time from `fresh` to `pending`, which is
`post_commits`, and drops those of system streams) → `sending` (first the reports of
panics, then the events) → `idle`. `RemoteCommit` is a commit of another process. The watcher
takes a notification (`Wake`), reads the cursors (`Snapshot`), fetches topic by
topic in any order (`Fetch`) and sends event by event. The dispatcher pushes an
event to all queues in one step (the read lock of the registry), advances the
cursors in another (the write lock), then writes its reports and drains those of
Synchronous handlers. `Seed` and `Register` are the two halves of `subscribe`.
A handler takes an event off its queue and either returns (`Handle`) or panics
(`HandlerDies`).

A subscription that is a glob has its set `known` of topics with a cursor, as in
`stream_cursors`; an exact one always has its own.

Not modelled here: SQLite errors on the connections of the watcher and of the
system writer, handlers that call back into the store, queues of size 0, and
the end of the threads when the store is dropped. `include_system` needs no
state: events of `_fossic/*` streams are never dispatched, whatever it says
(`append` skips them, and so does the dispatcher).

### Snapshots

`log` and `snaps` are the rows of one stream and branch in the tables `events`
and `snapshots`, `registry` and `counter` what each process keeps in memory,
`call` the place each thread has reached. A call goes `finding` (reducer chosen)
→ `loading` (snapshot looked up) → `folded`, for a read, or → `writing`, for a
snapshot. A full read then applies its policy (`CountEvents`, `CountAdaptively`,
`Estimate`), which may lead to `resolving`, the first step of `take_snapshot`,
also reached by a client or the background executor. A collection is
`selecting` (it has the active keys) → `collecting` (it has the orphaned keys),
one `DELETE` each. Every arrow is a separate step because each query, and each
`DELETE`, is a statement of its own on an autocommit connection. `Fail` is an
error of any of them: SQLite, the exhausted pool, a reducer that panics.

A state is abstracted to the rows applied to it, under which `VERSION` of the
reducer, and those applied more than once. That is what tells a skipped, a
repeated or a purged event from a correct fold. `Estimate` is nondeterministic: it
stands for measured costs. Not modelled: `write_snapshot_state` (the caller
brings the state), the clock of `EveryNSeconds` (its background snapshot may
come at any time), and the monitors that emit `ReducerStateLarge`.

Two obligations of the users appear as parameters. `SharedLogic`: reducers with
the same name and state schema version have the same `VERSION`, because the
look-up does not compare it. `PurgeFolded = FALSE`: no event is purged that a
snapshot, or a call in progress, has folded.

### Executor

`handle` says how far each clone of the store is: `live` → (`collecting`) →
`releasing`, the two halves of `Drop for Store`, where the count is compared
before the reference is given up → `gone`, or, for the last, `closing` (the
fields of `StoreInner` are being dropped) → `joining` (waiting for the thread or
the grace timeout). `bg` is the place of `fossic-bg` in its loop: `sleeping` →
`awake` → `drained` → `popped` → `running` → `executed` → `requeuing`, or
`stopping` → `reporting` → `done`. While it is `running` its upgraded weak
reference counts as an owner (`Owners`); if that is the last one the thread itself
closes the store and waits for its own end (`StopItself`, `Expire`).

`heap` is the set of entries and `Foremost` what `BinaryHeap::pop` may return
under the order of `BacklogTask`. A task is a name, scheduled once, and its
outcome is left open, since the thread goes on after an error or a panic. `quiet`
abstracts the two timestamps of `QuiescenceMonitor`: it becomes true when the
window has passed and false at a write or a dispatch, both at any time. Deadlines
come off a clock that may go back. Not modelled: a failed spawn, a task
whose closure holds a clone of the store, and the end of the dispatcher and
watcher threads.

### Opening

`place` is how far a call of `Store::open` has come: `connecting` → `connected` →
(`creating` → `created`, if the version it reads is 0) → `migrated` → `described` →
`bootstrapped` → `open`. `SCHEMA_V1` is a batch without a transaction, so each of
its 17 `CREATE` statements is a step (`CreateNext`), and one whose object exists
ends the call (`Clash`). `ReadVersion` may read 0 whatever the file says
(`unwrap_or(0)`, `src/schema.rs:111`). A file of a later release has at least the
tables of this one. `Opened` starts the threads and the pool in one step: what fails
there leaves the file as it is.

### Reads

`pc` is the place of the one reader: `ready` (it may ask for a page) → `fetched` (a
range, a batch or a correlation is one statement), or `expanding` → `returning` →
`expanded` → … for a walk by pages, which is one statement, or two, per level →
`fetched` → (upcast) → `ready` or `last`. A walk at once is one recursive statement per
direction, with `merging` between the two; an aggregate upcasts and folds in the step
that reads. `how` tells the three callers
apart: `whole` asks once, without a budget; `pages` keeps the token in `cursor`;
an `iterator` refills its buffer and ends for good after an error. `throughout` and
`ever` are histories of what was stored all along, and at some time, since the query.

The rows' ids are numbered in the order of their bytes, by which pages of correlations
and the levels of a walk by pages go, and by which sampling keeps the first ones of a
level. What is read at once (`ByTime`), but for ranges, and what an aggregate folds goes by
timestamps (`src/cross_stream.rs:83`, `:207`, `:245`, `:530`, `src/read.rs:106`), in a walk
within a level; timestamps are not modelled, so every such order is possible
(`Foremost`). A walk at once in both directions puts all ancestors behind all
descendants, so the levels of the ancestors are counted on from `query.depth`
(`WalkWhole`).
An upcaster keeps the size of a payload. One reader is enough, since readers do
not write.

`Upcasters` models a registry as the sorted sequence it is and a chain as a recursive
function; a chain longer than the registry repeats an entry, so it never ends.
`Patterns` is checked through what uses it.

### Branches and ReducerRegistry

`pc[t]` is `idle`, `created` or `closing` (the thread holds the connection mutex of its
process between two steps), or `walking`, one query per ancestor, which needs no
mutex. `ClearCache` is the second half of `create_branch`: the chains of the stream
leave the cache of the thread's own process. `careful` says whether callers create a
branch after its parent, since `create_branch` does not look at it; with it
FALSE a chain may be cyclic and the walk never ends (`WalkAround`).
`Restart` ends a process at any point.

The registry of reducers is a sequence of patterns; whether two may overlap is
decided by `MayOverlap` as in `reducers.rs`, and the properties quantify over streams.

### Similarity

The graph is the set of its points (a data id, and the event whose vector it is), `ids`
the mapping from data ids to events. A save takes the mutex (`BeginSave`), writes the
graph (`dumping` → `dumped`) and then the mappings (`mapping` → `idle`), and a file that
is being written is `Torn`. `FailSave` is an error at either, with the clean-up that
follows; `End` the end of the process, at any point; `New` a provider that loads the
files if all are whole. `schedule_save` is three steps of a caller
(`Schedule`, `Stamp`, `Enqueue`) and its task three of `fossic-bg` (`StartTask`,
`CheckDirty`, `BeginSave`). `CloseStore` drops the queue.

External: the search of `hnsw_rs`, which may return any point, and its dump, whose two
files count as one. Not modelled: two processes on one directory, dimension checks,
and a clean-up that fails.

### Relay

`log` and `hub` are the two stores; an id is the pair of what an event says and its
cause, because the id is a hash of both and names no stream. An agent is `down`, `listening`,
or relaying: `checking` (`read_by_external_id`) → `translating` (the cause's id
in the hub) → `appending`. `Retry` sends it back to `checking` and `Skip` gives the
event up. `Deliver`, `Degrade` and `Take` are the subscription as a client
sees it, which `Delivery` models in full: for each stream in order, from where it began,
until it overflows (`cursor`). Between streams there is no order, because the watcher
scans them one after another out of a hash map (`src/wal_watch.rs:148`, `:173`), and some
events may be passed over (run `delivery_lost`). `WriteOther` is another project, which may write the same event.

Not modelled: the user's `relay_filter`, the heartbeats of a second thread, and the
registration of the project, both appends to the system stream of the local store.

## Runs

Run any of them with `tlc -config <cfg> <module>`.

| Run | Checks | Bounds |
|---|---|---|
| `event_store` (`MCEventStore.cfg`) | `AckedStored`, `Unique`, `GaplessUnlessPurged`, `RemovalAudited`, `NoLostUpdate`, `RefinesEventLog` | two clients, one user stream and the system stream, two event ids, two audit ids, batches of two |
| `delivery_order` (`MCDeliveryOrder.cfg`) | `InOrder`, `CursorIsLastPushed`, `AuditTruthful` | two writers and another process on one stream of two events, one exact subscription that is made and dropped at any time, a queue of one, notifications may be missed |
| `delivery_sync` (`MCDeliverySync.cfg`) | `SyncConsistent`, `DegradationReported` | two writers, two events, batches of two, one Synchronous subscription and a PostCommit one on the system stream, both made before the first append |
| `delivery_live` (`MCDeliveryLive.cfg`) | `EventuallyHandled`, `RefinesFeed` | one writer on `a`, another process on `b`, one glob subscription, a queue of one, one event in each stream at the start and two more, both in one stream or one in each |
| `snapshots` (`MCSnapshots.cfg`) | `SnapshotsSound`, `LatestOnlyAdvances`, `RefinesStateReads` | two processes of one thread each, two reducers of one name with different schemas and policies, two appends, historical reads at version 0, `PurgeFolded = FALSE` |
| `executor` (`MCExecutor.cfg`) | `OneOutcome`, `Accounted`, `CollectsAlone`, `ShutsDown`, `EventuallyExecuted` | two clones, the hourly collection and two one-shot tasks of a higher priority that are to be reported, two clock readings |
| `reads` (`MCReads.cfg`) | `PagesAscend`, `NoEventTwice`, `NothingSkipped`, `ReadsEnd` | five events of two streams, two appends or purges, ten queries, budgets of one and two events and of two bytes, two upcasters |
| `branches` (`MCBranches.cfg`) | `CachedChainsTrue`, `ExistingResolves`, `ClosedForGood`, `ResolveEnds`; `OneMostSpecific`; `StampedOnceWhole`, `OneGetsThrough` | two processes with three threads, two branches, each forked from the trunk or from the other; ten patterns and four streams; three openers and three statements |
| `similarity` (`MCSimilarity.cfg`) | `TypeOK`, `HitsTrueUnlessInterrupted`, `CleanIsSaved`, `ScheduledIsSaved` | two callers and the executor, two events, two vectors |
| `relay` (`MCRelay.cfg`) | `RelayedOnce`, `IdsKept`, `InLocalOrder`, `HeldIsRelayed` | two agents, two local streams and two local events, in one stream or in both, with or without a cause, one event of another project, two attempts |
| `delivery_lost` (`MCDeliveryLost.cfg`) | `NoGap`, violated | two writers on one stream |
| `similarity_crash` (`MCSimilarityCrash.cfg`) | `HitsTrue`, violated | as `similarity` |

The three specifications of `branches` share no state: a behaviour of `Catalogue` is
one of branches, one of registrations or one of openings.

Why the bounds are enough. In the event store a hazard needs two clients (one
reads or begins, the other commits), two ids (one stored, one new) and two audit
ids (one of a purge, one that is purged itself or repeats); a batch of two has an
item before and one after the point of failure. In delivery an order can only be
wrong between two events of a topic; a queue of one overflows at the second
event, and the duplicates on the channel follow an overflow. The audit ids
also bound the number of purges and reports in `event_store`; `MaxEvents` bounds
the appends to each topic, `MaxBatch` the batches. A snapshot can only be
wrong, late or hidden relative to one other snapshot, so two events and two
processes do; the second reducer makes keys go stale and be collected, and
`MaxCount` stops the counters at the greatest threshold, beyond which they are not
told apart. In the executor two clones make and lose the last reference in every
order with the thread's own, two one-shot tasks can be one in the channel and one
in the heap or in hand, and two clock readings give deadlines in both orders;
`MaxRuns` only stops the counting of executions, which are not told apart from two
on. In `reads` the graph of causes has a fork and a path of three levels, so that a
page is cut within a level and between two; one event is stored late and any may
go, at the token and on either side of it (`MaxWrites`). Two branches make every
chain of up to three segments, a missing parent and a cycle; the mutex is contended
in one process and absent between the two. Three openers are one that makes the
file, one that meets it half made and one that comes after a failure; of
three statements one is first, one in between and one last. Two vectors (`MaxPoints`)
are one saved and one lost. In `relay` the second agent is the one that should not be
there; two events are cause and effect, or two in the wrong order (`MaxEvents`),
`MaxOther` is the event that another project wrote first, `MaxAttempts` one retry
and one skip.

The bounds stop the model where the system could go on, hence `CHECK_DEADLOCK FALSE` in
the delivery runs and in `reads`, and in the executor's, whose thread really
ends; the others never deadlock, and their runs check so. Clients, ids and writers are
symmetric in runs without liveness properties.

`RefinesFeed` and `EventuallyHandled` hold where each stream has one appending
thread or process (`OneSource` in `Delivery_proofs`) and has events when the glob
subscription is made (`FromTheStart`). The constants of `MCDeliveryLive.cfg` satisfy both,
and `RefinesFeed` is proved from them. `MCDeliveryLost.cfg` drops the first and
`MCDeliveryGlobGap.cfg` the second, and each loses an event.

### Fairness

`Delivery` has weak fairness for each thread that has work: a writer past its
commit (`Finish`), the dispatcher, the watcher, and each handler, which returns
or panics. These are operating system threads that block only on what the model
shows. Nothing obliges anybody to append, to subscribe or to unsubscribe, and
`MissNotice` is not fair. `EventuallyHandled` in `delivery_live` assumes that a
notification follows every commit of another process once it is visible
(`NoticeMayBeMissed = FALSE`).

In `Executor` the thread's loop is weakly fair, because its sleep and the grace
timeout end, and so is every drop that has begun. Nothing obliges anybody to drop
a clone or the store to become quiet: `EventuallyExecuted` is about a store that
becomes quiet for good.

In `Reads` the reader goes on asking and taking (`ReadStep`), while errors, retries
and the writes of others are free to happen or not. In `Branches` a walk that has begun
goes on, in `Opening` a call of `open`. In `Similarity` threads go on with what they have
begun and the executor comes to its queue (`Executor` is why: its task is one of those
that `EventuallyExecuted` is about); nobody need index, schedule, save or
close. In `Relay` an agent that runs goes on with what it was given; nothing obliges
the subscription to deliver, or a crashed agent to be started again.

## Findings

* **Two writers, lost event.** Events are sent outside the mutex
  (`src/store.rs:426`), so they can reach the dispatcher in the opposite order of
  their commits; the earlier one is then dropped as old
  (`src/subscriptions.rs:270`). Run `delivery_lost`. The same happens between
  a thread and another process.
* **A save that ends between its files.** `save_to_disk` writes the graph over the last
  one and then the mappings (`crates/fossic-similarity-hnsw/src/provider.rs:414`). If
  the process ends in between, the next provider loads the new graph with the old
  mappings, gives the data ids of the lost mappings to other events, and
  reports vectors under the wrong events, against "never a partial save on disk"
  (`crates/fossic-similarity-hnsw/README.md:88`). Run `similarity_crash`.

Configurations that show further disagreements; TLC finds a violation with each:

* `MCOpeningRefused.cfg` (module `MCBranches`), `NobodyRefused`: a process that opens a
  new file while another makes its schema, or after one died during it, fails with
  "table already exists" (`src/schema.rs:125`), in the second case for ever, against
  "Multiple processes can safely open the same fossic store file"
  (`docs/deep-dives/storage-schema-concurrency.md:724`) and "Value `0` means a fresh
  (uninitialized) database" (`:31`).
* `MCEventStoreReuse.cfg`, `VersionsNeverReused`: after a purge of the last event its
  version is given to the next append (`src/append.rs:74`), against "version is
  monotonic" (`docs/implement/FOSSIC_V1_SPEC.md:1152`).
* `MCDeliveryGlobGap.cfg`, `NoGap`: the scan of a stream that has no cursor yet starts
  after the least cursor of the others (`src/subscriptions.rs:361`), against the
  comment at `src/store.rs:585`.
* `MCDeliveryLateSync.cfg`, `LateSyncConsistent`: a Synchronous subscription that is not
  there before the first append can miss an event: `append` reads `has_subscribers` before
  it takes the mutex (`src/store.rs:387`), so the first subscriber may register between
  that and the commit; and what is committed between the reading of the cursors and the
  registration (`src/store.rs:607`, `:618`) is dispatched to nobody. Against "`Synchronous`
  fires inside the write transaction before `append()` returns" (`README.md:111`).
  `SyncConsistent` is about the others.
* `MCSnapshotsPurged.cfg`, `RefinesStateReads`: `purge_event` leaves the snapshots that
  have folded the event (`src/deletion.rs:110`), against "Snapshots never affect
  correctness" (`FOSSIC_V1_SPEC.md:1153`).
* `MCExecutorWindow.cfg`, `OncePerWindow`: the loop pops whatever is in the heap, so in
  a quiet store the hourly collection runs every 500 ms (`src/executor.rs:287`), against
  "at most once per quiescence window" (`src/executor.rs:73`).
* `MCReadsTwice.cfg`, `ResumedWithoutRepeats`: a walk both ways that is resumed from its
  token knows only the last level as visited (`src/cross_stream.rs:365`) and gives
  events again.
* `MCReadsMerged.cfg`, `OrderedByDepth`: a walk at once in both directions returns all
  descendants and then all ancestors (`src/cross_stream.rs:167`), so the levels go back,
  against "ordered by minimum depth from the start" (`src/cross_stream.rs:23`). By pages
  it is so ordered.
* `MCReadsSubtree.cfg`, `SubtreesAnswered`: an aggregate over `a/**` leaves out the
  stream `a`, which the same pattern matches in a subscription.
* `MCBranchesReopened.cfg`, `ClosedForGood`: two processes can both close a branch, one
  as promoted and one as a dead end (`src/branches.rs:123`), against "one-way and
  terminal" (`docs/deep-dives/branches.md:81`).
* `MCRelayTrue.cfg`, `TrueMeansAppended`: `relay_event` returns True for an event that
  the hub holds already in another stream, and ignored, against "True if appended"
  (`fossic-py/python/fossic/relay.py:197`).

Divergences read off the code, which no configuration is spent on:

* a snapshot is found by name and state schema version alone
  (`src/snapshots.rs:18`), where `FOSSIC_V1_SPEC.md:671` says that all three
  must match;
* `take_snapshot` without new events returns the existing snapshot
  (`src/store.rs:1449`), where `docs/deep-dives/reducers-snapshots.md:378` has
  it fail;
* the collection reads its keys before it takes the mutex (`src/store.rs:1500`),
  so it can delete snapshots of a reducer registered since, and of reducers of
  other processes, although it is to spare those of "any currently registered
  reducer" (`src/store.rs:1498`);
* Synchronous handlers run after the commit, not inside the transaction
  (`docs/deep-dives/subscriptions-wal-watch.md:13`);
* an ignored duplicate consumes no version
  (`docs/deep-dives/failure-modes.md:25` says it does);
* `include_system` never delivers a system event (`docs/architecture.md:193`
  says it does);
* the `Purged` event can itself be purged (`FOSSIC_V1_SPEC.md:1157` calls it
  permanent);
* the watcher has no polling fallback, so a missed notification waits for the
  next commit (`src/wal_watch.rs:99`), where
  `docs/deep-dives/subscriptions-wal-watch.md:475` describes one;
* a task does not wait for its deadline (`src/store.rs:1647` says that it does);
* a one-shot task popped when the store is already gone is lost even if it is to
  be reported (`src/executor.rs:280` against `:68`; the set `skipped` in
  `Executor`);
* the collection at the end is skipped when two clones are dropped at once or
  the thread holds a reference (`src/store.rs:192` against
  `src/snapshots.rs:123`);
* an executing task does keep the store alive past its last clone
  (`src/executor.rs:20`), and then the thread closes the store and waits for
  itself until the grace timeout;
* bounded and iterator reads ignore `ReadQuery.limit`, and a budget of 0 gives an empty
  truncated page for ever, where `src/store.rs:652` says "Always returns at least one
  event"; in a correlation its token is all zeros, so that the next page with a greater
  budget starts from the first event again (`PagesAscend` is proved for the others);
* one event that an upcaster chain does not reach fails its whole page; a cycle of
  upcasters spins for ever with the registry locked (`src/upcasters.rs:43`; the place
  `spinning` in `Reads`);
* a bounded walk in both directions also visits siblings, since each level is expanded
  both ways;
* `read_range` of a branch gives the rows of that branch alone, where
  `FOSSIC_V1_SPEC.md:836` stitches them to those of the parent;
* `create_branch` does not look at the parent (`src/branches.rs:141`), so ancestors may
  form a cycle, on which `resolve_chain` loops for ever (`src/branches.rs:231`); events
  can still be appended to a closed branch; the cache of chains is cleared in the own
  process alone;
* a save of the index that fails removes the good files of the one before and leaves
  the index "clean" until the next insert, where
  `crates/fossic-similarity-hnsw/src/provider.rs:454` has `is_dirty` mean "unsaved changes";
* a store that is closed with a save in its queue leaves `save_pending` set, and every
  later `schedule_save` of that provider does nothing (`stranded` in `Similarity`);
* the index on `external_id` is not unique (`src/schema.rs`, `idx_events_external_id`), where
  `docs/deep-dives/event-lifecycle.md:460` says so and relies on it; what keeps a
  relayed event single is its id (`IdsKept`);
* what is appended while an agent is down is never relayed, and a subscription that
  degrades leaves its agent waiting for ever; errors of the hub end in the retries, so
  an outage of some seconds skips the events of that time; if the hub's stream is not
  declared, every event is skipped;
* an error in reading `user_version` counts as 0 (`src/schema.rs:111`), so a whole file
  is then reported as "table already exists".

## Proofs

**The event store.** `EventStore_proofs` proves, for all sets of clients, streams, branches and ids
and any batch length, the type invariant, `Unique`, `AckedStored`,
`GaplessUnlessPurged`, `RemovalAudited` and `NoLostUpdate`. It rests on the four
named assumptions of `EventStore` (the system stream and main branch exist,
client and audit ids are disjoint, `None` is no client, batches are bounded).

None of the invariants is inductive, because `Commit` replaces the committed rows
by the view of the open transaction. `IInv` therefore says of that view what the
properties say of the tables (`TxInv`): it keeps all committed rows but the purged
one (`Keeps`), it holds the ids to be returned (`Returns`) and the audit event
(`Audits`), it is unique and gapless, and an `append_if` has added nothing but the
version after the expected one (`Swaps`). The argument about one insert is in two
lemmas. Versions are bounded (`Bounded`), so a non-empty set of them has a maximum
(`BoundedHasMax`, from the well-foundedness of the naturals); hence the version
assigned is above all others of its stream and `INSERT OR IGNORE` can only ignore
a row for its id (`InsertIgnoresOnlyKnownIds`); hence an insert keeps the set
unique, gapless and bounded and leaves the id in it (`InsertKeeps`).

`RefinesEventLog` is proved from the same assumptions. The mapping (`LogOf`) orders the
rows of a key by rank, the number of rows up to a version. Rank is injective into 1 .. n
(`RankRises`), hence onto it (`RowAtIs`), since the table is finite. A second invariant
(`RInv`) says of the open transaction that the rows it adds are above the committed ones of
their keys (`Newer`), and that it either keeps all of those or, in a purge, swaps one
for an audit event with a new id (`PurgesOne`). Rows above all others leave the ranks below
as they are, so a commit leaves a prefix (`ExtendsIds`); taking one out moves those
above it down by one, which is `RemoveAt` (`RemovesId`); and the audit event goes to the
end of the system stream (`AppendsId`). No id is twice in the log, in one
sequence or in two (`LogHasNoDuplicates`).

**Delivery.** `Delivery_proofs` has three arguments, for any topics, threads, other
processes and subscriptions, any batches and queues, notices missed or not, from the four
named assumptions of `Delivery`.

`InOrder`, `CursorIsLastPushed` and `AuditTruthful` are parts of `IInv`, which is
inductive because it also says that what is under way on any channel is committed
(`ChannelsOK`: a version from the future would be handed out before its commit), that
only the holder of the mutex has undispatched events, in order and newer than all that
Synchronous subscriptions got (`LocksOK`, `FreshOK`), that between the two passes of
`dispatch_post_commit` a subscription that took the event still has a cursor below it
(`DispatcherOK` and the last line of `SubOK`), that nobody is handed events before it
registers (`BeforeOK`), and that a report on its way is as true as one that arrived
(`ReportsOK`: whoever is degraded stays so and is pushed nothing more).

`SyncConsistent` counts: a Synchronous subscription that was made before the first append
has seen all events of a local topic but those which the holder of the mutex has still to dispatch (`SeenOK`, with
`Ahead` for their number). It needs that those are the last versions of their topic
(`NumberedOK`) and that no writer read `has_subscribers` as false while the
subscription was live (`AnnouncedOK`).

`RefinesFeed` and `NoGap` have two hypotheses. `OneSource`: a topic is appended to by
one thread, or by other processes. `FromTheStart`: subscriptions precede the first
append, and one with a wildcard finds its topics non-empty. Under them `FeedInv` says of
every way to the dispatcher (the channel, what the watcher has fetched, what each
writer has) that the events a feed lacks follow one another on it, the first of
them right after the feed's position or after an event that is ahead in the channel
(`Chained`, `NoHole`), that a scan starts no later than any position, and that the next
version to be committed has its predecessor under way. Duplicates are harmless,
for the position only rises (`Absorbed`). The dispatcher's push is then a step of `Feed`
to the next version, and every other step ends a feed or leaves it alone. The
counts that the proofs need (`PlacesSplit`, `AheadIs`) use the cardinality theorems,
and the greatest and least of a set of versions well-foundedness (`LeastIs`,
`HasLast`).

**Snapshots.** `Snapshots_proofs` proves `SnapshotsSound` and the refinement of
`StateReads` for all threads, processes and reducers, any number of events and
any versions asked for, from `SharedLogic`, `~ PurgeFolded` and the named
assumptions of `Snapshots` (threads have a process, reducers have their types).
`SnapshotsSound` is not inductive, since a thread carries a snapshot it has found,
or a row it is about to write, while others act. `IInv` says of what is carried
what the property says of the table (`CallsOK`), that versions are below the
number of appends (`LogOK`) and that a registry has a most specific entry
(`RegistryOK`). The argument: a sound state at version v is the fold of the rows
up to v, so folding the rows after v on top of it is the fold of the stream, each
row once (`FoldFromBase`); the next version is above all others, so an append
leaves the rows up to v alone (`AppendKeepsSound`); a purged row that no state has
folded is above v (`PurgeKeepsSound`). A step of the store is then a step of
`StateReads` or leaves its variables alone: the fold of a read is its `Return`.

The types and `LatestOnlyAdvances` are proved from the named assumptions alone, so also
where folded events are purged and keys are shared by other logic. Their
invariant (`TInv`) says that stored and carried rows are of versions below the number of
appends, and that the keys a collection still has to delete were not active when it
began. The greatest version of a key (`LatestIsGreatest`) can then only fall in a
step that deletes: `INSERT OR REPLACE` leaves a row of every version there was
(`LatestKept`), and a `DELETE` hits a key outside `active`.

**The executor.** `Executor_proofs` proves its four safety properties for any
number of tasks, clones and clock readings, from the named assumptions of
`Executor` (finitely many clones, profiles and times of their types).
`CollectsAlone` needs that whoever closes the store does so after the last reference
was given up (`References`), and that the count of a finite set of owners is one
only if the owner is alone (`OnlyOwnerIsAlone`). `OneOutcome` needs that a one-shot
task has one entry in one place, and none once it has an outcome (`Fate`).
`Accounted` needs that a task without an outcome is queued or in the thread's hand
(`Followed`) and that nothing is scheduled once the thread has seen the stop flag
(`Ending`).

**Branches.** `Branches_proofs` proves, for all threads, processes, branches and versions,
the types, `CachedChainsTrue`, `ExistingResolves` and `ClosedForGood`, from the named
assumptions of `Branches`. A chain is cached at the end of a walk of several queries,
so `IInv` says of each walk in progress what the property says of the cache: what is
walked so far leads from the branch that was asked for to the current row (`WalksSound`).
It is kept because a row, once there, never changes its parent or its fork.
`ExistingResolves` needs that the parents of stored rows are stored, when callers are careful.
`ClosedForGood` is proved where the threads that close branches are of one process
(`OneCloserProcess`): the mutex is held from the `SELECT` to the `UPDATE`, so a branch
that is about to be closed is still open. `MCBranchesReopened.cfg` shows that it is needed.

**Opening.** `Branches_proofs` also proves `StampedOnceWhole` and `OpenIsWhole` for any number
of processes and of statements. `FileInv`: a file with a version has its whole schema;
whoever has run the last statement is alone in that and finds the version still 0
(`Creators`), because a file that has the table of the last statement refuses any
other; and what each later place of a call knows of the file (`Migrated`).

**ReducerRegistry.** `Branches_proofs` proves `OneMostSpecific` for any patterns and
streams, that is, sequences of strings (`NameAssumption`). The argument is about the
operators of `Patterns`: matching is a recursive function of the places in a pattern, and
induction over them (the table of `TableExists`) shows that a pattern without `**`
matches segment by segment (`PlainMatch`), so two that match one stream may overlap
(`MatchingOverlap`), as all with `**` may; and the registry keeps no two that may overlap
and are equally specific (`Unambiguous`, `RegisterKeeps`).

**Reads.** `Reads_proofs` proves the types, `PagesAscend`, `NoEventTwice` and
`NothingSkipped` for any events, streams, queries and budgets and any number of appends,
purges and registrations between the statements, from the named assumptions of `Reads`:
ids are numbers, no event is among its own causes (`CauseAssumption`: an id is a hash that
covers the cause's id), the initial rows are finitely many with unique ids and slots,
names and patterns have at least one segment (`NameAssumption`), and queries have the form
of their kind. None of the three is inductive, as a page is a statement of its own, related
to the pages before it by no more than a token.

`PagesAscend` is about the reads that have an order of their own, by pages, by iterator and
whole ranges (not `ByTime`). It has the hypothesis `BudgetsLetOneThrough`, no
`max_results` of 0. `OrderOK` says that everything handed over is behind the token that is asked with next and that a
page is beyond the one it was asked with (`Behind`, `Beyond`). For a range this needs that
the versions of a stream are unique in the store of every moment (`StoreOK`), whose
preservation needs that the greatest version exists (`GreatestNumber`); for a correlation
that a page that is cut is not empty (`NotEmpty`); for a walk that its levels are numbered
on from the token (the last two lines of `OrderOK`). That a first result exists
(`FirstIs`) and that a walk at once reaches each event in one way (`ReachedItems`) come
from the well-foundedness of the naturals.

`NoEventTwice` has no hypothesis. A page of a walk knows nothing of the pages before the
token, so nothing but the shape of causation keeps events from coming back.
Within what is handed over, nothing is taken from the buffer twice (`OnceEach`, a part of
`OrderOK`). `LineageOK` says that whatever was read is one step away from something read a level up,
or from the start (`Lineage`), although the rows in between may be purged by now. Two
levels that hold one event would then be a cycle of causes: forward because an event has one
cause (`ForwardUnique`), backward because a level has one event (`BackwardUnique`).

`NothingSkipped` has no hypothesis either; it needs no `BudgetsLetOneThrough`, because no
id is 0 and so the token of an empty page passes over nothing. `BelongsOK` says that
what was read is in the answer on the rows that were stored at some time, a level of a
walk in that level; `CoverOK` that the tokens, the frontier and the end of a read
leave nothing behind unread of the answer on the rows that were there throughout
(`CoversTo`, `Covers`), so that it holds while others purge. Answers only grow with the
rows (`AnswerGrows`, for walks `LevelsGrow`), tokens cut exactly (`RestIsPageable`,
`CutLeaves`), a level that is added has none of the events to be skipped (`FreshLevel`,
from `LineageOK` and `OrderOK`), and after an empty level a walk has nothing left
(`LevelsEnd`). For aggregates, GLOB lets through all that a pattern without
`**` matches (`GlobMatches`). Both invariants were checked by TLC on the instance of run
`reads` before they were proved.

**Similarity.** `Similarity_proofs` proves the types, `CleanIsSaved` and
`HitsTrueUnlessInterrupted` for any callers, events and number of points, from the two
assumptions of `Similarity`. `IInv` says that the points of the graph lead to their events in
the mappings, in memory at all times and on disk whenever no save is between its two
files (`Consistent`), and what the holder of the mutex has written so far
(`Halfway`). The condition `~interrupted` is what run `similarity_crash` shows to be
needed.

**Relay.** `Relay_proofs` proves `RelayedOnce`, `IdsKept` and `InLocalOrder` for any
agents, contents, other writers and attempts, without assumptions. An id is the pair of
content and cause, and a store holds an id once (`LogOK`, `HubOK`). What an agent holds of
one stream, the event it works on and those in its channel (`Places`), is in the order of
that stream and not past the cursor (`Holds`); it is past whatever it has appended
(`Behind`), that is, it holds and will be given only later events of the same stream
(`Passed`), and so what it appends of one stream is in order (`Ordered`); the cause about to be
appended is that of the event (`CauseKept`), because the row a translation finds has
the id it was relayed from (`IdsKept`).

Every safety property of every passing run is proved. Only model-checked is liveness,
which is out of the prover's reach together with ENABLED: `DegradationReported` and
`EventuallyHandled` of `Delivery`, `ShutsDown` and `EventuallyExecuted` of `Executor`,
`ReadsEnd` of `Reads`, `ResolveEnds` of `Branches` and `OneGetsThrough` of `Opening`,
`ScheduledIsSaved` of `Similarity` and `HeldIsRelayed` of `Relay`. The fairness they
assume is listed under Fairness.

## Not modelled

* Cursors (`src/cursors.rs`): one upsert and one select on a row of the caller's own.
* Canonical encoding and ids (`src/cce.rs`): a hash of canonical bytes. The models take
  ids as given values, equal exactly when the hashed contents are.
* Transforms (`src/transforms.rs`): they map a payload before it is hashed, in
  the order in which they were registered, without a choice among them.
* Types, errors and exports; the Tauri plugin, the Node binding and the rest of the
  Python one: conversions and forwarding around the calls that are modelled.
* Of the relay: `relay_filter`, the heartbeats (`fossic-py/python/fossic/relay.py:229`) and
  `ProjectRegistered` (`:255`), which are appends of their own in the system stream of the
  local store.
* Of snapshots: `write_snapshot_state`, the clock of `EveryNSeconds` and the monitors.
* Of delivery: SQLite errors on the connections of the watcher and the system writer,
  handlers that call back into the store, queues of size 0.
* Of the lifecycle: a failed spawn of a thread, tasks that hold a clone of the store.
* Of the similarity index: two processes on one directory.
* The connection pool, beyond the error of an exhausted one.
* Loss of power with `PRAGMA synchronous = NORMAL`.
