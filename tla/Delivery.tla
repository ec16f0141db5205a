------------------------------- MODULE Delivery -------------------------------
(***************************************************************************)
(* How committed events reach the subscribers of one open store            *)
(* (src/src/store.rs, subscriptions.rs, wal_watch.rs, system_stream.rs).   *)
(*                                                                         *)
(* Threads of this process append through the connection mutex, run the    *)
(* Synchronous handlers after the commit while they still hold it, release *)
(* it, and only then put their events on the dispatch channel. Other       *)
(* processes append to the same file; a watcher thread wakes up on changes *)
(* of the write-ahead log, scans past the cursors of the subscriptions and *)
(* puts what it finds on the same channel. One dispatcher thread takes     *)
(* events off the channel, pushes them to the bounded queues of the        *)
(* PostCommit subscriptions and owns their cursors; each subscription has  *)
(* a handler thread that empties its queue.                                *)
(*                                                                         *)
(* A topic is a stream and branch. An event is its topic and version: the  *)
(* versions of a topic are 0, 1, 2, ... in commit order (EventStore shows  *)
(* this of a store nobody purges from).                                    *)
(***************************************************************************)
EXTENDS Integers, Sequences, FiniteSets

CONSTANTS
  Topic,         \* streams and branches
  SystemTopic,   \* the _fossic/system stream
  Writer,        \* threads of this process that append
  Writes,        \* per writer, the topics it appends to
  RemoteWrites,  \* the topics that other processes append to
  Sub,           \* calls of subscribe
  SyncSub,       \* those in Synchronous mode
  GlobSub,       \* those whose pattern holds a wildcard
  Pattern,       \* per subscription, the topics its query matches
  InitialSub,    \* subscriptions made before the first append
  InitialEvents, \* per topic, the events there at the start
  QueueSize,     \* capacity of a PostCommit queue
  MaxEvents,     \* bounds, one of which holds: per topic, the events in it
  MaxBatch,      \* bound: new events per append_batch
  NoticeMayBeMissed, \* whether a change of the log file may go unnoticed
  None

ASSUME TopicAssumption == SystemTopic \in Topic
ASSUME WriterAssumption ==
  /\ None \notin Writer
  /\ Writes \in [Writer -> SUBSET Topic]
  /\ RemoteWrites \subseteq Topic
ASSUME SubAssumption ==
  /\ SyncSub \subseteq Sub
  /\ GlobSub \subseteq Sub
  /\ InitialSub \subseteq Sub
  /\ Pattern \in [Sub -> SUBSET Topic]
  /\ \A s \in Sub \ GlobSub : \E t \in Topic : Pattern[s] = {t}
  /\ IsFiniteSet(Sub)
ASSUME BoundAssumption ==
  /\ InitialEvents \in [Topic -> Nat]
  /\ QueueSize \in Nat \ {0}
  /\ MaxEvents \subseteq [Topic -> Nat]
  /\ MaxBatch \in Nat \ {0}
  /\ NoticeMayBeMissed \in BOOLEAN

VARIABLES
  \* The store.
  committed,  \* per topic, the number of committed events
  lock,       \* the writer that holds the connection mutex
  \* Writers.
  wpc,        \* per writer: idle, entered, locked or sending
  hasSubs,    \* per writer, has_subscribers() as read on entry
  fresh,      \* per writer, its new events that dispatch_sync has not handled
  pending,    \* per writer, those it has, which are not yet on the channel
  panicked,   \* per writer, the reports of Synchronous handlers that panicked
  \* Channels to the dispatcher.
  dispatch,   \* events to dispatch
  degradedCh, \* reports of Synchronous subscribers
  \* The registry.
  status,     \* per subscription: absent, seeding, live or closed
  cursor,     \* per subscription and topic, the last version delivered
  known,      \* per subscription, the topics that have a cursor
  degraded,   \* per subscription, the degraded flag
  queue,      \* per subscription, its PostCommit queue
  alive,      \* per subscription, whether its handler thread runs
  \* The dispatcher.
  dpc,        \* receive, advance or emit
  event,      \* the event being dispatched
  delivered,  \* the subscriptions whose queue took it
  overflowed, \* the subscriptions it degraded, to be reported
  \* The watcher.
  notified,   \* a change of the log file waits to be handled
  changed,    \* data_version differs from the last one the watcher saw
  spc,        \* wait, snapshot or scan
  group,      \* the topics left to scan, each with the version to start after
  fetched,    \* events of the scanned topic, to be put on the channel
  \* Observations.
  audit,      \* the SubscriptionDegraded events in the system stream
  seed,       \* history: per subscription and topic, its cursor when it began
  received    \* history: per subscription and topic, the versions handled

writerVars == <<lock, wpc, hasSubs, fresh, pending, panicked>>
registryVars == <<status, cursor, known, degraded>>
dispatcherVars == <<dpc, event, delivered, overflowed>>
logVars == <<notified, changed>>
scanVars == <<spc, group, fetched>>
vars == <<committed, writerVars, dispatch, degradedCh, registryVars, queue, alive,
          dispatcherVars, logVars, scanVars, audit, seed, received>>

Event == [topic : Topic, version : Nat]
NoEvent == [topic |-> SystemTopic, version |-> 0]
Report == [sub : Sub, topic : Topic, version : Nat]
PostCommitSub == Sub \ SyncSub
Live == {s \in Sub : status[s] = "live"}

\* Mutant: degraded subscriptions stay in the dispatch loop.
MatchingDegraded(t) == {s \in Live : t \in Pattern[s]}
\* The filters of dispatch_sync and dispatch_post_commit.
Matching(t) == {s \in Live : t \in Pattern[s] /\ ~ degraded[s]}

ReportOf(s, e) == [sub |-> s, topic |-> e.topic, version |-> e.version]

\* A commit of any connection but the watcher's own.
LogChanged == notified' = TRUE /\ changed' = TRUE

-----------------------------------------------------------------------------
Init ==
  /\ committed = InitialEvents
  /\ lock = None
  /\ wpc = [w \in Writer |-> "idle"]
  /\ hasSubs = [w \in Writer |-> FALSE]
  /\ fresh = [w \in Writer |-> << >>]
  /\ pending = [w \in Writer |-> << >>]
  /\ panicked = [w \in Writer |-> {}]
  /\ dispatch = << >>
  /\ degradedCh = << >>
  /\ status = [s \in Sub |-> IF s \in InitialSub THEN "live" ELSE "absent"]
  /\ seed = [s \in Sub |-> [t \in Topic |->
               IF s \in InitialSub /\ t \in Pattern[s]
               THEN InitialEvents[t] - 1 ELSE -1]]
  /\ cursor = seed
  /\ known = [s \in Sub |-> {t \in Pattern[s] : seed[s][t] # -1}]
  /\ degraded = [s \in Sub |-> FALSE]
  /\ queue = [s \in Sub |-> << >>]
  /\ alive = [s \in Sub |-> TRUE]
  /\ dpc = "receive"
  /\ event = NoEvent
  /\ delivered = {}
  /\ overflowed = {}
  /\ notified = FALSE
  /\ changed = FALSE
  /\ spc = "wait"
  /\ group = << >>
  /\ fetched = << >>
  /\ audit = {}
  /\ received = [s \in Sub |-> [t \in Topic |-> << >>]]

-----------------------------------------------------------------------------
(* Store::append, append_if and append_batch. *)

\* has_subscribers() is read before the mutex is taken.
Enter(w) ==
  /\ wpc[w] = "idle"
  /\ wpc' = [wpc EXCEPT ![w] = "entered"]
  /\ hasSubs' = [hasSubs EXCEPT ![w] = Live # {}]
  /\ UNCHANGED <<committed, lock, fresh, pending, panicked, dispatch, degradedCh,
                 registryVars, queue, alive, dispatcherVars, logVars, scanVars,
                 audit, seed, received>>

\* An error, or an append_if whose condition is false: nothing is written.
Refuse(w) ==
  /\ wpc[w] = "entered"
  /\ lock = None
  /\ wpc' = [wpc EXCEPT ![w] = "idle"]
  /\ hasSubs' = [hasSubs EXCEPT ![w] = FALSE]
  /\ UNCHANGED <<committed, lock, fresh, pending, panicked, dispatch,
                 degradedCh, registryVars, queue, alive, dispatcherVars, logVars,
                 scanVars, audit, seed, received>>

Count(items, t) == Cardinality({i \in DOMAIN items : items[i] = t})

\* The bound on all appends.
Bounded(c) == \E max \in MaxEvents : \A t \in Topic : c[t] <= max[t]

\* Mutant: every event of a batch gets the first free version of its topic.
NewEventsAtOneVersion(items) ==
  [i \in DOMAIN items |-> [topic |-> items[i], version |-> committed[items[i]]]]
\* The events that committing the topics `items`, in that order, adds.
NewEvents(items) ==
  [i \in DOMAIN items |->
     [topic |-> items[i],
      version |-> committed[items[i]] + Count(SubSeq(items, 1, i - 1), items[i])]]

\* Takes the mutex and commits one transaction. `items` are the topics of its
\* new events; events whose id was there already leave no trace.
Commit(w, items) ==
  /\ wpc[w] = "entered"
  /\ lock = None
  /\ lock' = w
  /\ committed' = [t \in Topic |-> committed[t] + Count(items, t)]
  /\ Bounded(committed')
  /\ fresh' = [fresh EXCEPT ![w] = IF hasSubs[w] THEN NewEvents(items) ELSE << >>]
  /\ IF items = << >> THEN UNCHANGED logVars ELSE LogChanged
  /\ wpc' = [wpc EXCEPT ![w] = "locked"]
  /\ UNCHANGED <<hasSubs, pending, panicked, dispatch, degradedCh, registryVars, queue,
                 alive, dispatcherVars, scanVars, audit, seed, received>>

\* dispatch_sync of the next event, after the commit and under the mutex, unless it is
\* of a _fossic/* stream. The handlers of `panics` panic: they are marked degraded.
DispatchSync(w, panics) ==
  /\ wpc[w] = "locked"
  /\ fresh[w] # << >>
  /\ LET e == Head(fresh[w])
         targets == IF e.topic = SystemTopic THEN {} ELSE Matching(e.topic) \cap SyncSub IN
     /\ panics \subseteq targets
     /\ received' = [s \in Sub |->
          IF s \in targets \ panics
          THEN [received[s] EXCEPT ![e.topic] = Append(@, e.version)]
          ELSE received[s]]
     /\ degraded' = [s \in Sub |-> degraded[s] \/ s \in panics]
     /\ panicked' = [panicked EXCEPT ![w] = @ \cup {ReportOf(s, e) : s \in panics}]
     /\ pending' = [pending EXCEPT ![w] =
          IF e.topic = SystemTopic THEN @ ELSE Append(@, e)]
  /\ fresh' = [fresh EXCEPT ![w] = Tail(@)]
  /\ UNCHANGED <<committed, lock, wpc, hasSubs, dispatch, degradedCh, status,
                 cursor, known, queue, alive, dispatcherVars, logVars, scanVars,
                 audit, seed>>

Unlock(w) ==
  /\ wpc[w] = "locked"
  /\ fresh[w] = << >>
  /\ lock' = None
  /\ wpc' = [wpc EXCEPT ![w] = "sending"]
  /\ hasSubs' = [hasSubs EXCEPT ![w] = FALSE]
  /\ UNCHANGED <<committed, fresh, pending, panicked, dispatch, degradedCh,
                 registryVars, queue, alive, dispatcherVars, logVars, scanVars,
                 audit, seed, received>>

\* Mutant: sends its events without waiting for its reports to be sent.
SendEventFirst(w) ==
  /\ wpc[w] = "sending"
  /\ pending[w] # << >>
  /\ dispatch' = Append(dispatch, Head(pending[w]))
  /\ pending' = [pending EXCEPT ![w] = Tail(@)]
  /\ UNCHANGED <<committed, lock, wpc, hasSubs, fresh, panicked, degradedCh,
                 registryVars, queue, alive, dispatcherVars, logVars, scanVars,
                 audit, seed, received>>
\* Outside the mutex: first the reports of panics, then the events.
SendReport(w, r) ==
  /\ wpc[w] = "sending"
  /\ r \in panicked[w]
  /\ degradedCh' = Append(degradedCh, r)
  /\ panicked' = [panicked EXCEPT ![w] = @ \ {r}]
  /\ UNCHANGED <<committed, lock, wpc, hasSubs, fresh, pending, dispatch,
                 registryVars, queue, alive, dispatcherVars, logVars, scanVars,
                 audit, seed, received>>

SendEvent(w) ==
  /\ wpc[w] = "sending"
  /\ panicked[w] = {}
  /\ pending[w] # << >>
  /\ dispatch' = Append(dispatch, Head(pending[w]))
  /\ pending' = [pending EXCEPT ![w] = Tail(@)]
  /\ UNCHANGED <<committed, lock, wpc, hasSubs, fresh, panicked, degradedCh,
                 registryVars, queue, alive, dispatcherVars, logVars, scanVars,
                 audit, seed, received>>

Return(w) ==
  /\ wpc[w] = "sending"
  /\ panicked[w] = {}
  /\ pending[w] = << >>
  /\ wpc' = [wpc EXCEPT ![w] = "idle"]
  /\ UNCHANGED <<committed, lock, hasSubs, fresh, pending, panicked, dispatch,
                 degradedCh, registryVars, queue, alive, dispatcherVars, logVars,
                 scanVars, audit, seed, received>>

\* A commit of another process to the same file.
RemoteCommit(t) ==
  /\ committed' = [committed EXCEPT ![t] = @ + 1]
  /\ Bounded(committed')
  /\ LogChanged
  /\ UNCHANGED <<writerVars, dispatch, degradedCh, registryVars, queue, alive,
                 dispatcherVars, scanVars, audit, seed, received>>

\* The file system notifies the watcher when the log file is written, which may
\* be just before the commit shows in data_version, or not at all (its event
\* queue overflowed, or the file is on a network).
MissNotice ==
  /\ NoticeMayBeMissed
  /\ notified
  /\ notified' = FALSE
  /\ UNCHANGED <<committed, writerVars, dispatch, degradedCh, registryVars, queue, alive,
                 dispatcherVars, changed, scanVars, audit, seed, received>>

-----------------------------------------------------------------------------
(* Store::subscribe and the drop of the handle. *)

\* The cursors start at the versions that a read connection sees ...
Seed(s) ==
  /\ status[s] = "absent"
  /\ status' = [status EXCEPT ![s] = "seeding"]
  /\ seed' = [seed EXCEPT ![s] =
       [t \in Topic |-> IF t \in Pattern[s] THEN committed[t] - 1 ELSE -1]]
  /\ UNCHANGED <<committed, writerVars, dispatch, degradedCh, cursor, known, degraded,
                 queue, alive, dispatcherVars, logVars, scanVars, audit, received>>

\* ... and the entry joins the registry later. A glob subscription has cursors
\* for the topics that had events, an exact one always has its own.
Register(s) ==
  /\ status[s] = "seeding"
  /\ status' = [status EXCEPT ![s] = "live"]
  /\ cursor' = [cursor EXCEPT ![s] = seed[s]]
  /\ known' = [known EXCEPT ![s] = {t \in Pattern[s] : seed[s][t] # -1}]
  /\ UNCHANGED <<committed, writerVars, dispatch, degradedCh, degraded, queue, alive,
                 dispatcherVars, logVars, scanVars, audit, seed, received>>

\* The entry and its cursors go; the handler thread empties its queue.
Unsubscribe(s) ==
  /\ status[s] = "live"
  /\ status' = [status EXCEPT ![s] = "closed"]
  /\ cursor' = [cursor EXCEPT ![s] = [t \in Topic |-> -1]]
  /\ known' = [known EXCEPT ![s] = {}]
  /\ UNCHANGED <<committed, writerVars, dispatch, degradedCh, degraded, queue, alive,
                 dispatcherVars, logVars, scanVars, audit, seed, received>>

-----------------------------------------------------------------------------
(* The dispatcher thread. *)

\* Events of _fossic/* streams are dropped on sight.
SkipSystem ==
  /\ dpc = "receive"
  /\ dispatch # << >>
  /\ Head(dispatch).topic = SystemTopic
  /\ dispatch' = Tail(dispatch)
  /\ UNCHANGED <<committed, writerVars, degradedCh, registryVars, queue, alive,
                 dispatcherVars, logVars, scanVars, audit, seed, received>>

\* Mutant: the cursor is not consulted.
WantingAll(e) == Matching(e.topic) \cap PostCommitSub
\* The PostCommit subscriptions that want e: those past it skip it.
Wanting(e) ==
  {s \in Matching(e.topic) \cap PostCommitSub : e.version > cursor[s][e.topic]}

\* dispatch_post_commit, under the read lock of the registry: try_send to every
\* queue. A full queue degrades the subscription; a handler thread that has
\* gone is skipped silently.
Dispatch ==
  /\ dpc = "receive"
  /\ dispatch # << >>
  /\ LET e == Head(dispatch)
         reachable == {s \in Wanting(e) : alive[s]}
         full == {s \in reachable : Len(queue[s]) = QueueSize} IN
     /\ e.topic # SystemTopic
     /\ event' = e
     /\ delivered' = reachable \ full
     /\ overflowed' = full
     /\ queue' = [s \in Sub |-> IF s \in reachable \ full
                                THEN Append(queue[s], e) ELSE queue[s]]
     /\ degraded' = [s \in Sub |-> degraded[s] \/ s \in full]
  /\ dispatch' = Tail(dispatch)
  /\ dpc' = "advance"
  /\ UNCHANGED <<committed, writerVars, degradedCh, status, cursor, known, alive,
                 logVars, scanVars, audit, seed, received>>

\* Mutant: subscriptions that were degraded just now advance as well.
AdvancingAll == (delivered \cup overflowed) \cap Live
\* The entries whose cursors advance: those that took the event and are still
\* registered.
Advancing == delivered \cap Live

\* The second pass, under the write lock: cursors only rise.
Advance ==
  /\ dpc = "advance"
  /\ cursor' = [s \in Sub |->
       IF s \in Advancing /\ event.version > cursor[s][event.topic]
       THEN [cursor[s] EXCEPT ![event.topic] = event.version]
       ELSE cursor[s]]
  /\ known' = [s \in Sub |-> IF s \in Advancing THEN known[s] \cup {event.topic}
                             ELSE known[s]]
  /\ delivered' = {}
  /\ dpc' = "emit"
  /\ UNCHANGED <<committed, writerVars, dispatch, degradedCh, status, degraded, queue,
                 alive, event, overflowed, logVars, scanVars, audit, seed, received>>

\* SystemStreamWriter::emit_subscription_degraded: the id of the event is that
\* of its payload, so a report that repeats is ignored.
Emitted(r) ==
  IF r \in audit
  THEN UNCHANGED <<committed, audit, logVars>>
  ELSE /\ audit' = audit \cup {r}
       /\ committed' = [committed EXCEPT ![SystemTopic] = @ + 1]
       /\ LogChanged

EmitOverflow(s) ==
  /\ dpc = "emit"
  /\ s \in overflowed
  /\ overflowed' = overflowed \ {s}
  /\ Emitted(ReportOf(s, event))
  /\ UNCHANGED <<writerVars, dispatch, degradedCh, registryVars, queue, alive, dpc,
                 event, delivered, scanVars, seed, received>>

EmitPanic ==
  /\ dpc = "emit"
  /\ overflowed = {}
  /\ degradedCh # << >>
  /\ degradedCh' = Tail(degradedCh)
  /\ Emitted(Head(degradedCh))
  /\ UNCHANGED <<writerVars, dispatch, registryVars, queue, alive, dispatcherVars,
                 scanVars, seed, received>>

Receive ==
  /\ dpc = "emit"
  /\ overflowed = {}
  /\ degradedCh = << >>
  /\ dpc' = "receive"
  /\ event' = NoEvent
  /\ UNCHANGED <<committed, writerVars, dispatch, degradedCh, registryVars, queue,
                 alive, delivered, overflowed, logVars, scanVars, audit, seed,
                 received>>

-----------------------------------------------------------------------------
(* The handler threads. *)

Handle(s) ==
  /\ alive[s]
  /\ queue[s] # << >>
  /\ LET e == Head(queue[s]) IN
     received' = [received EXCEPT ![s][e.topic] = Append(@, e.version)]
  /\ queue' = [queue EXCEPT ![s] = Tail(@)]
  /\ UNCHANGED <<committed, writerVars, dispatch, degradedCh, registryVars, alive,
                 dispatcherVars, logVars, scanVars, audit, seed>>

\* A panic ends the handler thread and drops its queue; nobody is told.
HandlerDies(s) ==
  /\ alive[s]
  /\ queue[s] # << >>
  /\ alive' = [alive EXCEPT ![s] = FALSE]
  /\ queue' = [queue EXCEPT ![s] = << >>]
  /\ UNCHANGED <<committed, writerVars, dispatch, degradedCh, registryVars,
                 dispatcherVars, logVars, scanVars, audit, seed, received>>

-----------------------------------------------------------------------------
(* The watcher thread: run_scan_loop. *)

\* A notification whose data_version is the last one seen is a checkpoint.
Wake ==
  /\ spc = "wait"
  /\ notified
  /\ notified' = FALSE
  /\ changed' = FALSE
  /\ spc' = IF changed THEN "snapshot" ELSE "wait"
  /\ UNCHANGED <<committed, writerVars, dispatch, degradedCh, registryVars, queue,
                 alive, dispatcherVars, group, fetched, audit, seed, received>>

\* post_commit_cursors: the cursor of an exact subscription, the least cursor
\* of a glob one (-1 when it has none).
Least(S) == CHOOSE x \in S : \A y \in S : x <= y
\* Mutant: the greatest cursor of a glob subscription.
ScanStartGreatest(s) ==
  IF s \notin GlobSub THEN Least({cursor[s][t] : t \in Pattern[s]})
  ELSE IF known[s] = {} THEN -1
  ELSE CHOOSE x \in {cursor[s][t] : t \in known[s]} :
         \A t \in known[s] : x >= cursor[s][t]
ScanStart(s) ==
  IF s \notin GlobSub THEN Least({cursor[s][t] : t \in Pattern[s]})
  ELSE IF known[s] = {} THEN -1 ELSE Least({cursor[s][t] : t \in known[s]})

\* The topics to scan and, for each, the least start of those who want it.
Snapshot ==
  /\ spc = "snapshot"
  /\ LET watching == {s \in Live \cap PostCommitSub : ~ degraded[s]}
         topics == UNION {Pattern[s] : s \in watching} IN
     group' = [t \in topics |->
                 Least({ScanStart(s) : s \in {x \in watching : t \in Pattern[x]}})]
  /\ spc' = "scan"
  /\ UNCHANGED <<committed, writerVars, dispatch, degradedCh, registryVars, queue,
                 alive, dispatcherVars, logVars, fetched, audit, seed, received>>

EventsAfter(t, v) ==
  [i \in 1 .. (committed[t] - 1 - v) |-> [topic |-> t, version |-> v + i]]

\* fetch_events_after, for the groups in any order (it is a hash map).
Fetch(t) ==
  /\ spc = "scan"
  /\ fetched = << >>
  /\ t \in DOMAIN group
  /\ fetched' = EventsAfter(t, group[t])
  /\ group' = [u \in DOMAIN group \ {t} |-> group[u]]
  /\ UNCHANGED <<committed, writerVars, dispatch, degradedCh, registryVars, queue,
                 alive, dispatcherVars, logVars, spc, audit, seed, received>>

SendFetched ==
  /\ spc = "scan"
  /\ fetched # << >>
  /\ dispatch' = Append(dispatch, Head(fetched))
  /\ fetched' = Tail(fetched)
  /\ UNCHANGED <<committed, writerVars, degradedCh, registryVars, queue, alive,
                 dispatcherVars, logVars, spc, group, audit, seed, received>>

ScanDone ==
  /\ spc = "scan"
  /\ fetched = << >>
  /\ DOMAIN group = {}
  /\ spc' = "wait"
  /\ UNCHANGED <<committed, writerVars, dispatch, degradedCh, registryVars, queue,
                 alive, dispatcherVars, logVars, group, fetched, audit, seed, received>>

-----------------------------------------------------------------------------
Write(w) ==
  \/ Enter(w)
  \/ Refuse(w)
  \/ \E n \in 0 .. MaxBatch : \E items \in [1 .. n -> Writes[w]] : Commit(w, items)
  \/ \E panics \in SUBSET SyncSub : DispatchSync(w, panics)
  \/ Unlock(w)
  \/ \E r \in panicked[w] : SendReport(w, r)
  \/ SendEvent(w)
  \/ Return(w)

Subscription(s) == Seed(s) \/ Register(s) \/ Unsubscribe(s)

Dispatcher ==
  \/ SkipSystem
  \/ Dispatch
  \/ Advance
  \/ \E s \in overflowed : EmitOverflow(s)
  \/ EmitPanic
  \/ Receive

Watcher ==
  \/ Wake
  \/ Snapshot
  \/ \E t \in DOMAIN group : Fetch(t)
  \/ SendFetched
  \/ ScanDone

Next ==
  \/ \E w \in Writer : Write(w)
  \/ \E t \in RemoteWrites : RemoteCommit(t)
  \/ MissNotice
  \/ \E s \in Sub : Subscription(s) \/ Handle(s) \/ HandlerDies(s)
  \/ Dispatcher
  \/ Watcher

Spec == Init /\ [][Next]_vars

\* Threads that have something to do go on: a writer past its commit, the
\* dispatcher, the watcher, and handlers, which return or panic. Nobody is
\* obliged to append, to subscribe or to unsubscribe.
Finish(w) ==
  \/ \E panics \in SUBSET SyncSub : DispatchSync(w, panics)
  \/ Unlock(w)
  \/ \E r \in panicked[w] : SendReport(w, r)
  \/ SendEvent(w)
  \/ Return(w)

Fairness ==
  /\ \A w \in Writer : WF_vars(Finish(w))
  /\ WF_vars(Dispatcher)
  /\ WF_vars(Watcher)
  /\ \A s \in Sub : WF_vars(Handle(s) \/ HandlerDies(s))

FairSpec == Spec /\ Fairness

-----------------------------------------------------------------------------
(* Properties. *)

TypeOK ==
  /\ committed \in [Topic -> Nat]
  /\ lock \in Writer \cup {None}
  /\ wpc \in [Writer -> {"idle", "entered", "locked", "sending"}]
  /\ hasSubs \in [Writer -> BOOLEAN]
  /\ fresh \in [Writer -> Seq(Event)]
  /\ pending \in [Writer -> Seq(Event)]
  /\ panicked \in [Writer -> SUBSET Report]
  /\ dispatch \in Seq(Event)
  /\ degradedCh \in Seq(Report)
  /\ status \in [Sub -> {"absent", "seeding", "live", "closed"}]
  /\ cursor \in [Sub -> [Topic -> Nat \cup {-1}]]
  /\ known \in [Sub -> SUBSET Topic]
  /\ degraded \in [Sub -> BOOLEAN]
  /\ queue \in [Sub -> Seq(Event)]
  /\ alive \in [Sub -> BOOLEAN]
  /\ dpc \in {"receive", "advance", "emit"}
  /\ event \in Event
  /\ delivered \subseteq Sub
  /\ overflowed \subseteq Sub
  /\ notified \in BOOLEAN
  /\ changed \in BOOLEAN
  /\ spc \in {"wait", "snapshot", "scan"}
  /\ DOMAIN group \subseteq Topic
  /\ \A t \in DOMAIN group : group[t] \in Nat \cup {-1}
  /\ fetched \in Seq(Event)
  /\ audit \subseteq Report
  /\ seed \in [Sub -> [Topic -> Nat \cup {-1}]]
  /\ received \in [Sub -> [Topic -> Seq(Nat)]]

\* What was handed to a subscription of a topic: the versions that its handler saw, and
\* those in its queue.
Queued(s, t) == {i \in 1 .. Len(queue[s]) : queue[s][i].topic = t}
Pushed(s, t) ==
  {received[s][t][i] : i \in 1 .. Len(received[s][t])}
    \cup {queue[s][i].version : i \in Queued(s, t)}

\* Whatever the threads and processes that append, and although the channel carries
\* events twice and out of order, no subscription is handed an event twice, an older
\* event after a newer one, or one that is not committed; a PostCommit one is handed none
\* from before it subscribed.
InOrder ==
  \A s \in Sub : \A t \in Pattern[s] :
    /\ \A v \in Pushed(s, t) : v < committed[t] /\ (s \in PostCommitSub => v > seed[s][t])
    /\ \A i, j \in 1 .. Len(received[s][t]) : i < j => received[s][t][i] < received[s][t][j]
    /\ \A i \in 1 .. Len(received[s][t]), j \in Queued(s, t) :
         received[s][t][i] < queue[s][j].version
    /\ \A i, j \in Queued(s, t) : i < j => queue[s][i].version < queue[s][j].version

\* Where the feed of a subscription stands: its cursor, or the event that the
\* dispatcher has just pushed and will advance the cursor to.
Position(s, t) ==
  IF s \in delivered /\ event.topic = t THEN event.version ELSE cursor[s][t]

\* The cursor of a live subscription is the last version it was handed, but
\* between the two passes of dispatch_post_commit: no cursor ever runs ahead
\* of delivery (which would skip events) or behind it (which would repeat
\* them).
CursorIsLastPushed ==
  \A s \in Live \cap PostCommitSub : \A t \in Pattern[s] :
    alive[s] => /\ Position(s, t) \in Pushed(s, t) \cup {seed[s][t]}
                /\ \A v \in Pushed(s, t) \cup {seed[s][t]} : v <= Position(s, t)

\* Whenever the mutex is free, a subscription has seen every event that threads of this
\* process committed since its cursors were read, in order. (The events of the system
\* stream come from the dispatcher's own connection.)
SeenAll(s) ==
  \A t \in Pattern[s] \ (RemoteWrites \cup {SystemTopic}) :
    lock = None /\ status[s] = "live" /\ ~ degraded[s]
      => received[s][t] = [i \in 1 .. (committed[t] - 1 - seed[s][t]) |->
                             seed[s][t] + i]

\* A Synchronous subscription made before the first append can keep a projection that
\* agrees with the store.
SyncConsistent == \A s \in InitialSub \cap SyncSub : SeenAll(s)

\* What the README says of every Synchronous subscription: it fires before append returns.
\* One that comes later can miss an event: a writer may have read has_subscribers before,
\* and commit after; or the event is committed between the reading of the cursors and the
\* registration.
LateSyncConsistent == \A s \in SyncSub : SeenAll(s)

\* A SubscriptionDegraded event tells the truth: the subscription is degraded
\* and never gets the version that the event says was dropped.
AuditTruthful ==
  \A r \in audit : degraded[r.sub] /\ r.version \notin Pushed(r.sub, r.topic)

\* What a subscription is for: it gets every event since it began, without a
\* hole, up to where it is now.
NoGap ==
  \A s \in PostCommitSub : \A t \in Pattern[s] :
    \A v \in Pushed(s, t) : (seed[s][t] + 1) .. v \subseteq Pushed(s, t)

\* The feeds that have not ended.
OpenFeeds == {s \in Live : ~ degraded[s]}

PostCommitFeed ==
  INSTANCE Feed WITH
    published <- committed,
    position <- [s \in Sub |-> [t \in Topic |-> Position(s, t)]],
    open <- OpenFeeds

\* Subscriptions made before the first append implement the feeds they promise
\* while each topic has one appending thread or process.
RefinesFeed == PostCommitFeed!Spec

\* Every event committed while a PostCommit subscription is live reaches its
\* handler, unless the subscription ends: closed, degraded, or its handler
\* thread gone.
EventuallyHandled ==
  \A s \in InitialSub \cap PostCommitSub : \A t \in Pattern[s] \ {SystemTopic} :
    \A n \in UNION {InitialEvents[t] .. max[t] - 1 : max \in MaxEvents} :
      (committed[t] > n /\ n > seed[s][t])
        ~> \/ status[s] = "closed" \/ degraded[s] \/ ~ alive[s]
           \/ \E i \in DOMAIN received[s][t] : received[s][t][i] = n

\* Every degraded subscription, whether its queue was full or its Synchronous
\* handler panicked, is reported in the system stream.
DegradationReported ==
  \A s \in Sub : degraded[s] ~> \E r \in audit : r.sub = s
=============================================================================
