------------------------------- MODULE Executor -------------------------------
(***************************************************************************)
(* The background executor and the end of a store (src/src/executor.rs;    *)
(* Store::open, the Drop of Store and schedule_task in src/src/store.rs).  *)
(*                                                                         *)
(* Clones of a Store share one StoreInner, which owns the executor. The    *)
(* thread fossic-bg has a weak reference to it that it upgrades for each   *)
(* task. Whoever gives up the last strong reference drops StoreInner, and  *)
(* with it the executor: sets the stop flag and waits for the thread, but  *)
(* not longer than the grace timeout. That may be fossic-bg itself.        *)
(*                                                                         *)
(* A task is scheduled once and is known by its name. Deadlines are read   *)
(* off the wall clock, which may go back, so "now" is any of Times.        *)
(***************************************************************************)
EXTENDS Integers, FiniteSets

CONSTANTS
  Tasks,
  Profile,   \* per task, what it is scheduled with: priority, persist, recurring
  GcTask,    \* the task Store::open schedules
  Handles,   \* clones of the store
  First,     \* the one Store::open returns
  AutoGc,    \* the option auto_gc_orphans
  Times,     \* what the clock may show
  Interval,  \* the interval of recurring tasks
  MaxRuns    \* bound: executions of a task are counted up to here

ASSUME ProfileAssumption ==
  Profile \in [Tasks -> [priority : 0 .. 2, persist : BOOLEAN, recurring : BOOLEAN]]
ASSUME GcTaskAssumption == GcTask \in Tasks /\ Profile[GcTask].recurring
ASSUME HandlesAssumption ==
  IsFiniteSet(Handles) /\ First \in Handles /\ "fossic-bg" \notin Handles
ASSUME AutoGcAssumption == AutoGc \in BOOLEAN
ASSUME TimesAssumption == Times \subseteq Nat /\ Interval \in Nat
ASSUME MaxRunsAssumption == MaxRuns \in Nat \ {0, 1}

VARIABLES
  handle,     \* per clone, how far it is from being made to being gone
  stopped,    \* stop_flag
  channel,    \* entries sent and not received
  heap,       \* entries of the thread's BinaryHeap
  bg,         \* where the thread is, and the entry it has popped
  quiet,      \* whether the quiescence window has passed since the last write
              \* or dispatch
  scheduled,  \* history: the tasks scheduled
  ran,        \* history: how often each task was executed
  reported,   \* history: how often DeferredTaskDropped was emitted for it
  recent,     \* history: the tasks executed since the store was last busy
  skipped     \* history: the tasks popped when the store was gone

history == <<scheduled, ran, reported, recent, skipped>>
vars == <<handle, stopped, channel, heap, bg, quiet, history>>

-----------------------------------------------------------------------------
(* References to StoreInner. *)

Live == {h \in Handles : handle[h] = "live"}

\* Who has a strong reference: clones that have not given it up, and the thread
\* while it executes a task.
Owners ==
  {h \in Handles : handle[h] \in {"live", "collecting", "releasing"}}
    \cup (IF bg.at \in {"running", "executed"} THEN {"fossic-bg"} ELSE {})

\* Mutant: an off-by-one in the comparison of the reference count.
OnlyOwnerOfTwo == Cardinality(Owners) <= 2
\* Arc::strong_count(&self.inner) == 1
OnlyOwner == Cardinality(Owners) = 1

-----------------------------------------------------------------------------
(* The queue. *)

Entry(t, deadline) == [task |-> t, deadline |-> deadline]

\* Mutant: the heap's order without the reversal that makes the greatest first.
BeforeReversed(e, f) == Profile[e.task].priority < Profile[f.task].priority
\* Ord of BacklogTask: higher priority first, then the earlier deadline.
Before(e, f) ==
  LET p == Profile[e.task].priority
      q == Profile[f.task].priority
  IN  p > q \/ (p = q /\ e.deadline < f.deadline)

\* The entries BinaryHeap::pop may return; the order of equal ones is not defined.
Foremost == {e \in heap : \A f \in heap : ~ Before(f, e)}

NextDeadline(now) == now + Interval

\* Mutant: every task is queued again.
RequeuedAlways(e, now) == {Entry(e.task, NextDeadline(now))}
Requeued(e, now) ==
  IF Profile[e.task].recurring THEN {Entry(e.task, NextDeadline(now))} ELSE {}

Counted(n) == IF n < MaxRuns THEN n + 1 ELSE n

-----------------------------------------------------------------------------
(* Clones of the store. *)

\* Store::open; now is as if a write had just happened.
Init ==
  /\ handle = [h \in Handles |-> IF h = First THEN "live" ELSE "none"]
  /\ stopped = FALSE
  /\ channel \in IF AutoGc THEN {{Entry(GcTask, now)} : now \in Times} ELSE {{}}
  /\ heap = {}
  /\ bg = [at |-> "sleeping"]
  /\ quiet = FALSE
  /\ scheduled = IF AutoGc THEN {GcTask} ELSE {}
  /\ ran = [t \in Tasks |-> 0]
  /\ reported = [t \in Tasks |-> 0]
  /\ recent = {}
  /\ skipped = {}

Clone(h) ==
  /\ handle[h] = "none"
  /\ Live # {}
  /\ handle' = [handle EXCEPT ![h] = "live"]
  /\ UNCHANGED <<stopped, channel, heap, bg, quiet, history>>

\* schedule_task, schedule_background_snapshot
Schedule(t) ==
  /\ Live # {}
  /\ t \notin scheduled \cup {GcTask}
  /\ \E deadline \in Times : channel' = channel \cup {Entry(t, deadline)}
  /\ scheduled' = scheduled \cup {t}
  /\ UNCHANGED <<handle, stopped, heap, bg, quiet, ran, reported, recent, skipped>>

\* note_write, note_dispatch
Disturb ==
  /\ quiet
  /\ quiet' = FALSE
  /\ recent' = {}
  /\ UNCHANGED <<handle, stopped, channel, heap, bg, scheduled, ran, reported, skipped>>

\* The quiescence window has passed without either.
Settle ==
  /\ ~ quiet
  /\ quiet' = TRUE
  /\ UNCHANGED <<handle, stopped, channel, heap, bg, history>>

\* Drop of Store: the count is compared, then the orphans are collected, then
\* the reference is given up.
BeginDrop(h) ==
  /\ handle[h] = "live"
  /\ handle' = [handle EXCEPT ![h] =
                  IF AutoGc /\ OnlyOwner THEN "collecting" ELSE "releasing"]
  /\ UNCHANGED <<stopped, channel, heap, bg, quiet, history>>

Collect(h) ==
  /\ handle[h] = "collecting"
  /\ handle' = [handle EXCEPT ![h] = "releasing"]
  /\ UNCHANGED <<stopped, channel, heap, bg, quiet, history>>

\* Who gives up the last reference goes on to drop the fields of StoreInner.
Release(h) ==
  /\ handle[h] = "releasing"
  /\ handle' = [handle EXCEPT ![h] = IF Owners = {h} THEN "closing" ELSE "gone"]
  /\ UNCHANGED <<stopped, channel, heap, bg, quiet, history>>

\* The executor is one of the last fields; before it the watcher was dropped.
Stop(h) ==
  /\ handle[h] = "closing"
  /\ handle' = [handle EXCEPT ![h] = "joining"]
  /\ stopped' = TRUE
  /\ UNCHANGED <<channel, heap, bg, quiet, history>>

\* The thread has ended, or the grace timeout has and it is detached.
Join(h) ==
  /\ handle[h] = "joining"
  /\ handle' = [handle EXCEPT ![h] = "gone"]
  /\ UNCHANGED <<stopped, channel, heap, bg, quiet, history>>

-----------------------------------------------------------------------------
(* The thread fossic-bg, bg_thread_loop. *)

Wake ==
  /\ bg.at = "sleeping"
  /\ bg' = [at |-> IF stopped THEN "stopping" ELSE "awake"]
  /\ UNCHANGED <<handle, stopped, channel, heap, quiet, history>>

Drain ==
  /\ bg.at = "awake"
  /\ heap' = heap \cup channel
  /\ channel' = {}
  /\ bg' = [at |-> "drained"]
  /\ UNCHANGED <<handle, stopped, quiet, history>>

Pass ==
  /\ bg.at = "drained"
  /\ heap = {} \/ ~ quiet
  /\ bg' = [at |-> "sleeping"]
  /\ UNCHANGED <<handle, stopped, channel, heap, quiet, history>>

Pop ==
  /\ bg.at = "drained"
  /\ quiet
  /\ \E e \in Foremost :
       /\ heap' = heap \ {e}
       /\ bg' = [at |-> "popped", entry |-> e]
  /\ UNCHANGED <<handle, stopped, channel, quiet, history>>

\* store_ops.upgrade()
Upgrade ==
  /\ bg.at = "popped"
  /\ Owners # {}
  /\ bg' = [bg EXCEPT !.at = "running"]
  /\ UNCHANGED <<handle, stopped, channel, heap, quiet, history>>

\* It fails once the last reference was given up; the task is skipped.
Skip ==
  /\ bg.at = "popped"
  /\ Owners = {}
  /\ bg' = [bg EXCEPT !.at = "requeuing"]
  /\ skipped' = skipped \cup {bg.entry.task}
  /\ UNCHANGED <<handle, stopped, channel, heap, quiet, scheduled, ran, reported, recent>>

\* execute_task, whatever its outcome
Execute ==
  /\ bg.at = "running"
  /\ bg' = [bg EXCEPT !.at = "executed"]
  /\ ran' = [ran EXCEPT ![bg.entry.task] = Counted(@)]
  /\ recent' = recent \cup {bg.entry.task}
  /\ UNCHANGED <<handle, stopped, channel, heap, quiet, scheduled, reported, skipped>>

\* The upgraded reference is dropped; it may be the last.
LetGo ==
  /\ bg.at = "executed"
  /\ bg' = [bg EXCEPT !.at = IF Owners = {"fossic-bg"} THEN "closing" ELSE "requeuing"]
  /\ UNCHANGED <<handle, stopped, channel, heap, quiet, history>>

StopItself ==
  /\ bg.at = "closing"
  /\ bg' = [bg EXCEPT !.at = "joining"]
  /\ stopped' = TRUE
  /\ UNCHANGED <<handle, channel, heap, quiet, history>>

\* Mutant: the wait for the end of the thread has no timeout, and this thread
\* cannot end while it waits.
ExpireNever ==
  /\ bg.at = "joining"
  /\ bg.at = "done"
  /\ UNCHANGED vars
\* The thread has waited for its own end, until the grace timeout.
Expire ==
  /\ bg.at = "joining"
  /\ bg' = [bg EXCEPT !.at = "requeuing"]
  /\ UNCHANGED <<handle, stopped, channel, heap, quiet, history>>

Requeue ==
  /\ bg.at = "requeuing"
  /\ \E now \in Times : heap' = heap \cup Requeued(bg.entry, now)
  /\ bg' = [at |-> "sleeping"]
  /\ UNCHANGED <<handle, stopped, channel, quiet, history>>

\* Mutant: what is still in the channel at the end is not looked at.
DrainForReportHeapOnly ==
  /\ bg.at = "stopping"
  /\ bg' = [at |-> "reporting"]
  /\ UNCHANGED <<handle, stopped, channel, heap, quiet, history>>
\* Once it has seen the stop flag.
DrainForReport ==
  /\ bg.at = "stopping"
  /\ heap' = heap \cup channel
  /\ channel' = {}
  /\ bg' = [at |-> "reporting"]
  /\ UNCHANGED <<handle, stopped, quiet, history>>

Report ==
  /\ bg.at = "reporting"
  /\ \E e \in Foremost :
       /\ heap' = heap \ {e}
       /\ reported' = IF Profile[e.task].persist
                        THEN [reported EXCEPT ![e.task] = @ + 1]
                        ELSE reported
  /\ UNCHANGED <<handle, stopped, channel, bg, quiet, scheduled, ran, recent, skipped>>

End ==
  /\ bg.at = "reporting"
  /\ heap = {}
  /\ bg' = [at |-> "done"]
  /\ UNCHANGED <<handle, stopped, channel, heap, quiet, history>>

Background ==
  \/ Wake \/ Drain \/ Pass \/ Pop \/ Upgrade \/ Skip \/ Execute \/ LetGo
  \/ StopItself \/ Expire \/ Requeue \/ DrainForReport \/ Report \/ End

FinishDrop(h) == Collect(h) \/ Release(h) \/ Stop(h) \/ Join(h)

Next ==
  \/ \E h \in Handles : Clone(h) \/ BeginDrop(h) \/ FinishDrop(h)
  \/ \E t \in Tasks : Schedule(t)
  \/ Disturb
  \/ Settle
  \/ Background

Spec == Init /\ [][Next]_vars

\* The thread's sleep and the grace timeout end, and a drop that has begun goes
\* on. Nobody need drop a clone, and the store need not be quiet.
FairSpec ==
  /\ Spec
  /\ WF_vars(Background)
  /\ \A h \in Handles : WF_vars(FinishDrop(h))

-----------------------------------------------------------------------------
(* Properties. *)

Entries == [task : Tasks, deadline : Nat]

\* The references, the queue and the histories have their types.
TypeOK ==
  /\ handle \in [Handles -> {"none", "live", "collecting", "releasing", "closing",
                             "joining", "gone"}]
  /\ stopped \in BOOLEAN
  /\ channel \in SUBSET Entries
  /\ heap \in SUBSET Entries
  /\ \/ bg \in [at : {"sleeping", "awake", "drained", "stopping", "reporting", "done"}]
     \/ bg \in [at : {"popped", "running", "executed", "closing", "joining",
                      "requeuing"}, entry : Entries]
  /\ quiet \in BOOLEAN
  /\ scheduled \in SUBSET Tasks
  /\ ran \in [Tasks -> 0 .. MaxRuns]
  /\ reported \in [Tasks -> Nat]
  /\ recent \in SUBSET Tasks
  /\ skipped \in SUBSET Tasks

\* A one-shot task is executed at most once or reported as dropped at most once,
\* and never both, wherever the end of the store meets the thread.
OneOutcome ==
  \A t \in Tasks : ~ Profile[t].recurring => ran[t] + reported[t] <= 1

\* When the thread has ended, every task to be reported was executed or was
\* reported, unless it was popped when the store was already gone: none is left
\* in the channel or the heap, however late it was scheduled.
Accounted ==
  bg.at = "done" =>
    \A t \in scheduled :
      Profile[t].persist => ran[t] > 0 \/ reported[t] > 0 \/ t \in skipped

\* The collection of a dropped store runs when no other clone is there and
\* nobody can make one, so that no reducer is registered meanwhile.
CollectsAlone ==
  \A h \in Handles :
    handle[h] = "collecting" => \A g \in Handles \ {h} : handle[g] \in {"none", "gone"}

\* Once the last reference is given up the thread ends and nobody waits any
\* more, also if it was the thread that gave it up.
ShutsDown ==
  Owners = {} ~> /\ bg.at = "done"
                 /\ \A h \in Handles : handle[h] \in {"none", "gone"}

Queued(t) == \E e \in channel \cup heap : e.task = t

\* If the store becomes quiet for good, a one-shot task with a higher priority
\* than all recurring ones is executed, or the store is closed: the recurring
\* ones, which are always queued again, do not hold it up.
EventuallyExecuted ==
  <>[]quiet =>
    \A t \in Tasks :
      (\A r \in Tasks : Profile[r].recurring => Profile[r].priority < Profile[t].priority)
        => (Queued(t) ~> ran[t] > 0 \/ stopped)

\* "Recurring tasks run at most once per quiescence window"
OncePerWindow ==
  [][bg.at = "running" /\ bg'.at = "executed"
       => bg.entry.task \notin recent]_vars
=============================================================================
