--------------------------- MODULE Executor_proofs ----------------------------
(***************************************************************************)
(* Proofs about the executor, for any number of tasks, priorities, clones  *)
(* and clock readings: types, the fate of one-shot tasks (OneOutcome) and  *)
(* the collection of a dropped store (CollectsAlone).                      *)
(***************************************************************************)
EXTENDS Executor, TLAPS, FiniteSetTheorems

-----------------------------------------------------------------------------
(* Types. *)

\* The references, the queue and the histories have their types, whatever the
\* clones and the thread do.
THEOREM TypeCorrect == Spec => []TypeOK
<1>1. Init => TypeOK
  <2> SUFFICES ASSUME Init PROVE TypeOK
    OBVIOUS
  <2>1. channel \in SUBSET Entries
    <3>1. \A now \in Times : Entry(GcTask, now) \in Entries
      BY GcTaskAssumption, TimesAssumption DEF Entry, Entries
    <3> QED
      BY <3>1 DEF Init
  <2>2. /\ scheduled \in SUBSET Tasks
        /\ ran \in [Tasks -> 0 .. MaxRuns]
        /\ reported \in [Tasks -> Nat]
    BY GcTaskAssumption, MaxRunsAssumption DEF Init
  <2> QED
    BY <2>1, <2>2 DEF Init, TypeOK
<1>2. TypeOK /\ [Next]_vars => TypeOK'
  <2> SUFFICES ASSUME TypeOK, [Next]_vars PROVE TypeOK'
    OBVIOUS
  <2> USE DEF TypeOK, history
  <2>1. ASSUME NEW h \in Handles, Clone(h) \/ BeginDrop(h) PROVE TypeOK'
    BY <2>1 DEF Clone, BeginDrop
  <2>2. ASSUME NEW h \in Handles, FinishDrop(h) PROVE TypeOK'
    BY <2>2 DEF FinishDrop, Collect, Release, Stop, Join
  <2>3. ASSUME NEW t \in Tasks, Schedule(t) PROVE TypeOK'
    BY <2>3, TimesAssumption DEF Schedule, Entry, Entries
  <2>4. CASE Disturb \/ Settle
    BY <2>4 DEF Disturb, Settle
  <2>5. CASE Background
    <3>1. CASE Wake \/ Drain \/ Pass
      BY <3>1 DEF Wake, Drain, Pass
    <3>2. CASE Pop
      BY <3>2 DEF Pop, Foremost
    <3>3. CASE Upgrade \/ LetGo \/ Expire
      BY <3>3 DEF Upgrade, LetGo, Expire
    <3>4. CASE Skip
      BY <3>4 DEF Skip, Entries
    <3>5. CASE Execute
      <4>1. bg.entry.task \in Tasks
        BY <3>5 DEF Execute, Entries
      <4>2. \A n \in 0 .. MaxRuns : Counted(n) \in 0 .. MaxRuns
        BY MaxRunsAssumption DEF Counted
      <4> QED
        BY <3>5, <4>1, <4>2 DEF Execute
    <3>6. CASE StopItself
      BY <3>6 DEF StopItself
    <3>7. CASE Requeue
      <4>1. PICK now \in Times : heap' = heap \cup Requeued(bg.entry, now)
        BY <3>7 DEF Requeue
      <4>2. Requeued(bg.entry, now) \in SUBSET Entries
        BY <3>7, TimesAssumption DEF Requeue, Requeued, Entry, Entries, NextDeadline
      <4> QED
        BY <3>7, <4>1, <4>2 DEF Requeue
    <3>8. CASE DrainForReport \/ End
      BY <3>8 DEF DrainForReport, End
    <3>9. CASE Report
      <4>1. PICK e \in Foremost :
              /\ heap' = heap \ {e}
              /\ reported' = IF Profile[e.task].persist
                               THEN [reported EXCEPT ![e.task] = @ + 1]
                               ELSE reported
        BY <3>9 DEF Report
      <4>2. e.task \in Tasks
        BY DEF Foremost, Entries
      <4>3. reported' \in [Tasks -> Nat]
        BY <4>1, <4>2
      <4> QED
        BY <3>9, <4>1, <4>3 DEF Report
    <3> QED
      BY <2>5, <3>1, <3>2, <3>3, <3>4, <3>5, <3>6, <3>7, <3>8, <3>9 DEF Background
  <2>6. CASE UNCHANGED vars
    BY <2>6 DEF vars
  <2> QED
    BY <2>1, <2>2, <2>3, <2>4, <2>5, <2>6 DEF Next
<1> QED
  BY <1>1, <1>2, PTL DEF Spec

-----------------------------------------------------------------------------
(* The collection of a dropped store. *)

\* Somebody drops the fields of StoreInner.
Closing ==
  \/ \E h \in Handles : handle[h] \in {"closing", "joining"}
  \/ bg.at \in {"closing", "joining"}

\* That starts when the last reference is given up, and none comes back.
References ==
  /\ CollectsAlone
  /\ Closing => Owners = {}

LEMMA OnlyOwnerIsAlone ==
  ASSUME NEW h \in Handles, handle[h] = "live", OnlyOwner
  PROVE  Owners = {h}
<1>1. IsFiniteSet(Owners)
  <2>1. IsFiniteSet({g \in Handles : handle[g] \in {"live", "collecting", "releasing"}})
    BY HandlesAssumption, FS_Subset
  <2> QED
    BY <2>1, FS_EmptySet, FS_Singleton, FS_Union DEF Owners
<1>2. PICK x : Owners = {x}
  BY <1>1, FS_Singleton DEF OnlyOwner
<1>3. h \in Owners
  BY DEF Owners
<1> QED
  BY <1>2, <1>3

LEMMA ReferencesKept ==
  ASSUME TypeOK, References, Next
  PROVE  References'
<1> USE HandlesAssumption DEF References, CollectsAlone, Closing, Owners
<1>1. ASSUME NEW h \in Handles, Clone(h) PROVE References'
  BY <1>1 DEF Clone, Live, TypeOK
<1>2. ASSUME NEW h \in Handles, BeginDrop(h) PROVE References'
  <2>1. CASE AutoGc /\ OnlyOwner
    <3>1. Owners = {h}
      BY <1>2, <2>1, OnlyOwnerIsAlone DEF BeginDrop
    <3>2. \A g \in Handles \ {h} : handle[g] \in {"none", "gone"}
      BY <3>1 DEF TypeOK
    <3> QED
      BY <1>2, <2>1, <3>1, <3>2 DEF BeginDrop, TypeOK
  <2>2. CASE ~ (AutoGc /\ OnlyOwner)
    BY <1>2, <2>2 DEF BeginDrop, TypeOK
  <2> QED
    BY <2>1, <2>2
<1>3. ASSUME NEW h \in Handles, Collect(h) PROVE References'
  BY <1>3 DEF Collect, TypeOK
<1>4. ASSUME NEW h \in Handles, Release(h) PROVE References'
  BY <1>4 DEF Release, TypeOK
<1>5. ASSUME NEW h \in Handles, Stop(h) \/ Join(h) PROVE References'
  BY <1>5 DEF Stop, Join, TypeOK
<1>6. CASE (\E t \in Tasks : Schedule(t)) \/ Disturb \/ Settle
  BY <1>6 DEF Schedule, Disturb, Settle
<1>7. CASE Background
  <2>1. CASE Wake \/ Drain \/ Pass \/ Pop \/ Skip \/ Execute
    BY <2>1 DEF Wake, Drain, Pass, Pop, Skip, Execute, TypeOK
  <2>2. CASE Upgrade
    BY <2>2 DEF Upgrade, TypeOK
  <2>3. CASE LetGo
    BY <2>3 DEF LetGo, TypeOK
  <2>4. CASE StopItself \/ Expire \/ Requeue
    BY <2>4 DEF StopItself, Expire, Requeue, TypeOK
  <2>5. CASE DrainForReport \/ Report \/ End
    BY <2>5 DEF DrainForReport, Report, End, TypeOK
  <2> QED
    BY <1>7, <2>1, <2>2, <2>3, <2>4, <2>5 DEF Background
<1> QED
  BY <1>1, <1>2, <1>3, <1>4, <1>5, <1>6, <1>7 DEF Next, FinishDrop

\* The collection of a dropped store runs when every other clone is gone and none
\* can be made.
THEOREM CollectsAloneHolds == Spec => []CollectsAlone
<1>1. Init => References
  BY HandlesAssumption DEF Init, References, CollectsAlone, Closing, Owners
<1>2. TypeOK /\ References /\ [Next]_vars => References'
  <2>1. CASE UNCHANGED vars
    BY <2>1 DEF vars, References, CollectsAlone, Closing, Owners
  <2> QED
    BY <2>1, ReferencesKept
<1>3. References => CollectsAlone
  BY DEF References
<1> QED
  BY <1>1, <1>2, <1>3, TypeCorrect, PTL DEF Spec

-----------------------------------------------------------------------------
(* The fate of one-shot tasks. *)

OneShots == {t \in Tasks : ~ Profile[t].recurring}

\* The thread has popped the entry of t and has not finished with it.
InHand(t) ==
  /\ bg.at \in {"popped", "running", "executed", "closing", "joining", "requeuing"}
  /\ bg.entry.task = t

\* A one-shot task has at most one entry, in one place, and none any more when it
\* has been executed or reported.
Fate(t) ==
  /\ \A e, f \in channel \cup heap : e.task = t /\ f.task = t => e = f
  /\ \A e \in channel : e.task = t => e \notin heap
  /\ Queued(t) => t \in scheduled /\ ran[t] = 0 /\ reported[t] = 0 /\ ~ InHand(t)
  /\ InHand(t) => /\ t \in scheduled
                  /\ reported[t] = 0
                  /\ bg.at \in {"popped", "running"} => ran[t] = 0
  /\ ran[t] + reported[t] <= 1
  /\ t \notin scheduled => ran[t] = 0 /\ reported[t] = 0

Fates == \A t \in OneShots : Fate(t)

LEMMA FatesKept ==
  ASSUME TypeOK, Fates, Next
  PROVE  Fates'
<1> SUFFICES ASSUME NEW t \in OneShots, Fate(t) PROVE Fate(t)'
  BY DEF Fates, OneShots
<1> t \in Tasks /\ ~ Profile[t].recurring
  BY DEF OneShots
<1> USE DEF Queued, InHand
<1>1. CASE \E h \in Handles : Clone(h) \/ BeginDrop(h) \/ FinishDrop(h)
  BY <1>1 DEF Clone, BeginDrop, FinishDrop, Collect, Release, Stop, Join, history, Fate
<1>2. ASSUME NEW u \in Tasks, Schedule(u) PROVE Fate(t)'
  <2>1. CASE u = t
    BY <1>2, <2>1 DEF Schedule, Entry, Fate
  <2>2. CASE u # t
    BY <1>2, <2>2 DEF Schedule, Entry, Fate
  <2> QED
    BY <2>1, <2>2
<1>3. CASE Disturb \/ Settle
  BY <1>3 DEF Disturb, Settle, history, Fate
<1>4. CASE Background
  <2>1. CASE Wake \/ Pass \/ Upgrade \/ LetGo \/ StopItself \/ Expire \/ End
    BY <2>1 DEF Wake, Pass, Upgrade, LetGo, StopItself, Expire, End, history, Fate, TypeOK
  <2>2. CASE Drain \/ DrainForReport
    BY <2>2 DEF Drain, DrainForReport, history, Fate, TypeOK
  <2>3. CASE Pop
    BY <2>3 DEF Pop, Foremost, history, Fate, TypeOK
  <2>4. CASE Skip
    BY <2>4 DEF Skip, Fate, TypeOK
  <2>5. CASE Execute
    <3>1. Counted(0) = 1
      BY MaxRunsAssumption DEF Counted
    <3>2. CASE bg.entry.task = t
      BY <2>5, <3>1, <3>2 DEF Execute, Fate, TypeOK
    <3>3. CASE bg.entry.task # t
      BY <2>5, <3>3 DEF Execute, Fate, TypeOK
    <3> QED
      BY <3>2, <3>3
  <2>6. CASE Requeue
    <3>1. PICK now \in Times : heap' = heap \cup Requeued(bg.entry, now)
      BY <2>6 DEF Requeue
    <3>2. \A e \in Requeued(bg.entry, now) : e.task # t
      BY DEF Requeued, Entry
    <3> QED
      BY <2>6, <3>1, <3>2 DEF Requeue, history, Fate, TypeOK
  <2>7. CASE Report
    <3>1. PICK e \in Foremost :
            /\ heap' = heap \ {e}
            /\ reported' = IF Profile[e.task].persist
                             THEN [reported EXCEPT ![e.task] = @ + 1]
                             ELSE reported
      BY <2>7 DEF Report
    <3>2. e \in heap /\ e.task \in Tasks
      BY DEF Foremost, TypeOK, Entries
    <3>3. CASE e.task = t
      BY <2>7, <3>1, <3>2, <3>3 DEF Report, Fate, TypeOK
    <3>4. CASE e.task # t
      BY <2>7, <3>1, <3>2, <3>4 DEF Report, Fate, TypeOK
    <3> QED
      BY <3>3, <3>4
  <2> QED
    BY <1>4, <2>1, <2>2, <2>3, <2>4, <2>5, <2>6, <2>7 DEF Background
<1> QED
  BY <1>1, <1>2, <1>3, <1>4 DEF Next

\* A one-shot task is executed or reported as dropped, once at most and never both.
THEOREM OneOutcomeHolds == Spec => []OneOutcome
<1>1. Init => Fates
  BY GcTaskAssumption DEF Init, Fates, Fate, OneShots, Queued, InHand, Entry
<1>2. TypeOK /\ Fates /\ [Next]_vars => Fates'
  <2>1. CASE UNCHANGED vars
    BY <2>1 DEF vars, history, Fates, Fate, Queued, InHand
  <2> QED
    BY <2>1, FatesKept
<1>3. Fates => OneOutcome
  BY DEF Fates, Fate, OneShots, OneOutcome
<1> QED
  BY <1>1, <1>2, <1>3, TypeCorrect, PTL DEF Spec

-----------------------------------------------------------------------------
(* Tasks at the end of the store. *)

\* The thread ends after the last reference was given up, when nothing can be
\* scheduled any more.
Ending ==
  /\ stopped => Owners = {}
  /\ bg.at \in {"stopping", "reporting", "done"} => stopped
  /\ bg.at \in {"reporting", "done"} => channel = {}
  /\ bg.at = "done" => heap = {}

\* A task to be reported that has no outcome is queued or in the thread's hand.
Followed ==
  \A t \in scheduled :
    Profile[t].persist =>
      \/ ran[t] > 0 \/ reported[t] > 0 \/ t \in skipped
      \/ Queued(t)
      \/ bg.at \in {"popped", "running"} /\ bg.entry.task = t

LEMMA EndingKept ==
  ASSUME TypeOK, References, Ending, Next
  PROVE  Ending'
<1> USE HandlesAssumption DEF References, Closing, Ending, Owners, history
<1>1. ASSUME NEW h \in Handles, Clone(h) \/ BeginDrop(h) PROVE Ending'
  BY <1>1 DEF Clone, BeginDrop, Live, TypeOK
<1>2. ASSUME NEW h \in Handles, FinishDrop(h) PROVE Ending'
  BY <1>2 DEF FinishDrop, Collect, Release, Stop, Join, TypeOK
<1>3. ASSUME NEW t \in Tasks, Schedule(t) PROVE Ending'
  BY <1>3 DEF Schedule, Live, TypeOK
<1>4. CASE Disturb \/ Settle
  BY <1>4 DEF Disturb, Settle
<1>5. CASE Background
  <2>1. CASE Wake \/ Drain \/ Pass \/ Pop
    BY <2>1 DEF Wake, Drain, Pass, Pop, TypeOK
  <2>2. CASE Upgrade \/ Skip \/ Execute \/ LetGo
    BY <2>2 DEF Upgrade, Skip, Execute, LetGo, TypeOK
  <2>3. CASE StopItself \/ Expire \/ Requeue
    BY <2>3 DEF StopItself, Expire, Requeue, TypeOK
  <2>4. CASE DrainForReport \/ Report \/ End
    BY <2>4 DEF DrainForReport, Report, End, TypeOK
  <2> QED
    BY <1>5, <2>1, <2>2, <2>3, <2>4 DEF Background
<1> QED
  BY <1>1, <1>2, <1>3, <1>4, <1>5 DEF Next

LEMMA FollowedKept ==
  ASSUME TypeOK, Followed, Next
  PROVE  Followed'
<1> USE DEF Followed, Queued
<1>1. CASE \E h \in Handles : Clone(h) \/ BeginDrop(h) \/ FinishDrop(h)
  BY <1>1 DEF Clone, BeginDrop, FinishDrop, Collect, Release, Stop, Join, history
<1>2. ASSUME NEW u \in Tasks, Schedule(u) PROVE Followed'
  <2>1. PICK deadline \in Times : channel' = channel \cup {Entry(u, deadline)}
    BY <1>2 DEF Schedule
  <2>2. Entry(u, deadline).task = u
    BY DEF Entry
  <2>3. \A t \in Tasks : Queued(t) \/ t = u => Queued(t)'
    BY <1>2, <2>1, <2>2 DEF Schedule
  <2>4. scheduled' = scheduled \cup {u} /\ scheduled \in SUBSET Tasks
    BY <1>2 DEF Schedule, TypeOK
  <2> HIDE DEF Queued
  <2> QED
    BY <1>2, <2>3, <2>4 DEF Schedule
<1>3. CASE Disturb \/ Settle
  BY <1>3 DEF Disturb, Settle, history
<1>4. CASE Background
  <2>1. CASE Wake \/ Drain \/ Pass \/ Upgrade
    BY <2>1 DEF Wake, Drain, Pass, Upgrade, history, TypeOK
  <2>2. CASE Pop
    BY <2>2 DEF Pop, Foremost, history, TypeOK
  <2>3. CASE Skip
    BY <2>3 DEF Skip, TypeOK
  <2>4. CASE Execute
    <3>1. bg.entry.task \in Tasks
      BY <2>4 DEF Execute, TypeOK, Entries
    <3>2. \A n \in 0 .. MaxRuns : Counted(n) > 0
      BY MaxRunsAssumption DEF Counted
    <3> QED
      BY <2>4, <3>1, <3>2 DEF Execute, TypeOK
  <2>5. CASE LetGo \/ StopItself \/ Expire \/ Requeue
    BY <2>5 DEF LetGo, StopItself, Expire, Requeue, history, TypeOK
  <2>6. CASE DrainForReport \/ End
    BY <2>6 DEF DrainForReport, End, history, TypeOK
  <2>7. CASE Report
    <3>1. PICK e \in Foremost :
            /\ heap' = heap \ {e}
            /\ reported' = IF Profile[e.task].persist
                             THEN [reported EXCEPT ![e.task] = @ + 1]
                             ELSE reported
      BY <2>7 DEF Report
    <3>2. e.task \in Tasks
      BY DEF Foremost, TypeOK, Entries
    <3>3. reported \in [Tasks -> Nat] /\ scheduled \in SUBSET Tasks
      BY DEF TypeOK
    <3> QED
      BY <2>7, <3>1, <3>2, <3>3 DEF Report
  <2> QED
    BY <1>4, <2>1, <2>2, <2>3, <2>4, <2>5, <2>6, <2>7 DEF Background
<1> QED
  BY <1>1, <1>2, <1>3, <1>4 DEF Next

\* When the thread has ended, no task to be reported is left without an outcome,
\* however late it was scheduled.
THEOREM AccountedHolds == Spec => []Accounted
<1> DEFINE IInv == References /\ Ending /\ Followed
<1>1. Init => IInv
  <2> SUFFICES ASSUME Init PROVE IInv
    OBVIOUS
  <2>1. References /\ Ending
    BY HandlesAssumption DEF Init, References, CollectsAlone, Closing, Ending, Owners
  <2>2. Followed
    <3>1. \A t \in scheduled : Queued(t)
      <4> SUFFICES ASSUME NEW t \in scheduled PROVE Queued(t)
        OBVIOUS
      <4>1. AutoGc /\ t = GcTask
        BY DEF Init
      <4>2. PICK now \in Times : channel = {Entry(GcTask, now)}
        BY <4>1 DEF Init
      <4>3. Entry(GcTask, now) \in channel /\ Entry(GcTask, now).task = GcTask
        BY <4>2 DEF Entry
      <4> QED
        BY <4>1, <4>3 DEF Queued
    <3> QED
      BY <3>1 DEF Followed
  <2> QED
    BY <2>1, <2>2
<1>2. TypeOK /\ IInv /\ [Next]_vars => IInv'
  <2>1. CASE UNCHANGED vars
    BY <2>1 DEF vars, history, References, CollectsAlone, Closing, Ending, Followed,
                Owners, Queued
  <2> QED
    BY <2>1, ReferencesKept, EndingKept, FollowedKept
<1>3. IInv => Accounted
  BY DEF Ending, Followed, Accounted, Queued
<1> QED
  BY <1>1, <1>2, <1>3, TypeCorrect, PTL DEF Spec
=============================================================================
