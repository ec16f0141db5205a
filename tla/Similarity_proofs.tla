-------------------------- MODULE Similarity_proofs ---------------------------
(***************************************************************************)
(* Proofs about the similarity index, for any callers, events and number   *)
(* of vectors: types, that a clean index is on disk, and that searches     *)
(* report vectors with their events as long as no process ended between    *)
(* the writing of the graph and of the mapping.                            *)
(***************************************************************************)
EXTENDS Similarity, TLAPS, SequenceTheorems

\* One save waits or is about to be scheduled, and only if save_pending says so.
OneSaveWaits ==
  /\ \A c \in Thread : pc[c] = "stamped" => savePending /\ queued = 0
  /\ \A c, d \in Thread : pc[c] = "stamped" /\ pc[d] = "stamped" => c = d
  /\ queued > 0 => savePending

\* The lengths of the mappings are bounded as the inserts are.
Bounded ==
  /\ Len(ids) <= MaxPoints
  /\ mappingsFile.kind = "written" => Len(mappingsFile.content.ids) <= MaxPoints

\* Without a provider no thread is in a call of it; the mutex has one holder.
Places ==
  /\ ~alive => \A t \in Thread : pc[t] = "idle"
  /\ \A s, t \in Thread : pc[s] \in Saving /\ pc[t] \in Saving => s = t

\* What the holder of the mutex has written so far.
Halfway ==
  \A t \in Thread :
    /\ pc[t] \in {"dumping", "dumped"} => ids # <<>>
    /\ pc[t] = "dumped" => graphFiles = Written(graph)
    /\ pc[t] = "mapping" /\ ids # <<>> => graphFiles = Written(graph)

\* Each point of g leads to its event in s.
Leads(g, s) == \A pt \in g : pt.id < Len(s) /\ s[pt.id + 1] = pt.event

\* No thread is between the graph and the mapping.
NoneBetween == \A t \in Thread : pc[t] \notin {"dumped", "mapping"}

\* Memory is true, an empty index has no graph on disk, and a graph on disk is there with
\* a mapping in which its points lead to their events.
Consistent ==
  /\ Leads(graph, ids)
  /\ alive /\ ids = <<>> => graphFiles.kind # "written"
  /\ graphFiles.kind = "written" /\ NoneBetween =>
       mappingsFile.kind = "written" /\ mappingsFile.content.ids # <<>>
         /\ Leads(graphFiles.content, mappingsFile.content.ids)

IInv ==
  /\ TypeOK /\ OneSaveWaits /\ Bounded
  /\ Places /\ Halfway
  /\ CleanIsSaved
  /\ ~interrupted => Consistent

-----------------------------------------------------------------------------
(* Types, and the one save that waits.                                      *)

Typed == TypeOK /\ OneSaveWaits /\ Bounded

\* What a file holds that is whole.
LEMMA WholeContent ==
  ASSUME TypeOK
  PROVE  /\ graphFiles.kind = "written" =>
              graphFiles.content \subseteq Point /\ graphFiles = Written(graphFiles.content)
         /\ mappingsFile.kind = "written" =>
              /\ mappingsFile.content.ids \in Seq(Event)
              /\ mappingsFile.content.streamed \subseteq Event
              /\ mappingsFile = Written([ids |-> mappingsFile.content.ids,
                                         streamed |-> mappingsFile.content.streamed])
<1>1. graphFiles \in {Absent, Torn} \cup [kind : {"written"}, content : SUBSET Point]
  BY DEF TypeOK
<1>2. mappingsFile \in {Absent, Torn} \cup [kind : {"written"}, content : Mappings]
  BY DEF TypeOK
<1>3. ASSUME graphFiles.kind = "written"
      PROVE  graphFiles.content \subseteq Point /\ graphFiles = Written(graphFiles.content)
  <2>1. graphFiles \in [kind : {"written"}, content : SUBSET Point]
    BY <1>1, <1>3 DEF Absent, Torn
  <2> QED
    BY <2>1 DEF Written
<1>4. ASSUME mappingsFile.kind = "written"
      PROVE  /\ mappingsFile.content \in Mappings
             /\ mappingsFile = Written(mappingsFile.content)
  <2>1. mappingsFile \in [kind : {"written"}, content : Mappings]
    BY <1>2, <1>4 DEF Absent, Torn
  <2> QED
    BY <2>1 DEF Written
<1>5. ASSUME NEW x \in Mappings
      PROVE  /\ x.ids \in Seq(Event) /\ x.streamed \subseteq Event
             /\ x = [ids |-> x.ids, streamed |-> x.streamed]
  BY <1>5 DEF Mappings
<1> QED
  BY <1>3, <1>4, <1>5

LEMMA InitTyped == Init => Typed
<1> SUFFICES ASSUME Init PROVE Typed
  OBVIOUS
<1>1. ids \in Seq(Event) /\ Len(ids) = 0
  BY EmptySeq DEF Init
<1>2. TypeOK
  <2>1. pc \in [Thread -> {"idle"}] /\ queued \in 0..1 /\ promised \in 0..MaxPoints
    BY MaxAssumption DEF Init
  <2>2. alive \in BOOLEAN /\ dirty \in BOOLEAN /\ savePending \in BOOLEAN
        /\ failed \in BOOLEAN /\ stranded \in BOOLEAN /\ interrupted \in BOOLEAN
    BY Zenon DEF Init
  <2> QED
    BY <1>1, <2>1, <2>2 DEF Init, TypeOK
<1>3. OneSaveWaits
  BY DEF Init, OneSaveWaits
<1>4. Bounded
  BY <1>1, MaxAssumption DEF Init, Bounded, Absent
<1> QED
  BY <1>2, <1>3, <1>4 DEF Typed

LEMMA StepTyped == Typed /\ [Next]_vars => Typed'
<1> SUFFICES ASSUME Typed, [Next]_vars PROVE Typed'
  OBVIOUS
<1> USE DEF Typed
<1>a. \A c \in Caller : c \in Thread /\ c # Bg
  BY CallerAssumption DEF Thread
<1>b. Bg \in Thread
  BY DEF Thread
<1>1. CASE New
  <2>1. <<>> \in Seq(Event) /\ Len(<<>>) = 0
    BY EmptySeq
  <2>2. graph' \subseteq Point /\ ids' \in Seq(Event) /\ streamed' \subseteq Event
        /\ Len(ids') <= MaxPoints
    <3>1. CASE Whole
      BY <1>1, <3>1, WholeContent DEF New, Whole, Bounded
    <3>2. CASE ~ Whole
      BY <1>1, <2>1, <3>2, MaxAssumption DEF New
    <3> QED
      BY <3>1, <3>2
  <2>3. TypeOK'
    <3>1. alive' \in BOOLEAN
      BY <1>1 DEF New
    <3> QED
      BY <1>1, <2>2, <3>1 DEF New, TypeOK, disk, history
  <2>4. OneSaveWaits'
    BY <1>1 DEF New, OneSaveWaits
  <2>5. Bounded'
    BY <1>1, <2>2 DEF New, Bounded, disk
  <2> QED
    BY <2>3, <2>4, <2>5
<1>2. CASE End
  <2>1. <<>> \in Seq(Event) /\ Len(<<>>) = 0
    BY EmptySeq
  <2>2. TypeOK'
    <3>1. pc' \in [Thread -> {"idle"}] /\ queued' \in 0..1 /\ promised' \in 0..MaxPoints
      BY <1>2, MaxAssumption DEF End
    <3>2. alive' \in BOOLEAN /\ dirty' \in BOOLEAN /\ savePending' \in BOOLEAN
          /\ failed' \in BOOLEAN /\ stranded' \in BOOLEAN /\ interrupted' \in BOOLEAN
      BY <1>2, Zenon DEF End
    <3> QED
      BY <1>2, <2>1, <3>1, <3>2 DEF End, TypeOK, disk
  <2>3. OneSaveWaits'
    BY <1>2 DEF End, OneSaveWaits
  <2>4. Bounded'
    BY <1>2, <2>1, MaxAssumption DEF End, Bounded, disk
  <2> QED
    BY <2>2, <2>3, <2>4
<1>3. CASE CloseStore
  BY <1>3 DEF CloseStore, TypeOK, OneSaveWaits, Bounded, disk, memory
<1>4. CASE StartTask
  <2>1. queued' \in 0..1
    BY <1>4 DEF StartTask, TypeOK
  <2>2. savePending' \in BOOLEAN
    BY <1>4 DEF StartTask
  <2>3. TypeOK'
    BY <1>4, <1>b, <2>1, <2>2 DEF StartTask, TypeOK, disk, memory, history
  <2>4. OneSaveWaits'
    BY <1>4, <1>b DEF StartTask, TypeOK, OneSaveWaits
  <2>5. Bounded'
    BY <1>4 DEF StartTask, Bounded, disk, memory
  <2> QED
    BY <2>3, <2>4, <2>5
<1>5. CASE CheckDirty
  BY <1>5, <1>b DEF CheckDirty, TypeOK, OneSaveWaits, Bounded, disk, memory, history
<1>6. ASSUME NEW c \in Caller, NEW e \in Event, NEW withStream \in BOOLEAN, Index(c, e, withStream)
      PROVE Typed'
  <2>1. ids \in Seq(Event) /\ Len(ids) \in 0..(MaxPoints - 1)
    BY <1>6, MaxAssumption, LenProperties DEF Index, TypeOK
  <2>2. ids' \in Seq(Event) /\ Len(ids') <= MaxPoints
    BY <1>6, <2>1, AppendProperties, MaxAssumption DEF Index
  <2>3. graph' \subseteq Point
    BY <1>6, <2>1 DEF Index, TypeOK, Point
  <2> QED
    BY <1>6, <2>2, <2>3 DEF Index, TypeOK, OneSaveWaits, Bounded, disk, history
<1>7. ASSUME NEW c \in Caller, Schedule(c) PROVE Typed'
  <2>1. promised' \in 0..MaxPoints
    BY <1>7, MaxAssumption, LenProperties DEF Schedule, TypeOK, Bounded
  <2> QED
    BY <1>7, <1>a, <2>1 DEF Schedule, TypeOK, OneSaveWaits, Bounded, disk, memory
<1>8. ASSUME NEW c \in Caller, Stamp(c) PROVE Typed'
  BY <1>8, <1>a DEF Stamp, TypeOK, OneSaveWaits, Bounded, disk, memory, history
<1>9. ASSUME NEW c \in Caller, Enqueue(c) PROVE Typed'
  BY <1>9, <1>a DEF Enqueue, TypeOK, OneSaveWaits, Bounded, disk, memory, history
<1>10. ASSUME NEW t \in Thread, BeginSave(t) PROVE Typed'
  BY <1>10 DEF BeginSave, TypeOK, OneSaveWaits, Bounded, Saving, Torn, memory, history
<1>11. ASSUME NEW t \in Thread, EndDump(t) PROVE Typed'
  BY <1>11 DEF EndDump, TypeOK, OneSaveWaits, Bounded, Saving, Written, memory, history
<1>12. ASSUME NEW t \in Thread, BeginMappings(t) PROVE Typed'
  BY <1>12 DEF BeginMappings, TypeOK, OneSaveWaits, Bounded, Saving, Torn, memory, history
<1>13. ASSUME NEW t \in Thread, EndSave(t) PROVE Typed'
  <2>1. [ids |-> ids, streamed |-> streamed] \in Mappings
    BY DEF TypeOK, Mappings
  <2> QED
    BY <1>13, <2>1 DEF EndSave, TypeOK, OneSaveWaits, Bounded, Saving, Written, memory
<1>14. ASSUME NEW t \in Thread, FailSave(t) PROVE Typed'
  BY <1>14 DEF FailSave, Cleanup, TypeOK, OneSaveWaits, Bounded, Saving, Absent, memory, disk
<1>15. CASE UNCHANGED vars
  BY <1>15 DEF vars, TypeOK, OneSaveWaits, Bounded, disk, memory, history
<1> QED
  BY <1>1, <1>2, <1>3, <1>4, <1>5, <1>6, <1>7, <1>8, <1>9, <1>10, <1>11, <1>12, <1>13, <1>14, <1>15
  DEF Next, SaveStep

-----------------------------------------------------------------------------
(* The mutex, and what its holder has written.                              *)

LEMMA StepPlaces == TypeOK /\ Places /\ [Next]_vars => Places'
<1> SUFFICES ASSUME TypeOK, Places, [Next]_vars PROVE Places'
  OBVIOUS
<1> USE DEF Places, Saving
<1>a. pc \in [Thread -> {"idle", "checked", "stamped", "started", "saving"} \cup Saving]
  BY DEF TypeOK
<1>b. Bg \in Thread /\ \A c \in Caller : c \in Thread
  BY DEF Thread
<1>1. CASE New
  BY <1>1 DEF New
<1>2. CASE End
  BY <1>2 DEF End
<1>3. CASE CloseStore
  BY <1>3 DEF CloseStore
<1>4. CASE StartTask \/ CheckDirty
  BY <1>4, <1>a, <1>b DEF StartTask, CheckDirty
<1>5. ASSUME NEW c \in Caller, NEW e \in Event, NEW withStream \in BOOLEAN, Index(c, e, withStream)
      PROVE Places'
  BY <1>5 DEF Index
<1>6. ASSUME NEW c \in Caller, Schedule(c) \/ Stamp(c) \/ Enqueue(c) PROVE Places'
  BY <1>6, <1>a, <1>b DEF Schedule, Stamp, Enqueue
<1>7. ASSUME NEW t \in Thread, BeginSave(t) PROVE Places'
  BY <1>7, <1>a DEF BeginSave, Unlocked
<1>8. ASSUME NEW t \in Thread, SaveStep(t) PROVE Places'
  BY <1>8, <1>a DEF SaveStep, EndDump, BeginMappings, EndSave
<1>9. ASSUME NEW t \in Thread, FailSave(t) PROVE Places'
  BY <1>9, <1>a DEF FailSave
<1>10. CASE UNCHANGED vars
  BY <1>10 DEF vars
<1> QED
  BY <1>1, <1>2, <1>3, <1>4, <1>5, <1>6, <1>7, <1>8, <1>9, <1>10 DEF Next

LEMMA StepHalfway == TypeOK /\ Places /\ Halfway /\ [Next]_vars => Halfway'
<1> SUFFICES ASSUME TypeOK, Places, Halfway, [Next]_vars PROVE Halfway'
  OBVIOUS
<1> USE DEF Halfway
<1>a. pc \in [Thread -> {"idle", "checked", "stamped", "started", "saving"} \cup Saving]
  BY DEF TypeOK
<1>b. Bg \in Thread /\ \A c \in Caller : c \in Thread
  BY DEF Thread
<1>1. CASE New
  BY <1>1 DEF New, Places
<1>2. CASE End
  BY <1>2 DEF End
<1>3. CASE CloseStore
  BY <1>3 DEF CloseStore, memory, disk
<1>4. CASE StartTask \/ CheckDirty
  BY <1>4, <1>a, <1>b DEF StartTask, CheckDirty, memory, disk
<1>5. ASSUME NEW c \in Caller, NEW e \in Event, NEW withStream \in BOOLEAN, Index(c, e, withStream)
      PROVE Halfway'
  BY <1>5 DEF Index, Unlocked, Saving
<1>6. ASSUME NEW c \in Caller, Schedule(c) \/ Stamp(c) \/ Enqueue(c) PROVE Halfway'
  BY <1>6, <1>a, <1>b DEF Schedule, Stamp, Enqueue, memory, disk
<1>7. ASSUME NEW t \in Thread, BeginSave(t) PROVE Halfway'
  BY <1>7, <1>a DEF BeginSave, Unlocked, Saving, memory
<1>8. ASSUME NEW t \in Thread, SaveStep(t) PROVE Halfway'
  BY <1>8, <1>a DEF SaveStep, EndDump, BeginMappings, EndSave, Places, Saving, memory
<1>9. ASSUME NEW t \in Thread, FailSave(t) PROVE Halfway'
  <2>1. \A s \in Thread : pc'[s] \notin Saving
    BY <1>9, <1>a DEF FailSave, Places, Saving
  <2> QED
    BY <2>1 DEF Saving
<1>10. CASE UNCHANGED vars
  BY <1>10 DEF vars, memory, disk
<1> QED
  BY <1>1, <1>2, <1>3, <1>4, <1>5, <1>6, <1>7, <1>8, <1>9, <1>10 DEF Next

-----------------------------------------------------------------------------
(* A clean index is on disk.                                                *)

LEMMA StepClean ==
  TypeOK /\ Places /\ Halfway /\ CleanIsSaved /\ [Next]_vars => CleanIsSaved'
<1> SUFFICES ASSUME TypeOK, Places, Halfway, CleanIsSaved, [Next]_vars PROVE CleanIsSaved'
  OBVIOUS
<1> USE DEF CleanIsSaved
<1>a. pc \in [Thread -> {"idle", "checked", "stamped", "started", "saving"} \cup Saving]
  BY DEF TypeOK
<1>b. Bg \in Thread /\ \A c \in Caller : c \in Thread
  BY DEF Thread
<1>1. CASE New
  <2>1. CASE Whole
    BY <1>1, <2>1, WholeContent DEF New, Whole, disk
  <2>2. CASE ~ Whole
    BY <1>1, <2>2 DEF New
  <2> QED
    BY <2>1, <2>2
<1>2. CASE End
  BY <1>2 DEF End
<1>3. CASE CloseStore
  BY <1>3 DEF CloseStore, memory, disk, Unlocked
<1>4. CASE StartTask \/ CheckDirty
  BY <1>4, <1>a, <1>b DEF StartTask, CheckDirty, memory, disk, history, Unlocked, Saving
<1>5. ASSUME NEW c \in Caller, NEW e \in Event, NEW withStream \in BOOLEAN, Index(c, e, withStream)
      PROVE CleanIsSaved'
  BY <1>5 DEF Index
<1>6. ASSUME NEW c \in Caller, Schedule(c) \/ Stamp(c) \/ Enqueue(c) PROVE CleanIsSaved'
  BY <1>6, <1>a, <1>b DEF Schedule, Stamp, Enqueue, memory, disk, history, Unlocked, Saving
<1>7. ASSUME NEW t \in Thread, BeginSave(t) PROVE CleanIsSaved'
  BY <1>7, <1>a DEF BeginSave, Unlocked, Saving
<1>8. ASSUME NEW t \in Thread, EndDump(t) \/ BeginMappings(t) PROVE CleanIsSaved'
  BY <1>8, <1>a DEF EndDump, BeginMappings, Unlocked, Saving
<1>9. ASSUME NEW t \in Thread, EndSave(t) PROVE CleanIsSaved'
  BY <1>9, <1>a DEF EndSave, memory, Halfway
<1>10. ASSUME NEW t \in Thread, FailSave(t) PROVE CleanIsSaved'
  BY <1>10 DEF FailSave
<1>11. CASE UNCHANGED vars
  <2>1. UNCHANGED <<alive, dirty, failed, pc, ids, graph, streamed, graphFiles, mappingsFile>>
    BY <1>11 DEF vars, memory, disk, history
  <2>2. Unlocked' <=> Unlocked
    BY <2>1 DEF Unlocked
  <2> QED
    BY <2>1, <2>2
<1> QED
  BY <1>1, <1>2, <1>3, <1>4, <1>5, <1>6, <1>7, <1>8, <1>9, <1>10, <1>11 DEF Next, SaveStep

-----------------------------------------------------------------------------
(* Points lead to their events.                                             *)

LEMMA StepConsistent ==
  ASSUME TypeOK, Places, Halfway, Consistent, ~interrupted', [Next]_vars
  PROVE  Consistent'
<1> USE DEF Consistent
<1>a. pc \in [Thread -> {"idle", "checked", "stamped", "started", "saving"} \cup Saving]
  BY DEF TypeOK
<1>b. Bg \in Thread /\ \A c \in Caller : c \in Thread
  BY DEF Thread
<1>c. ASSUME UNCHANGED <<alive, memory, disk>>, NoneBetween' => NoneBetween PROVE Consistent'
  BY <1>c DEF memory, disk, Leads
<1>1. CASE New
  <2>1. UNCHANGED <<pc, graphFiles, mappingsFile>>
    BY <1>1 DEF New, disk
  <2>2. NoneBetween /\ NoneBetween'
    BY <1>1, <2>1 DEF New, Places, NoneBetween
  <2>3. CASE Whole
    BY <1>1, <2>1, <2>2, <2>3 DEF New, Whole, Leads
  <2>4. CASE ~ Whole
    BY <1>1, <2>1, <2>2, <2>4 DEF New, Whole, Leads
  <2> QED
    BY <2>3, <2>4
<1>2. CASE End
  <2>1. NoneBetween
    BY <1>2 DEF End, NoneBetween
  <2>2. ~ alive' /\ graph' = {} /\ UNCHANGED <<graphFiles, mappingsFile>>
    BY <1>2 DEF End, disk
  <2> QED
    BY <2>1, <2>2 DEF Leads
<1>3. CASE CloseStore
  BY <1>3, <1>c DEF CloseStore, NoneBetween
<1>4. CASE StartTask \/ CheckDirty
  <2>1. NoneBetween' => NoneBetween
    BY <1>4, <1>a, <1>b DEF StartTask, CheckDirty, NoneBetween
  <2> QED
    BY <1>4, <1>c, <2>1 DEF StartTask, CheckDirty
<1>5. ASSUME NEW c \in Caller, NEW e \in Event, NEW withStream \in BOOLEAN, Index(c, e, withStream)
      PROVE Consistent'
  <2>1. ids \in Seq(Event) /\ graph \subseteq Point /\ Len(ids) \in Nat
    BY LenProperties DEF TypeOK
  <2>2. /\ ids' \in Seq(Event) /\ Len(ids') = Len(ids) + 1
        /\ \A i \in 1..Len(ids) : ids'[i] = ids[i]
        /\ ids'[Len(ids) + 1] = e
    BY <1>5, <2>1, AppendProperties DEF Index
  <2>3. Leads(graph', ids')
    <3> SUFFICES ASSUME NEW pt \in graph' PROVE pt.id < Len(ids') /\ ids'[pt.id + 1] = pt.event
      BY DEF Leads
    <3>1. CASE pt \in graph
      <4>1. pt.id < Len(ids) /\ ids[pt.id + 1] = pt.event /\ pt.id \in Nat
        BY <2>1, <3>1, MaxAssumption DEF Leads, Point
      <4> QED
        BY <2>1, <2>2, <4>1
    <3>2. CASE pt = [id |-> Len(ids), event |-> e]
      BY <2>1, <2>2, <3>2
    <3> QED
      BY <1>5, <3>1, <3>2 DEF Index
  <2>4. ids' # <<>>
    BY <2>1, <2>2, EmptySeq
  <2>5. UNCHANGED <<pc, graphFiles, mappingsFile>>
    BY <1>5 DEF Index, disk
  <2> QED
    BY <2>3, <2>4, <2>5 DEF NoneBetween
<1>6. ASSUME NEW c \in Caller, Schedule(c) \/ Stamp(c) \/ Enqueue(c) PROVE Consistent'
  <2>1. NoneBetween' => NoneBetween
    BY <1>6, <1>a, <1>b DEF Schedule, Stamp, Enqueue, NoneBetween
  <2> QED
    BY <1>6, <1>c, <2>1 DEF Schedule, Stamp, Enqueue
<1>7. ASSUME NEW t \in Thread, BeginSave(t) PROVE Consistent'
  <2>1. Leads(graph', ids') /\ UNCHANGED <<ids, alive>>
    BY <1>7 DEF BeginSave, memory, Leads
  <2>2. graphFiles'.kind # "written"
    BY <1>7 DEF BeginSave, Torn
  <2> QED
    BY <2>1, <2>2
<1>8. ASSUME NEW t \in Thread, EndDump(t) PROVE Consistent'
  <2>1. Leads(graph', ids') /\ UNCHANGED <<ids, alive>>
    BY <1>8 DEF EndDump, memory, Leads
  <2>2. ~ NoneBetween' /\ ids # <<>>
    BY <1>8, <1>a DEF EndDump, NoneBetween, Halfway
  <2> QED
    BY <2>1, <2>2
<1>9. ASSUME NEW t \in Thread, BeginMappings(t) PROVE Consistent'
  <2>1. Leads(graph', ids') /\ UNCHANGED <<ids, alive, graphFiles>>
    BY <1>9 DEF BeginMappings, memory, Leads
  <2>2. ~ NoneBetween'
    BY <1>9, <1>a DEF BeginMappings, NoneBetween
  <2> QED
    BY <2>1, <2>2
<1>10. ASSUME NEW t \in Thread, EndSave(t) PROVE Consistent'
  <2>1. UNCHANGED <<ids, graph, alive, graphFiles>>
    BY <1>10 DEF EndSave, memory
  <2>2. mappingsFile'.kind = "written" /\ mappingsFile'.content.ids = ids
    BY <1>10 DEF EndSave, Written
  <2>3. CASE ids = <<>>
    <3>1. alive
      BY <1>10 DEF EndSave, Places
    <3> QED
      BY <2>1, <2>3, <3>1 DEF Leads
  <2>4. CASE ids # <<>>
    <3>1. graphFiles = Written(graph)
      BY <1>10, <2>4 DEF EndSave, Halfway
    <3>2. graphFiles'.content = graph
      BY <2>1, <3>1 DEF Written
    <3> QED
      BY <2>1, <2>2, <2>4, <3>2 DEF Leads
  <2> QED
    BY <2>3, <2>4
<1>11. ASSUME NEW t \in Thread, FailSave(t) PROVE Consistent'
  <2>1. Leads(graph', ids') /\ UNCHANGED <<ids, alive>> /\ alive
    BY <1>11 DEF FailSave, memory, Leads, Places, Saving
  <2>2. graphFiles'.kind # "written"
    <3>1. CASE ids = <<>>
      BY <1>11, <2>1, <3>1 DEF FailSave, disk
    <3>2. CASE ids # <<>>
      BY <1>11, <3>2 DEF FailSave, Cleanup, Absent
    <3> QED
      BY <3>1, <3>2
  <2> QED
    BY <2>1, <2>2
<1>12. CASE UNCHANGED vars
  <2>1. UNCHANGED <<alive, memory, disk, pc>>
    BY <1>12 DEF vars
  <2>2. NoneBetween' => NoneBetween
    BY <2>1 DEF NoneBetween
  <2> QED
    BY <1>c, <2>1, <2>2
<1> QED
  BY <1>1, <1>2, <1>3, <1>4, <1>5, <1>6, <1>7, <1>8, <1>9, <1>10, <1>11, <1>12 DEF Next, SaveStep

-----------------------------------------------------------------------------
(* The invariant and what follows from it.                                  *)

LEMMA InitIInv == Init => IInv
<1> SUFFICES ASSUME Init PROVE IInv
  OBVIOUS
<1>1. Typed
  BY InitTyped
<1>2. Places /\ Halfway
  BY DEF Init, Places, Halfway, Saving
<1>3. CleanIsSaved
  BY DEF Init, CleanIsSaved
<1>4. Consistent
  BY DEF Init, Consistent, Leads, Absent
<1> QED
  BY <1>1, <1>2, <1>3, <1>4 DEF IInv, Typed

LEMMA StepIInv == IInv /\ [Next]_vars => IInv'
<1> SUFFICES ASSUME IInv, [Next]_vars PROVE IInv'
  OBVIOUS
<1> USE DEF IInv
<1>1. Typed'
  BY StepTyped DEF Typed
<1>2. Places' /\ Halfway' /\ CleanIsSaved'
  BY StepPlaces, StepHalfway, StepClean
<1>3. interrupted => interrupted'
  BY DEF Next, SaveStep, New, End, CloseStore, StartTask, CheckDirty, Index, Schedule, Stamp,
         Enqueue, BeginSave, EndDump, BeginMappings, EndSave, FailSave, history, vars
<1>4. ~ interrupted' => Consistent'
  BY <1>3, StepConsistent
<1> QED
  BY <1>1, <1>2, <1>4 DEF Typed

\* The strengthened invariant is one: the steps of every action keep it.
THEOREM Invariant == Spec => []IInv
BY InitIInv, StepIInv, PTL DEF Spec

\* Every variable has its type; in particular at most one save waits, however often and
\* by how many threads schedule_save is called.
THEOREM TypeCorrect == Spec => []TypeOK
<1>1. IInv => TypeOK
  BY DEF IInv
<1> QED
  BY <1>1, Invariant, PTL

\* An index that is not dirty is on disk as it is in memory, unless its last save failed.
THEOREM CleanIsSavedHolds == Spec => []CleanIsSaved
<1>1. IInv => CleanIsSaved
  BY DEF IInv
<1> QED
  BY <1>1, Invariant, PTL

\* A search reports each vector with the event it was indexed for, through any saves,
\* failures and restarts, as long as no process ended between graph and mapping.
THEOREM HitsTrueHolds == Spec => []HitsTrueUnlessInterrupted
<1>1. Consistent => HitsTrue
  <2> SUFFICES ASSUME Consistent, NEW filtered \in BOOLEAN, NEW hit \in Hits(filtered)
               PROVE  hit.event = hit.vector
    BY DEF HitsTrue
  <2>1. PICK pt \in graph : hit = [vector |-> pt.event, event |-> ids[pt.id + 1]]
    BY DEF Hits
  <2> QED
    BY <2>1 DEF Consistent, Leads
<1>2. IInv => HitsTrueUnlessInterrupted
  BY <1>1 DEF IInv, HitsTrueUnlessInterrupted
<1> QED
  BY <1>2, Invariant, PTL
=============================================================================
