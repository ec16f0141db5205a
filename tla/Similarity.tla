------------------------------ MODULE Similarity ------------------------------
(***************************************************************************)
(* The similarity index beside a store (crates/fossic-similarity-hnsw,     *)
(* provider.rs): vectors are inserted into an HNSW graph under consecutive *)
(* data ids, and a mapping leads from the data ids back to events. The     *)
(* graph and the mapping are saved in files of their own, by a caller or   *)
(* by a task on the executor of the store, and loaded when a provider is   *)
(* made.                                                                   *)
(*                                                                         *)
(* The hnsw_rs library is external: a graph is the set of its points, and  *)
(* a search may return any of them. Its two files are one here: they are   *)
(* created together, and either loads only if both are whole.              *)
(***************************************************************************)
EXTENDS Naturals, Sequences

CONSTANTS
  Caller,     \* threads that index, search and save
  Bg,         \* the thread of the executor
  Event,
  MaxPoints   \* bound: how many vectors are indexed

Thread == Caller \cup {Bg}
Point == [id : 0..(MaxPoints - 1), event : Event]
Mappings == [ids : Seq(Event), streamed : SUBSET Event]

\* A file is not there, or its writing has begun and not ended, or it is whole.
Absent == [kind |-> "absent"]
Torn == [kind |-> "torn"]
Written(content) == [kind |-> "written", content |-> content]

ASSUME CallerAssumption == Bg \notin Caller
ASSUME MaxAssumption == MaxPoints \in Nat

VARIABLES
  alive,        \* there is a provider
  graph,        \* the points of its graph
  ids,          \* usize_to_event_id
  streamed,     \* event_id_to_stream_id: the events whose stream is known
  dirty,
  savePending,
  queued,       \* how many saves wait in the executor's queue
  pc,           \* the place of each thread
  graphFiles,   \* index.hnsw.data and index.hnsw.graph
  mappingsFile, \* mappings.bin
  promised,     \* history: how many vectors were there when schedule_save was last called
  failed,       \* history: the last save failed
  stranded,     \* history: the store was closed while a save waited
  interrupted   \* history: a process ended between the writing of the graph and of the mapping

memory == <<graph, ids, streamed>>
disk == <<graphFiles, mappingsFile>>
history == <<promised, failed, stranded, interrupted>>
vars == <<alive, memory, dirty, savePending, queued, pc, disk, history>>

\* save_to_disk holds the mutex from its first to its last line.
Saving == {"dumping", "dumped", "mapping"}
Unlocked == \A t \in Thread : pc[t] \notin Saving

Init ==
  /\ alive = FALSE
  /\ graph = {} /\ ids = <<>> /\ streamed = {}
  /\ dirty = FALSE /\ savePending = FALSE /\ queued = 0
  /\ pc = [t \in Thread |-> "idle"]
  /\ graphFiles = Absent /\ mappingsFile = Absent
  /\ promised = 0 /\ failed = FALSE /\ stranded = FALSE /\ interrupted = FALSE

-----------------------------------------------------------------------------
(* Making and losing a provider.                                            *)

Whole == graphFiles.kind = "written" /\ mappingsFile.kind = "written"

\* try_load_or_init: all of the files are there and load, or the index starts empty.
New ==
  /\ ~alive
  /\ alive' = TRUE
  /\ IF Whole
     THEN /\ graph' = graphFiles.content
          /\ ids' = mappingsFile.content.ids /\ streamed' = mappingsFile.content.streamed
     ELSE graph' = {} /\ ids' = <<>> /\ streamed' = {}
  /\ UNCHANGED <<dirty, savePending, queued, pc, disk, history>>

\* The process ends at any point, or the last reference to the provider is dropped. The
\* tasks that wait hold a weak reference and do nothing any more.
End ==
  /\ alive
  /\ alive' = FALSE
  /\ graph' = {} /\ ids' = <<>> /\ streamed' = {}
  /\ dirty' = FALSE /\ savePending' = FALSE /\ queued' = 0
  /\ pc' = [t \in Thread |-> "idle"]
  /\ promised' = 0 /\ failed' = FALSE /\ stranded' = FALSE
  /\ interrupted' = (interrupted \/ \E t \in Thread : pc[t] \in {"dumped", "mapping"})
  /\ UNCHANGED disk

-----------------------------------------------------------------------------
(* Indexing and searching.                                                  *)

\* index and, with the stream of the event, index_with_stream_id. next_id is the length
\* of the mapping: both count what was inserted or loaded.
IndexUnstamped(c, e, withStream) ==
  /\ alive /\ pc[c] = "idle" /\ Unlocked
  /\ Len(ids) < MaxPoints
  /\ graph' = graph \cup {[id |-> Len(ids), event |-> e]}
  /\ ids' = Append(ids, e)
  /\ streamed' = IF withStream THEN streamed \cup {e} ELSE streamed
  /\ UNCHANGED <<alive, dirty, savePending, queued, pc, disk, history>>
Index(c, e, withStream) ==
  /\ alive /\ pc[c] = "idle" /\ Unlocked
  /\ Len(ids) < MaxPoints
  /\ graph' = graph \cup {[id |-> Len(ids), event |-> e]}
  /\ ids' = Append(ids, e)
  /\ streamed' = IF withStream THEN streamed \cup {e} ELSE streamed
  /\ dirty' = TRUE
  /\ UNCHANGED <<alive, savePending, queued, pc, disk, history>>

\* query: the points whose data id has an event, as the vector and the event they are
\* reported with; with a stream pattern, only events whose stream is known.
Hits(filtered) ==
  {[vector |-> pt.event, event |-> ids[pt.id + 1]] :
     pt \in {x \in graph : x.id < Len(ids) /\ (filtered => ids[x.id + 1] \in streamed)}}

-----------------------------------------------------------------------------
(* schedule_save and its task.                                              *)

\* A provider that is not dirty has nothing to save.
Schedule(c) ==
  /\ alive /\ pc[c] = "idle"
  /\ promised' = Len(ids)
  /\ pc' = [pc EXCEPT ![c] = IF dirty THEN "checked" ELSE "idle"]
  /\ UNCHANGED <<alive, memory, dirty, savePending, queued, disk, failed, stranded, interrupted>>

StampAlways(c) ==
  /\ pc[c] = "checked"
  /\ savePending' = TRUE
  /\ pc' = [pc EXCEPT ![c] = "stamped"]
  /\ UNCHANGED <<alive, memory, dirty, queued, disk, history>>
\* save_pending.swap: one save waits at a time.
Stamp(c) ==
  /\ pc[c] = "checked"
  /\ savePending' = TRUE
  /\ pc' = [pc EXCEPT ![c] = IF savePending THEN "idle" ELSE "stamped"]
  /\ UNCHANGED <<alive, memory, dirty, queued, disk, history>>

Enqueue(c) ==
  /\ pc[c] = "stamped"
  /\ queued' = queued + 1
  /\ pc' = [pc EXCEPT ![c] = "idle"]
  /\ UNCHANGED <<alive, memory, dirty, savePending, disk, history>>

StartTaskStamped ==
  /\ alive /\ pc[Bg] = "idle" /\ queued > 0
  /\ queued' = queued - 1
  /\ pc' = [pc EXCEPT ![Bg] = "started"]
  /\ UNCHANGED <<alive, memory, dirty, savePending, disk, history>>
\* The task of the executor starts: from now on a save may be scheduled again.
StartTask ==
  /\ alive /\ pc[Bg] = "idle" /\ queued > 0
  /\ queued' = queued - 1
  /\ savePending' = FALSE
  /\ pc' = [pc EXCEPT ![Bg] = "started"]
  /\ UNCHANGED <<alive, memory, dirty, disk, history>>

CheckDirty ==
  /\ pc[Bg] = "started"
  /\ pc' = [pc EXCEPT ![Bg] = IF dirty THEN "saving" ELSE "idle"]
  /\ UNCHANGED <<alive, memory, dirty, savePending, queued, disk, history>>

\* The store is closed, and with it its executor: the thread is joined, the queue is
\* dropped. The provider outlives it, for the next store that is opened with it.
CloseStore ==
  /\ alive /\ pc[Bg] = "idle" /\ \A c \in Caller : pc[c] # "stamped"
  /\ queued' = 0
  /\ stranded' = (stranded \/ queued > 0)
  /\ UNCHANGED <<alive, memory, dirty, savePending, pc, disk, promised, failed, interrupted>>

-----------------------------------------------------------------------------
(* save_to_disk.                                                            *)

\* The mutex is taken. An empty index has only its mapping written.
BeginSave(t) ==
  /\ alive /\ Unlocked
  /\ pc[t] = IF t = Bg THEN "saving" ELSE "idle"
  /\ IF ids = <<>>
     THEN /\ pc' = [pc EXCEPT ![t] = "mapping"]
          /\ mappingsFile' = Torn
          /\ UNCHANGED graphFiles
     ELSE /\ pc' = [pc EXCEPT ![t] = "dumping"]
          /\ graphFiles' = Torn
          /\ UNCHANGED mappingsFile
  /\ UNCHANGED <<alive, memory, dirty, savePending, queued, history>>

EndDump(t) ==
  /\ pc[t] = "dumping"
  /\ graphFiles' = Written(graph)
  /\ pc' = [pc EXCEPT ![t] = "dumped"]
  /\ UNCHANGED <<alive, memory, dirty, savePending, queued, mappingsFile, history>>

BeginMappings(t) ==
  /\ pc[t] = "dumped"
  /\ mappingsFile' = Torn
  /\ pc' = [pc EXCEPT ![t] = "mapping"]
  /\ UNCHANGED <<alive, memory, dirty, savePending, queued, graphFiles, history>>

EndSave(t) ==
  /\ pc[t] = "mapping"
  /\ mappingsFile' = Written([ids |-> ids, streamed |-> streamed])
  /\ dirty' = FALSE
  /\ failed' = FALSE
  /\ pc' = [pc EXCEPT ![t] = "idle"]
  /\ UNCHANGED <<alive, memory, savePending, queued, graphFiles, promised, stranded, interrupted>>

NoCleanup == UNCHANGED disk
\* cleanup_index_files; that a file is there and cannot be removed is left out.
Cleanup == graphFiles' = Absent /\ mappingsFile' = Absent

\* A file cannot be created or written. After the mapping of an empty index there is no
\* cleanup. The index stays as dirty, or as clean, as it was.
FailSave(t) ==
  /\ pc[t] \in Saving
  /\ IF ids = <<>> THEN UNCHANGED disk ELSE Cleanup
  /\ failed' = TRUE
  /\ pc' = [pc EXCEPT ![t] = "idle"]
  /\ UNCHANGED <<alive, memory, dirty, savePending, queued, promised, stranded, interrupted>>

SaveStep(t) == EndDump(t) \/ BeginMappings(t) \/ EndSave(t)

Next ==
  \/ New \/ End \/ CloseStore \/ StartTask \/ CheckDirty
  \/ \E c \in Caller, e \in Event, withStream \in BOOLEAN : Index(c, e, withStream)
  \/ \E c \in Caller : Schedule(c) \/ Stamp(c) \/ Enqueue(c)
  \/ \E t \in Thread : BeginSave(t) \/ SaveStep(t) \/ FailSave(t)

Spec == Init /\ [][Next]_vars

\* The executor comes to run its queue, and threads that have begun go on.
Fairness ==
  /\ WF_vars(StartTask) /\ WF_vars(CheckDirty) /\ WF_vars(BeginSave(Bg))
  /\ \A c \in Caller : WF_vars(Stamp(c)) /\ WF_vars(Enqueue(c))
  /\ \A t \in Thread : WF_vars(SaveStep(t))
FairSpec == Spec /\ Fairness

-----------------------------------------------------------------------------
(* Properties.                                                              *)

\* Type invariant. At most one save waits, however often schedule_save is called.
TypeOK ==
  /\ alive \in BOOLEAN
  /\ graph \subseteq Point
  /\ ids \in Seq(Event)
  /\ streamed \subseteq Event
  /\ dirty \in BOOLEAN /\ savePending \in BOOLEAN
  /\ queued \in 0..1
  /\ pc \in [Thread -> {"idle", "checked", "stamped", "started", "saving"} \cup Saving]
  /\ graphFiles \in {Absent, Torn} \cup [kind : {"written"}, content : SUBSET Point]
  /\ mappingsFile \in {Absent, Torn} \cup [kind : {"written"}, content : Mappings]
  /\ promised \in 0..MaxPoints
  /\ failed \in BOOLEAN /\ stranded \in BOOLEAN /\ interrupted \in BOOLEAN

\* A search reports a vector with the event it was indexed for, however often the index
\* was saved, lost and loaded again, and saves failed.
HitsTrue == \A filtered \in BOOLEAN : \A hit \in Hits(filtered) : hit.event = hit.vector

\* ... as long as no process ended between the writing of the graph and of the mapping.
HitsTrueUnlessInterrupted == ~interrupted => HitsTrue

\* An index that is not dirty and is not empty is on disk as it is in memory, unless the
\* last save failed.
CleanIsSaved ==
  alive /\ ~dirty /\ ~failed /\ Unlocked /\ ids # <<>> =>
    graphFiles = Written(graph) /\ mappingsFile = Written([ids |-> ids, streamed |-> streamed])

\* What was indexed when schedule_save was called comes to be saved, also when that call
\* did nothing since another save was waiting, or just starting; unless a save fails, the
\* store is closed before, or the provider is lost.
ScheduledIsSaved ==
  \A n \in 1..MaxPoints :
    promised >= n ~>
      \/ Whole /\ Len(mappingsFile.content.ids) >= n
      \/ failed \/ stranded \/ promised < n
=============================================================================
