-------------------------------- MODULE Relay --------------------------------
(***************************************************************************)
(* The relay of one project (fossic-py/python/fossic/relay.py): agents,    *)
(* each in a process of its own, subscribe to the project's store and      *)
(* append what they are given to a hub that other projects write to, too.  *)
(*                                                                         *)
(* An id is the hash of what an event says and of its cause, whatever the  *)
(* stream, so it is modelled as that pair. Both stores keep one event per  *)
(* id (INSERT OR IGNORE). A subscription, seen from here, gives the events *)
(* of each stream that were committed after it in the order of their       *)
(* versions, until its queue overflows or it ends (InOrder of Delivery).   *)
(* Between streams it keeps no order: the watcher scans one after another. *)
(***************************************************************************)
EXTENDS Naturals, Sequences

CONSTANTS
  Agent,        \* the agents of the project: one, or more by mistake
  Project,      \* source_prefix
  Content,      \* what the events of the project say
  StreamOf,     \* per content the local stream of the event, a sequence of segments
  Foreign,      \* the stream of the hub that others write to
  OtherId,      \* the ids of the events they write there
  MaxEvents,    \* bound: how many events the local store gets
  MaxOther,     \* bound: how many the others write
  MaxAttempts,  \* max_retry_attempts
  None

VARIABLES
  log,       \* the local store: the ids of its events, in the order of the commits
  hub,       \* the rows of the hub, in the order of the commits
  pc,        \* the place of each agent
  cursor,    \* per stream, the position of the last event its subscription gave
  degraded,  \* whether its subscription has overflowed
  feed,      \* the events in its channel
  current,   \* the event it relays
  cause,     \* the causation id it found for it
  attempt,
  returned,  \* history: the ids for which relay_event has returned True
  given_up   \* history: the ids skipped after max_retry_attempts, or lost with an agent

agentVars == <<cursor, degraded, feed, current, cause, attempt>>
vars == <<log, hub, pc, agentVars, returned, given_up>>

Working == {"checking", "translating", "appending"}

ContentOf(id) == id[1]
CauseOf(id) == id[2]
Stream == {StreamOf[c] : c \in Content}
LocalStream(id) == StreamOf[ContentOf(id)]

\* _hub_stream_id: the project is put before a stream that does not begin with it.
HubStream(s) == IF Len(s) > 1 /\ Head(s) = Project THEN s ELSE <<Project>> \o s
HubStreamOf(id) == HubStream(LocalStream(id))

HubIds == {hub[i].id : i \in 1..Len(hub)}
LocalIds == {log[i] : i \in 1..Len(log)}

\* read_by_external_id of the hub: rows of that stream, written for that local event.
Rows(s, ext) == {i \in 1..Len(hub) : hub[i].stream = s /\ hub[i].ext = ext}

Init ==
  /\ log = <<>> /\ hub = <<>>
  /\ pc = [a \in Agent |-> "down"]
  /\ cursor = [a \in Agent |-> [s \in Stream |-> 0]]
  /\ degraded = [a \in Agent |-> FALSE]
  /\ feed = [a \in Agent |-> <<>>]
  /\ current = [a \in Agent |-> None]
  /\ cause = [a \in Agent |-> None]
  /\ attempt = [a \in Agent |-> 0]
  /\ returned = {} /\ given_up = {}

-----------------------------------------------------------------------------
(* The stores.                                                              *)

\* Another process of the project appends an event, with an event of this store or of
\* the hub for its cause, or without one.
Write(c, cs) ==
  /\ Len(log) < MaxEvents
  /\ cs \in {None} \cup LocalIds \cup HubIds
  /\ <<c, cs>> \notin LocalIds
  /\ log' = Append(log, <<c, cs>>)
  /\ UNCHANGED <<hub, pc, agentVars, returned, given_up>>

InsertAlways(row) == hub' = Append(hub, row)
Insert(row) == hub' = IF row.id \in HubIds THEN hub ELSE Append(hub, row)

\* Another project, through its own agent or by itself.
WriteOther(id) ==
  /\ Len(SelectSeq(hub, LAMBDA row : row.stream = Foreign)) < MaxOther
  /\ Insert([id |-> id, stream |-> Foreign, ext |-> None, by |-> None])
  /\ UNCHANGED <<log, pc, agentVars, returned, given_up>>

-----------------------------------------------------------------------------
(* An agent and its subscription.                                           *)

\* The stores are opened and the subscription starts behind the last event of each stream.
Start(a) ==
  /\ pc[a] = "down"
  /\ pc' = [pc EXCEPT ![a] = "listening"]
  /\ cursor' = [cursor EXCEPT ![a] = [s \in Stream |-> Len(log)]]
  /\ UNCHANGED <<log, hub, degraded, feed, current, cause, attempt, returned, given_up>>

\* What an agent has been given and has not dealt with.
Held(a) == {feed[a][i] : i \in 1..Len(feed[a])} \cup ({current[a]} \ {None})

\* The process of the agent ends at any point.
Crash(a) ==
  /\ pc[a] # "down"
  /\ given_up' = given_up \cup Held(a)
  /\ pc' = [pc EXCEPT ![a] = "down"]
  /\ cursor' = [cursor EXCEPT ![a] = [s \in Stream |-> 0]]
  /\ degraded' = [degraded EXCEPT ![a] = FALSE]
  /\ feed' = [feed EXCEPT ![a] = <<>>]
  /\ current' = [current EXCEPT ![a] = None]
  /\ cause' = [cause EXCEPT ![a] = None]
  /\ attempt' = [attempt EXCEPT ![a] = 0]
  /\ UNCHANGED <<log, hub, returned>>

\* The events that may come next: of any stream, one past the cursor. Events in between
\* may be passed over (NoGap of Delivery has conditions).
Awaited(a) == {n \in 1..Len(log) : n > cursor[a][LocalStream(log[n])]}
Waiting(a) == pc[a] # "down" /\ ~degraded[a] /\ Awaited(a) # {}

\* PyQueueHandler.on_event
Deliver(a) ==
  /\ Waiting(a)
  /\ \E n \in Awaited(a) :
       /\ feed' = [feed EXCEPT ![a] = Append(@, log[n])]
       /\ cursor' = [cursor EXCEPT ![a][LocalStream(log[n])] = n]
  /\ UNCHANGED <<log, hub, pc, degraded, current, cause, attempt, returned, given_up>>

\* The queue of the subscription is full. The loop of the agent goes on waiting for
\* events that no longer come.
Degrade(a) ==
  /\ Waiting(a)
  /\ degraded' = [degraded EXCEPT ![a] = TRUE]
  /\ UNCHANGED <<log, hub, pc, cursor, feed, current, cause, attempt, returned, given_up>>

\* __next__
Take(a) ==
  /\ pc[a] = "listening" /\ feed[a] # <<>>
  /\ pc' = [pc EXCEPT ![a] = "checking"]
  /\ current' = [current EXCEPT ![a] = Head(feed[a])]
  /\ feed' = [feed EXCEPT ![a] = Tail(@)]
  /\ UNCHANGED <<log, hub, cursor, degraded, cause, attempt, returned, given_up>>

-----------------------------------------------------------------------------
(* relay_event and its retries.                                             *)

\* The agent is done with the event, however it was dealt with.
Done(a) ==
  /\ pc' = [pc EXCEPT ![a] = "listening"]
  /\ current' = [current EXCEPT ![a] = None]
  /\ cause' = [cause EXCEPT ![a] = None]
  /\ attempt' = [attempt EXCEPT ![a] = 0]
  /\ UNCHANGED <<cursor, degraded, feed>>

\* The idempotency check: an event that the hub has in its stream is not appended.
Check(a) ==
  /\ pc[a] = "checking"
  /\ IF Rows(HubStreamOf(current[a]), current[a]) # {}
     THEN Done(a)
     ELSE pc' = [pc EXCEPT ![a] = "translating"] /\ UNCHANGED agentVars
  /\ UNCHANGED <<log, hub, returned, given_up>>

TranslatedIfRelayed(cs) ==
  LET rows == Rows(HubStreamOf(cs), cs)
  IN  IF cs = None \/ cs \notin LocalIds THEN cs
      ELSE IF rows = {} THEN None ELSE hub[CHOOSE i \in rows : TRUE].id
\* _translate_causation_id: the hub's id for the event of this store, if it is one and
\* has been relayed; or else the id as it is.
Translated(cs) ==
  LET rows == Rows(HubStreamOf(cs), cs)
  IN  IF cs = None \/ cs \notin LocalIds \/ rows = {} THEN cs
      ELSE hub[CHOOSE i \in rows : TRUE].id

Translate(a) ==
  /\ pc[a] = "translating"
  /\ cause' = [cause EXCEPT ![a] = Translated(CauseOf(current[a]))]
  /\ pc' = [pc EXCEPT ![a] = "appending"]
  /\ UNCHANGED <<log, hub, cursor, degraded, feed, current, attempt, returned, given_up>>

\* hub_store.append: the id follows from the content and the translated cause.
AppendToHub(a) ==
  /\ pc[a] = "appending"
  /\ Insert([id |-> <<ContentOf(current[a]), cause[a]>>, stream |-> HubStreamOf(current[a]),
             ext |-> current[a], by |-> a])
  /\ returned' = returned \cup {current[a]}
  /\ Done(a)
  /\ UNCHANGED <<log, given_up>>

\* A call fails: the hub is busy, or its stream is not declared. After a pause the event
\* is tried again from the start,
RetryLater(a) ==
  /\ pc[a] \in Working /\ attempt[a] + 1 < MaxAttempts
  /\ pc' = [pc EXCEPT ![a] = "listening"]
  /\ feed' = [feed EXCEPT ![a] = Append(@, current[a])]
  /\ current' = [current EXCEPT ![a] = None]
  /\ cause' = [cause EXCEPT ![a] = None]
  /\ UNCHANGED <<log, hub, cursor, degraded, attempt, returned, given_up>>
RetryFromNext(a) ==
  /\ pc[a] \in Working /\ attempt[a] + 1 < MaxAttempts
  /\ Done(a)
  /\ UNCHANGED <<log, hub, returned, given_up>>
Retry(a) ==
  /\ pc[a] \in Working /\ attempt[a] + 1 < MaxAttempts
  /\ pc' = [pc EXCEPT ![a] = "checking"]
  /\ cause' = [cause EXCEPT ![a] = None]
  /\ attempt' = [attempt EXCEPT ![a] = @ + 1]
  /\ UNCHANGED <<log, hub, cursor, degraded, feed, current, returned, given_up>>

\* ... or, after the last attempt, skipped.
Skip(a) ==
  /\ pc[a] \in Working /\ attempt[a] + 1 >= MaxAttempts
  /\ given_up' = given_up \cup {current[a]}
  /\ Done(a)
  /\ UNCHANGED <<log, hub, returned>>

Step(a) == Take(a) \/ Check(a) \/ Translate(a) \/ AppendToHub(a) \/ Retry(a) \/ Skip(a)

Next ==
  \/ \E c \in Content, cs \in {None} \cup LocalIds \cup HubIds : Write(c, cs)
  \/ \E id \in OtherId : WriteOther(id)
  \/ \E a \in Agent : Start(a) \/ Crash(a) \/ Deliver(a) \/ Degrade(a) \/ Step(a)

Spec == Init /\ [][Next]_vars
\* An agent that runs goes on with what it was given.
FairSpec == Spec /\ \A a \in Agent : WF_vars(Step(a))

-----------------------------------------------------------------------------
(* Properties.                                                              *)

\* An event of the project is in the hub once, although agents look for it and append it
\* in two steps, are restarted, and race one another.
RelayedOnce ==
  \A i, j \in 1..Len(hub) :
    hub[i].ext # None /\ hub[i].ext = hub[j].ext => i = j

\* It keeps its id there, and so its cause is the event that caused it, whether that one
\* was relayed before, or later, or comes from the hub.
IdsKept == \A i \in 1..Len(hub) : hub[i].ext # None => hub[i].id = hub[i].ext

Position(id) == CHOOSE n \in 1..Len(log) : log[n] = id

\* What an agent appends of one local stream is in the order of that stream, whatever it
\* retries or skips and however often it is restarted: a retry in place may not let a later
\* event of the stream pass. (Events of two streams may change places.)
InLocalOrder ==
  \A i, j \in 1..Len(hub) :
    /\ i < j /\ hub[i].by # None /\ hub[i].by = hub[j].by
    /\ LocalStream(hub[i].ext) = LocalStream(hub[j].ext)
    => Position(hub[i].ext) < Position(hub[j].ext)

\* An event that an agent was given comes to be in the hub, unless the agent gives up or
\* ends.
HeldIsRelayed ==
  \A n \in 1..MaxEvents :
    (n <= Len(log) /\ \E a \in Agent : log[n] \in Held(a)) ~>
      (n <= Len(log) /\ log[n] \in HubIds \cup given_up)

\* An event for which relay_event has returned True is in the hub, in the stream of the
\* project.
TrueMeansAppended == \A id \in returned : Rows(HubStreamOf(id), id) # {}
=============================================================================
