------------------------------ MODULE EventStore ------------------------------
(***************************************************************************)
(* The durable half of fossic: the tables "streams" and "events" of one    *)
(* SQLite file, and the write transactions that change them               *)
(* (src/src/append.rs, stream.rs, deletion.rs, system_stream.rs).          *)
(*                                                                         *)
(* Several clients (threads, Store clones, processes) share the file. Each *)
(* write runs in one IMMEDIATE transaction, so at most one is open;        *)
(* readers see the committed tables only. A transaction is modelled        *)
(* statement by statement, and it may be dropped between two statements    *)
(* (an early return, an SQLite error, the death of the process), which     *)
(* rolls it back.                                                          *)
(*                                                                         *)
(* An event is reduced to its id (a hash of its content, which names       *)
(* neither the stream nor the branch) and to the slot it takes in a        *)
(* stream and branch.                                                      *)
(***************************************************************************)
EXTENDS Integers, Sequences, FiniteSets

CONSTANTS
  Client,        \* who holds a connection to the store
  StreamId,      \* ids that pass validate_stream_id
  Branch,
  EventId,       \* ids of the events clients append (content hashes)
  AuditId,       \* ids of Purged and SubscriptionDegraded events
  SystemStream,  \* _fossic/system
  MainBranch,    \* main
  None,          \* no client
  MaxBatch       \* bound: the longest append_batch

ASSUME SystemAssumption ==
  /\ SystemStream \in StreamId
  /\ MainBranch \in Branch
ASSUME IdAssumption == EventId \cap AuditId = {}
ASSUME NoneAssumption == None \notin Client
ASSUME MaxBatchAssumption == MaxBatch \in Nat \ {0}

VARIABLES
  streams,   \* rows of the table streams
  events,    \* rows of the table events, as committed
  tx,        \* the open write transaction
  seen,      \* per client, the stream version it read for its next append_if
  acked,     \* history: the ids that append calls returned in Ok
  purges     \* history: the purged rows, each with the id of its audit event

vars == <<streams, events, tx, seen, acked, purges>>

Row == [id : EventId \cup AuditId, stream : StreamId, branch : Branch,
        version : Nat]
Request == [id : EventId, stream : StreamId, branch : Branch]

\* The kinds of write transactions.
Op == {"append", "append_if", "append_batch", "purge", "system"}

Tx == [owner : Client, op : Op, todo : Seq(Request), rows : SUBSET Row,
       ids : Seq(EventId), expected : Nat \cup {-1},
       purged : SUBSET [row : Row, audit : AuditId]]
NoTx == [owner |-> None]

-----------------------------------------------------------------------------
(* Queries. *)

Ids(rows) == {r.id : r \in rows}
PurgedRows == {p.row : p \in purges}

Versions(rows, s, b) ==
  {r.version : r \in {x \in rows : x.stream = s /\ x.branch = b}}

\* Mutant: counts the rows instead of taking the maximum of their versions.
MaxVersionByCount(rows, s, b) == Cardinality(Versions(rows, s, b)) - 1
\* Mutant: COALESCE(MAX(version), 0), which skips the first version.
MaxVersionFromZero(rows, s, b) ==
  LET V == Versions(rows, s, b) IN
  IF V = {} THEN 0 ELSE CHOOSE v \in V : \A w \in V : w <= v
\* COALESCE(MAX(version), -1)
MaxVersion(rows, s, b) ==
  LET V == Versions(rows, s, b) IN
  IF V = {} THEN -1 ELSE CHOOSE v \in V : \A w \in V : w <= v

NextVersion(rows, s, b) == MaxVersion(rows, s, b) + 1

\* PRIMARY KEY (id), UNIQUE (stream_id, branch, version)
Conflicts(rows, r) ==
  \E x \in rows :
    \/ x.id = r.id
    \/ x.stream = r.stream /\ x.branch = r.branch /\ x.version = r.version

\* Mutant: a plain INSERT into a table that lost its constraints.
InsertBlindly(rows, r) == rows \cup {r}
\* Mutant: INSERT OR REPLACE.
InsertOrReplace(rows, r) == {x \in rows : x.id # r.id} \cup {r}
InsertOrIgnore(rows, r) == IF Conflicts(rows, r) THEN rows ELSE rows \cup {r}

NewRow(rows, id, s, b) ==
  [id |-> id, stream |-> s, branch |-> b, version |-> NextVersion(rows, s, b)]

-----------------------------------------------------------------------------
(* Actions. *)

Init ==
  /\ streams = {SystemStream}
  /\ events = {}
  /\ tx = NoTx
  /\ seen = [c \in Client |-> -1]
  /\ acked = {}
  /\ purges = {}

\* declare_stream: one INSERT OR IGNORE in autocommit mode.
DeclareStream(s) ==
  /\ tx = NoTx
  /\ streams' = streams \cup {s}
  /\ UNCHANGED <<events, tx, seen, acked, purges>>

\* A client learns the version of a stream through a read connection, outside
\* any write transaction, to compare with in a later append_if.
ReadVersion(c, s, b) ==
  /\ tx.owner # c
  /\ seen' = [seen EXCEPT ![c] = MaxVersion(events, s, b)]
  /\ UNCHANGED <<streams, events, tx, acked, purges>>

\* BEGIN IMMEDIATE: waits until no other write transaction is open.
Begin(c, op, todo) ==
  /\ tx = NoTx
  /\ tx' = [owner |-> c, op |-> op, todo |-> todo, rows |-> events,
            ids |-> << >>,
            expected |-> IF op = "append_if" THEN seen[c] ELSE -1,
            purged |-> {}]
  /\ seen' = [seen EXCEPT ![c] = -1]
  /\ UNCHANGED <<streams, events, acked, purges>>

BeginAppend(c, a) == Begin(c, "append", <<a>>)
BeginAppendIf(c, a) == Begin(c, "append_if", <<a>>)
BeginAppendBatch(c, as) == as # << >> /\ Begin(c, "append_batch", as)

\* Mutant: accepts any version at or past the expected one.
ConditionNotBehind ==
  LET a == Head(tx.todo) IN
  MaxVersion(tx.rows, a.stream, a.branch) >= tx.expected
\* The append condition of the documented use: compare-and-swap on the version.
ConditionHolds ==
  LET a == Head(tx.todo) IN
  MaxVersion(tx.rows, a.stream, a.branch) = tx.expected

\* One pass of the body of append: the stream exists, the condition holds,
\* the version is assigned and the row inserted or ignored.
Insert(c) ==
  /\ tx.owner = c
  /\ tx.op \in {"append", "append_if", "append_batch"}
  /\ tx.todo # << >>
  /\ LET a == Head(tx.todo) IN
     /\ a.stream \in streams
     /\ tx.op = "append_if" => ConditionHolds
     /\ tx' = [tx EXCEPT
                 !.rows = InsertOrIgnore(@, NewRow(@, a.id, a.stream, a.branch)),
                 !.ids = Append(@, a.id),
                 !.todo = Tail(@)]
  /\ UNCHANGED <<streams, events, seen, acked, purges>>

\* StreamNotDeclared, or a condition that does not hold: the transaction is
\* dropped, which undoes the inserts of the earlier items of the batch.
Refuse(c) ==
  /\ tx.owner = c
  /\ tx.op \in {"append", "append_if", "append_batch"}
  /\ tx.todo # << >>
  /\ \/ Head(tx.todo).stream \notin streams
     \/ tx.op = "append_if" /\ ~ ConditionHolds
  /\ tx' = NoTx
  /\ UNCHANGED <<streams, events, seen, acked, purges>>

\* Mutant: deletes the row and leaves no audit event.
PurgeUnaudited(c, r, audit) ==
  /\ tx = NoTx
  /\ r \in events
  /\ tx' = [owner |-> c, op |-> "purge", todo |-> << >>,
            rows |-> events \ {r}, ids |-> << >>, expected |-> -1,
            purged |-> {[row |-> r, audit |-> audit]}]
  /\ UNCHANGED <<streams, events, seen, acked, purges>>
\* purge_event: look the event up, append the audit event to the system
\* stream (declared since the store was opened), delete the row. An unknown id
\* is refused before any write. The audit payload holds the time of the purge,
\* so its id is a fresh one.
Purge(c, r, audit) ==
  /\ tx = NoTx
  /\ r \in events
  /\ audit \notin Ids(events) \cup Ids(PurgedRows)
  /\ LET withAudit == InsertOrIgnore(
           events, NewRow(events, audit, SystemStream, MainBranch)) IN
     tx' = [owner |-> c, op |-> "purge", todo |-> << >>,
            rows |-> withAudit \ {r}, ids |-> << >>, expected |-> -1,
            purged |-> {[row |-> r, audit |-> audit]}]
  /\ UNCHANGED <<streams, events, seen, acked, purges>>

\* SystemStreamWriter::emit: as an append to the system stream, which it does
\* not check to be declared; the id repeats when the payload does.
EmitSystem(c, id) ==
  /\ tx = NoTx
  /\ tx' = [owner |-> c, op |-> "system", todo |-> << >>,
            rows |-> InsertOrIgnore(
                       events, NewRow(events, id, SystemStream, MainBranch)),
            ids |-> << >>, expected |-> -1, purged |-> {}]
  /\ UNCHANGED <<streams, events, seen, acked, purges>>

\* COMMIT publishes the rows of the transaction all at once; an append call
\* then returns the ids of its items, inserted or ignored alike.
Commit(c) ==
  /\ tx.owner = c
  /\ tx.todo = << >>
  /\ events' = tx.rows
  /\ purges' = purges \cup tx.purged
  /\ acked' = acked \cup {tx.ids[i] : i \in DOMAIN tx.ids}
  /\ tx' = NoTx
  /\ UNCHANGED <<streams, seen>>

\* An SQLite error or the death of the process between two statements.
Rollback(c) ==
  /\ tx.owner = c
  /\ tx' = NoTx
  /\ UNCHANGED <<streams, events, seen, acked, purges>>

AppendNext(c) ==
  \/ \E s \in StreamId, b \in Branch : ReadVersion(c, s, b)
  \/ \E a \in Request : BeginAppend(c, a) \/ BeginAppendIf(c, a)
  \/ \E n \in 1..MaxBatch : \E as \in [1..n -> Request] : BeginAppendBatch(c, as)
  \/ Insert(c)
  \/ Refuse(c)
  \/ Commit(c)
  \/ Rollback(c)
  \/ \E id \in AuditId : EmitSystem(c, id)

PurgeNext(c) == \E r \in events, audit \in AuditId : Purge(c, r, audit)

Next ==
  \/ \E s \in StreamId : DeclareStream(s)
  \/ \E c \in Client : AppendNext(c) \/ PurgeNext(c)

Spec == Init /\ [][Next]_vars

-----------------------------------------------------------------------------
(* Properties. *)

SameSlot(x, y) ==
  x.stream = y.stream /\ x.branch = y.branch /\ x.version = y.version

\* The tables, the transaction and the histories have their types.
TypeOK ==
  /\ streams \subseteq StreamId
  /\ events \subseteq Row
  /\ tx \in Tx \cup {NoTx}
  /\ seen \in [Client -> Nat \cup {-1}]
  /\ acked \subseteq EventId
  /\ purges \subseteq [row : Row, audit : AuditId]

\* An id that append, append_if or append_batch returned in Ok names an event
\* that is in the store, unless it was purged since: INSERT OR IGNORE never
\* drops an event for any other reason than that its id is already there.
AckedStored == acked \subseteq Ids(events) \cup Ids(PurgedRows)

\* No id names two events, and no slot of a stream and branch holds two.
Unique ==
  \A x, y \in events : x.id = y.id \/ SameSlot(x, y) => x = y

\* The versions of a stream and branch have no hole but where an event was
\* purged: a refused, ignored or rolled back append consumes no version.
GaplessUnlessPurged ==
  \A r \in events : \A v \in 0 .. r.version :
    \E x \in events \cup PurgedRows :
      x.stream = r.stream /\ x.branch = r.branch /\ x.version = v

\* A row leaves the store only through purge_event, and in the same instant
\* the audit event that records its removal joins the store.
RemovalAudited ==
  [][\A r \in events \ events' : \E p \in purges' :
       p.row = r /\ p.audit \in Ids(events')]_vars

\* A compare-and-swap append_if that stores its event stores it right after the
\* version its caller read, whatever others committed since.
NoLostUpdate ==
  [][\A c \in Client, r \in events' \ events :
       tx # NoTx /\ tx.owner = c /\ tx.op = "append_if"
         => r.version = tx.expected + 1]_vars

\* What the specification says of versions ("monotonic per stream and
\* branch"): a slot that was assigned to an event is never given to another.
VersionsNeverReused ==
  \A x, y \in events \cup PurgedRows : SameSlot(x, y) => x = y

-----------------------------------------------------------------------------
(* The store as the abstract log of EventLog. *)

Keys == StreamId \X Branch
RowsOf(rows, k) == {r \in rows : r.stream = k[1] /\ r.branch = k[2]}

\* The ids of the rows of one key by rising version.
Rank(own, r) == Cardinality({x \in own : x.version <= r.version})
RowAt(own, i) == CHOOSE r \in own : Rank(own, r) = i
IdsByVersion(own) == [i \in 1 .. Cardinality(own) |-> RowAt(own, i).id]

LogOf(rows) == [k \in Keys |-> IdsByVersion(RowsOf(rows, k))]

Log == INSTANCE EventLog WITH
         Key <- Keys, SystemKey <- <<SystemStream, MainBranch>>,
         log <- LogOf(events)

\* The store implements the abstract log: committed transactions extend it at
\* the end, with events that were nowhere in it, or purge one event.
RefinesEventLog == Log!Spec
=============================================================================
