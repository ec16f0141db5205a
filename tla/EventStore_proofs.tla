--------------------------- MODULE EventStore_proofs ---------------------------
(***************************************************************************)
(* Proofs of the safety properties of EventStore, for every set of         *)
(* clients, streams, branches and ids and every length of batches.         *)
(*                                                                         *)
(* The properties speak of committed rows. What makes them inductive is    *)
(* that the open transaction keeps them of its own view of the tables      *)
(* (TxInv), so that COMMIT can publish that view. The versions of a view   *)
(* are bounded, hence MAX(version) exists and the version assigned next is *)
(* above all others: INSERT OR IGNORE can only meet a conflict of ids.     *)
(*                                                                         *)
(* The refinement of EventLog is proved at the end. The rank of a row      *)
(* among those of its stream and branch is a bijection onto 1 .. n, so     *)
(* that a key reads as a sequence; rows above all others extend it, and    *)
(* taking one out is RemoveAt.                                             *)
(***************************************************************************)
EXTENDS EventStore, TLAPS, SequenceTheorems, FiniteSetTheorems, WellFoundedInduction

\* What MAX(version) relies on in append_impl: a bounded set of versions has a
\* greatest one.
LEMMA BoundedHasMax ==
  ASSUME NEW V \in SUBSET Nat, V # {}, NEW n \in Nat, \A v \in V : v <= n
  PROVE  \E m \in V : \A v \in V : v <= m
<1> DEFINE U == {k \in Nat : \A v \in V : v <= k}
<1>1. PICK m \in U : \A k \in U : ~ (<<k, m>> \in OpToRel(<, Nat))
  <2>1. U # {} /\ U \subseteq Nat
    OBVIOUS
  <2> QED
    BY <2>1, NatLessThanWellFounded, WFMin
<1>2. m \in Nat /\ \A v \in V : v <= m
  OBVIOUS
<1>3. \A k \in U : ~ (k < m)
  BY <1>1, <1>2 DEF OpToRel
<1>4. ASSUME m \notin V PROVE FALSE
  <2>1. \A v \in V : v \in Nat /\ v < m
    BY <1>2, <1>4
  <2>2. m # 0
    <3>1. PICK v \in V : TRUE
      OBVIOUS
    <3> QED
      BY <2>1, <3>1
  <2>3. m - 1 \in U
    BY <1>2, <2>1, <2>2
  <2> QED
    BY <1>2, <1>3, <2>3
<1> QED
  BY <1>2, <1>4

Bounded(rows) == \E n \in Nat : \A r \in rows : r.version <= n

UniqueIn(rows) == \A x, y \in rows : x.id = y.id \/ SameSlot(x, y) => x = y

\* Versions below that of a row of `rows` are in `rows` or in `gone`.
GaplessIn(rows, gone) ==
  \A r \in rows : \A v \in 0 .. r.version :
    \E x \in rows \cup gone :
      x.stream = r.stream /\ x.branch = r.branch /\ x.version = v

TxPurgedRows == {p.row : p \in tx.purged}

\* The committed rows are in the view of the transaction, but the purged one.
Keeps == events \subseteq tx.rows \cup TxPurgedRows

\* The ids to be returned are in the view.
Returns == \A i \in DOMAIN tx.ids : tx.ids[i] \in Ids(tx.rows)

\* The audit event of a purge is in the view.
Audits == \A p \in tx.purged : p.audit \in Ids(tx.rows)

\* An append_if has one item, and assigns the version after the expected one.
Swaps ==
  tx.op = "append_if" =>
    /\ tx.todo # << >> => tx.rows = events
    /\ tx.todo # << >> => Tail(tx.todo) = << >>
    /\ \A r \in tx.rows \ events : r.version = tx.expected + 1

TxInv ==
  tx # NoTx =>
    /\ Bounded(tx.rows)
    /\ UniqueIn(tx.rows)
    /\ GaplessIn(tx.rows, PurgedRows \cup TxPurgedRows)
    /\ Keeps
    /\ Returns
    /\ Audits
    /\ Swaps

IInv ==
  /\ TypeOK
  /\ Bounded(events)
  /\ Unique
  /\ GaplessUnlessPurged
  /\ AckedStored
  /\ TxInv

-----------------------------------------------------------------------------
(* Lemmas about the queries and the insert. *)

\* MAX(version) of a bounded set of rows: -1, or the highest version there.
LEMMA MaxVersionIsMax ==
  ASSUME NEW rows \in SUBSET Row, Bounded(rows), NEW s, NEW b
  PROVE  /\ MaxVersion(rows, s, b) \in Nat \cup {-1}
         /\ \A r \in rows : r.stream = s /\ r.branch = b
                              => r.version <= MaxVersion(rows, s, b)
         /\ MaxVersion(rows, s, b) # -1 =>
              \E r \in rows : /\ r.stream = s /\ r.branch = b
                              /\ r.version = MaxVersion(rows, s, b)
<1> DEFINE V == Versions(rows, s, b)
<1>1. V \subseteq Nat
  BY DEF Versions, Row
<1>2. \A r \in rows : r.stream = s /\ r.branch = b => r.version \in V
  BY DEF Versions
<1>3. \A v \in V : \E r \in rows : r.stream = s /\ r.branch = b /\ r.version = v
  BY DEF Versions
<1>4. CASE V = {}
  <2>1. MaxVersion(rows, s, b) = -1
    BY <1>4 DEF MaxVersion
  <2> QED
    BY <2>1, <1>2, <1>4
<1>5. CASE V # {}
  <2>1. PICK n \in Nat : \A r \in rows : r.version <= n
    BY DEF Bounded
  <2>2. \A v \in V : v <= n
    BY <2>1, <1>3
  <2>3. \E m \in V : \A v \in V : v <= m
    <3> HIDE DEF V
    <3> QED
      BY <1>1, <1>5, <2>2, BoundedHasMax
  <2>4. MaxVersion(rows, s, b) = CHOOSE m \in V : \A v \in V : v <= m
    BY <1>5 DEF MaxVersion
  <2>5. MaxVersion(rows, s, b) \in V
    /\ \A v \in V : v <= MaxVersion(rows, s, b)
    <3> HIDE DEF V
    <3> QED
      BY <2>3, <2>4
  <2> QED
    BY <2>5, <1>1, <1>2, <1>3
<1> QED
  BY <1>4, <1>5

\* The row that is to be inserted has a version above all others of its stream
\* and branch, so that only its id can conflict.
LEMMA InsertIgnoresOnlyKnownIds ==
  ASSUME NEW rows \in SUBSET Row, Bounded(rows),
         NEW id \in EventId \cup AuditId, NEW s \in StreamId, NEW b \in Branch,
         NEW new, new = NewRow(rows, id, s, b)
  PROVE  /\ new \in Row
         /\ new.version = MaxVersion(rows, s, b) + 1
         /\ \A r \in rows : r.stream = s /\ r.branch = b => r.version < new.version
         /\ id \in Ids(rows) => InsertOrIgnore(rows, new) = rows
         /\ id \notin Ids(rows) => InsertOrIgnore(rows, new) = rows \cup {new}
<1>1. /\ MaxVersion(rows, s, b) \in Nat \cup {-1}
      /\ \A r \in rows : r.stream = s /\ r.branch = b
                           => r.version <= MaxVersion(rows, s, b)
  BY MaxVersionIsMax
<1>2. new.version = MaxVersion(rows, s, b) + 1 /\ new \in Row
  BY <1>1 DEF NewRow, NextVersion, Row
<1>3. \A r \in rows : r.stream = s /\ r.branch = b => r.version < new.version
  BY <1>1, <1>2 DEF Row
<1>4. new.id = id /\ new.stream = s /\ new.branch = b
  BY DEF NewRow
<1>5. Conflicts(rows, new) <=> id \in Ids(rows)
  BY <1>2, <1>3, <1>4 DEF Conflicts, Ids, Row
<1> QED
  BY <1>2, <1>3, <1>5 DEF InsertOrIgnore

\* What an insert keeps of a set of rows. It always leaves the id in the set.
LEMMA InsertKeeps ==
  ASSUME NEW rows \in SUBSET Row, Bounded(rows), NEW gone,
         UniqueIn(rows), GaplessIn(rows, gone),
         NEW id \in EventId \cup AuditId, NEW s \in StreamId, NEW b \in Branch
  PROVE  LET after == InsertOrIgnore(rows, NewRow(rows, id, s, b)) IN
         /\ after \in SUBSET Row
         /\ rows \subseteq after
         /\ id \in Ids(after)
         /\ Bounded(after)
         /\ UniqueIn(after)
         /\ GaplessIn(after, gone)
<1> DEFINE new == NewRow(rows, id, s, b)
           after == InsertOrIgnore(rows, new)
<1>1. /\ new \in Row
      /\ new.version = MaxVersion(rows, s, b) + 1
      /\ \A r \in rows : r.stream = s /\ r.branch = b => r.version < new.version
      /\ id \in Ids(rows) => after = rows
      /\ id \notin Ids(rows) => after = rows \cup {new}
  BY InsertIgnoresOnlyKnownIds
<1>2. new.id = id /\ new.stream = s /\ new.branch = b
  BY DEF NewRow
<1>3. CASE id \in Ids(rows)
  BY <1>1, <1>3
<1>4. CASE id \notin Ids(rows)
  <2>1. after = rows \cup {new}
    BY <1>1, <1>4
  <2> HIDE DEF after, new
  <2>2. id \in Ids(after)
    BY <2>1, <1>2 DEF Ids
  <2>3. Bounded(after)
    <3>1. PICK n \in Nat : \A r \in rows : r.version <= n
      BY DEF Bounded
    <3>2. PICK m \in Nat : n <= m /\ new.version <= m
      <4>1. new.version \in Nat
        BY <1>1 DEF Row
      <4> QED
        BY <4>1
    <3>3. \A r \in after : r.version <= m
      BY <2>1, <3>1, <3>2 DEF Row
    <3> QED
      BY <3>3 DEF Bounded
  <2>4. UniqueIn(after)
    BY <2>1, <1>1, <1>2, <1>4 DEF UniqueIn, SameSlot, Ids, Row
  <2>5. GaplessIn(after, gone)
    <3> SUFFICES ASSUME NEW r \in after, NEW v \in 0 .. r.version
                 PROVE  \E x \in after \cup gone :
                          x.stream = r.stream /\ x.branch = r.branch /\ x.version = v
      BY DEF GaplessIn
    <3>1. CASE r \in rows
      BY <3>1, <2>1 DEF GaplessIn
    <3>2. CASE r = new /\ v = new.version
      BY <3>2, <2>1
    <3>3. CASE r = new /\ v # new.version
      <4>1. v \in 0 .. MaxVersion(rows, s, b) /\ MaxVersion(rows, s, b) # -1
        BY <3>3, <1>1, MaxVersionIsMax
      <4>2. PICK top \in rows : /\ top.stream = s /\ top.branch = b
                                /\ top.version = MaxVersion(rows, s, b)
        BY <4>1, MaxVersionIsMax
      <4>3. \E x \in rows \cup gone :
              x.stream = top.stream /\ x.branch = top.branch /\ x.version = v
        BY <4>1, <4>2 DEF GaplessIn
      <4> QED
        BY <4>2, <4>3, <3>3, <2>1, <1>2
    <3> QED
      BY <3>1, <3>2, <3>3, <2>1
  <2> QED
    <3>1. rows \subseteq after /\ after \in SUBSET Row
      BY <2>1, <1>1
    <3> QED
      BY <3>1, <2>2, <2>3, <2>4, <2>5 DEF after, new
<1> QED
  BY <1>3, <1>4

-----------------------------------------------------------------------------
(* The inductive invariant. *)

LEMMA OwnedTx ==
  ASSUME TypeOK, NEW c \in Client, tx.owner = c
  PROVE  tx \in Tx /\ tx # NoTx
BY NoneAssumption DEF TypeOK, NoTx

\* A step that leaves the committed tables and the histories alone.
LEMMA TablesUnchanged ==
  ASSUME IInv, UNCHANGED <<events, acked, purges>>, TypeOK', TxInv'
  PROVE  IInv'
BY DEF IInv, Unique, UniqueIn, GaplessUnlessPurged, AckedStored, Bounded,
       PurgedRows, Ids, SameSlot

LEMMA NoTxInv == ASSUME tx' = NoTx PROVE TxInv'
BY DEF TxInv

LEMMA InitIInv == Init => IInv
<1> SUFFICES ASSUME Init PROVE IInv
  OBVIOUS
<1>1. TypeOK
  BY SystemAssumption DEF Init, TypeOK
<1>2. Bounded(events)
  BY DEF Init, Bounded
<1>3. Unique /\ GaplessUnlessPurged /\ AckedStored
  BY DEF Init, Unique, GaplessUnlessPurged, AckedStored
<1>4. TxInv
  BY DEF Init, TxInv
<1> QED
  BY <1>1, <1>2, <1>3, <1>4 DEF IInv

LEMMA DeclareStreamIInv ==
  ASSUME IInv, NEW s \in StreamId, DeclareStream(s)
  PROVE  IInv'
<1>1. TypeOK'
  BY DEF IInv, TypeOK, DeclareStream
<1>2. TxInv'
  BY NoTxInv DEF DeclareStream
<1> QED
  BY <1>1, <1>2, TablesUnchanged DEF DeclareStream

LEMMA ReadVersionIInv ==
  ASSUME IInv, NEW c \in Client, NEW s \in StreamId, NEW b \in Branch,
         ReadVersion(c, s, b)
  PROVE  IInv'
<1>1. TypeOK'
  <2>1. MaxVersion(events, s, b) \in Nat \cup {-1}
    BY MaxVersionIsMax DEF IInv, TypeOK
  <2> QED
    BY <2>1 DEF IInv, TypeOK, ReadVersion
<1>2. TxInv'
  BY DEF IInv, TxInv, ReadVersion, Bounded, UniqueIn, GaplessIn, Keeps, Returns,
         Audits, Swaps, TxPurgedRows, PurgedRows, Ids, SameSlot
<1> QED
  BY <1>1, <1>2, TablesUnchanged DEF ReadVersion

LEMMA BeginIInv ==
  ASSUME IInv, NEW c \in Client, NEW op \in {"append", "append_if", "append_batch"},
         NEW todo \in Seq(Request), op = "append_if" => Tail(todo) = << >>,
         Begin(c, op, todo)
  PROVE  IInv'
<1>1. TypeOK'
  <2>1. tx' \in Tx
    <3>1. seen[c] \in Nat \cup {-1} /\ events \in SUBSET Row
      BY DEF IInv, TypeOK
    <3>2. << >> \in Seq(EventId)
      OBVIOUS
    <3> QED
      BY <3>1, <3>2 DEF Begin, Tx, Op
  <2> QED
    BY <2>1 DEF IInv, TypeOK, Begin
<1>2. TxInv'
  <2>1. UniqueIn(events) /\ Bounded(events)
    BY DEF IInv, Unique, UniqueIn
  <2>2. GaplessIn(events, PurgedRows)
    BY DEF IInv, GaplessUnlessPurged, GaplessIn
  <2>3. /\ tx'.rows = events /\ tx'.ids = << >> /\ tx'.purged = {}
        /\ tx'.op = op /\ tx'.todo = todo
        /\ events' = events /\ purges' = purges
    BY DEF Begin
  <2>4. UniqueIn(tx'.rows) /\ Bounded(tx'.rows)
    BY <2>1, <2>3
  <2>5. TxPurgedRows' = {} /\ PurgedRows' = PurgedRows
    BY <2>3 DEF TxPurgedRows, PurgedRows
  <2>6. GaplessIn(tx'.rows, PurgedRows' \cup TxPurgedRows')
    BY <2>2, <2>3, <2>5
  <2>7. Keeps' /\ Returns' /\ Audits'
    BY <2>3 DEF Keeps, Returns, Audits
  <2>8. Swaps'
    BY <2>3 DEF Swaps
  <2> QED
    BY <2>4, <2>6, <2>7, <2>8 DEF TxInv, UniqueIn, Bounded, GaplessIn
<1> QED
  BY <1>1, <1>2, TablesUnchanged DEF Begin

LEMMA InsertIInv ==
  ASSUME IInv, NEW c \in Client, Insert(c)
  PROVE  IInv'
<1> DEFINE a == Head(tx.todo)
           new == NewRow(tx.rows, a.id, a.stream, a.branch)
<1>1. tx \in Tx /\ tx # NoTx
  BY OwnedTx DEF IInv, Insert
<1>2. a \in Request /\ Tail(tx.todo) \in Seq(Request)
  BY <1>1 DEF Insert, Tx
<1>3. /\ a.id \in EventId \cup AuditId /\ a.id \in EventId
      /\ a.stream \in StreamId /\ a.branch \in Branch
  BY <1>2 DEF Request
<1>4. /\ tx.rows \in SUBSET Row /\ Bounded(tx.rows) /\ UniqueIn(tx.rows)
      /\ GaplessIn(tx.rows, PurgedRows \cup TxPurgedRows)
      /\ Keeps /\ Returns /\ Audits /\ Swaps
  BY <1>1 DEF IInv, TxInv, Tx
<1>5. tx' = [tx EXCEPT !.rows = InsertOrIgnore(tx.rows, new),
                       !.ids = Append(tx.ids, a.id),
                       !.todo = Tail(tx.todo)]
  BY DEF Insert
<1>6. /\ tx'.rows = InsertOrIgnore(tx.rows, new)
      /\ tx'.ids = Append(tx.ids, a.id)
      /\ tx'.todo = Tail(tx.todo)
      /\ tx'.owner = tx.owner /\ tx'.op = tx.op
      /\ tx'.expected = tx.expected /\ tx'.purged = tx.purged
  BY <1>1, <1>5 DEF Tx
<1>7. /\ tx'.rows \in SUBSET Row
      /\ tx.rows \subseteq tx'.rows
      /\ a.id \in Ids(tx'.rows)
      /\ Bounded(tx'.rows)
      /\ UniqueIn(tx'.rows)
      /\ GaplessIn(tx'.rows, PurgedRows \cup TxPurgedRows)
  <2> HIDE DEF a
  <2> QED
    BY <1>3, <1>4, <1>6, InsertKeeps
<1>8. tx' \in Tx
  <2>1. Append(tx.ids, a.id) \in Seq(EventId)
    BY <1>1, <1>3 DEF Tx
  <2> QED
    BY <1>1, <1>2, <1>5, <1>6, <1>7, <2>1 DEF Tx
<1>9. TypeOK'
  BY <1>8 DEF IInv, TypeOK, Insert
<1>10. UNCHANGED <<events, purges, acked>>
  BY DEF Insert
<1>11. TxPurgedRows' = TxPurgedRows /\ PurgedRows' = PurgedRows
  BY <1>6, <1>10 DEF TxPurgedRows, PurgedRows
<1>12. Keeps' /\ Audits'
  BY <1>4, <1>6, <1>7, <1>10, <1>11 DEF Keeps, Audits, Ids
<1>13. Returns'
  <2> SUFFICES ASSUME NEW i \in DOMAIN Append(tx.ids, a.id)
               PROVE  Append(tx.ids, a.id)[i] \in Ids(tx'.rows)
    BY <1>6 DEF Returns
  <2>1. tx.ids \in Seq(EventId)
    BY <1>1 DEF Tx
  <2>2. CASE i \in DOMAIN tx.ids
    <3>1. Append(tx.ids, a.id)[i] = tx.ids[i]
      BY <2>1, <2>2, <1>3
    <3>2. tx.ids[i] \in Ids(tx.rows)
      BY <2>2, <1>4 DEF Returns
    <3> QED
      BY <3>1, <3>2, <1>7 DEF Ids
  <2>3. CASE i \notin DOMAIN tx.ids
    <3>1. Append(tx.ids, a.id)[i] = a.id
      BY <2>1, <2>3, <1>3
    <3> QED
      BY <3>1, <1>7
  <2> QED
    BY <2>2, <2>3
<1>14. Swaps'
  <2> SUFFICES ASSUME tx.op = "append_if"
               PROVE  /\ tx'.todo = << >>
                      /\ \A r \in tx'.rows \ events : r.version = tx.expected + 1
    BY <1>6, <1>10 DEF Swaps
  <2>1. tx.rows = events /\ Tail(tx.todo) = << >>
    BY <1>4 DEF Swaps, Insert
  <2>2. MaxVersion(tx.rows, a.stream, a.branch) = tx.expected
    BY DEF Insert, ConditionHolds
  <2>3. /\ new.version = MaxVersion(tx.rows, a.stream, a.branch) + 1
        /\ tx'.rows = tx.rows \/ tx'.rows = tx.rows \cup {new}
    <3>1. new = NewRow(tx.rows, a.id, a.stream, a.branch)
      OBVIOUS
    <3> HIDE DEF a, new
    <3> QED
      BY <1>3, <1>4, <1>6, <3>1, InsertIgnoresOnlyKnownIds
  <2> HIDE DEF a, new
  <2>4. tx'.todo = << >>
    BY <1>6, <2>1
  <2> QED
    BY <2>1, <2>2, <2>3, <2>4
<1>15. TxInv'
  BY <1>7, <1>11, <1>12, <1>13, <1>14 DEF TxInv, Bounded, UniqueIn, GaplessIn
<1> QED
  BY <1>9, <1>10, <1>15, TablesUnchanged

LEMMA RefuseIInv ==
  ASSUME IInv, NEW c \in Client, Refuse(c) \/ Rollback(c)
  PROVE  IInv'
<1>1. TypeOK' /\ UNCHANGED <<events, purges, acked>>
  BY DEF IInv, TypeOK, Refuse, Rollback
<1>2. TxInv'
  BY NoTxInv DEF Refuse, Rollback
<1> QED
  BY <1>1, <1>2, TablesUnchanged

\* The view that a purge or an emit builds in one step: the committed rows and
\* an audit event.
LEMMA WithAudit ==
  ASSUME IInv, NEW id \in AuditId
  PROVE  LET after == InsertOrIgnore(events, NewRow(events, id, SystemStream, MainBranch))
         IN /\ after \in SUBSET Row
            /\ events \subseteq after
            /\ id \in Ids(after)
            /\ Bounded(after)
            /\ UniqueIn(after)
            /\ GaplessIn(after, PurgedRows)
<1>1. events \in SUBSET Row /\ Bounded(events)
  BY DEF IInv, TypeOK
<1>2. UniqueIn(events) /\ GaplessIn(events, PurgedRows)
  BY DEF IInv, Unique, UniqueIn, GaplessUnlessPurged, GaplessIn
<1> QED
  BY <1>1, <1>2, InsertKeeps, SystemAssumption

LEMMA EmitSystemIInv ==
  ASSUME IInv, NEW c \in Client, NEW id \in AuditId, EmitSystem(c, id)
  PROVE  IInv'
<1> DEFINE after == InsertOrIgnore(events, NewRow(events, id, SystemStream, MainBranch))
<1>1. /\ after \in SUBSET Row /\ events \subseteq after
      /\ Bounded(after) /\ UniqueIn(after) /\ GaplessIn(after, PurgedRows)
  BY WithAudit
<1>2. /\ tx' = [owner |-> c, op |-> "system", todo |-> << >>, rows |-> after,
                ids |-> << >>, expected |-> -1, purged |-> {}]
      /\ UNCHANGED <<streams, events, seen, acked, purges>>
  BY DEF EmitSystem
<1> HIDE DEF after
<1>3. TypeOK'
  <2>1. << >> \in Seq(Request) /\ << >> \in Seq(EventId)
    OBVIOUS
  <2>2. tx' \in Tx
    BY <2>1, <1>1, <1>2 DEF Tx, Op
  <2> QED
    BY <2>2, <1>2 DEF IInv, TypeOK
<1>4. TxPurgedRows' = {} /\ PurgedRows' = PurgedRows
  BY <1>2 DEF TxPurgedRows, PurgedRows
<1>5. /\ Bounded(tx'.rows) /\ UniqueIn(tx'.rows)
      /\ GaplessIn(tx'.rows, PurgedRows' \cup TxPurgedRows')
  BY <1>1, <1>2, <1>4
<1>6. Keeps' /\ Returns' /\ Audits' /\ Swaps'
  BY <1>1, <1>2 DEF Keeps, Returns, Audits, Swaps
<1>7. TxInv'
  BY <1>5, <1>6 DEF TxInv, Bounded, UniqueIn, GaplessIn
<1> QED
  BY <1>2, <1>3, <1>7, TablesUnchanged

LEMMA PurgeIInv ==
  ASSUME IInv, NEW c \in Client, NEW r \in events, NEW audit \in AuditId,
         Purge(c, r, audit)
  PROVE  IInv'
<1> DEFINE after == InsertOrIgnore(events, NewRow(events, audit, SystemStream, MainBranch))
<1>1. /\ after \in SUBSET Row /\ events \subseteq after /\ audit \in Ids(after)
      /\ Bounded(after) /\ UniqueIn(after) /\ GaplessIn(after, PurgedRows)
  BY WithAudit
<1>2. /\ tx' = [owner |-> c, op |-> "purge", todo |-> << >>, rows |-> after \ {r},
                ids |-> << >>, expected |-> -1,
                purged |-> {[row |-> r, audit |-> audit]}]
      /\ UNCHANGED <<streams, events, seen, acked, purges>>
  BY DEF Purge
<1>3. r.id # audit
  BY DEF Purge, Ids
<1> HIDE DEF after
<1>4. TypeOK'
  <2>1. << >> \in Seq(Request) /\ << >> \in Seq(EventId)
    OBVIOUS
  <2>2. tx' \in Tx
    BY <2>1, <1>1, <1>2 DEF Tx, Op
  <2> QED
    BY <2>2, <1>2 DEF IInv, TypeOK
<1>5. TxPurgedRows' = {r} /\ PurgedRows' = PurgedRows
  BY <1>2 DEF TxPurgedRows, PurgedRows
<1>6. Bounded(tx'.rows) /\ UniqueIn(tx'.rows)
  BY <1>1, <1>2 DEF Bounded, UniqueIn
<1>7. GaplessIn(tx'.rows, PurgedRows' \cup TxPurgedRows')
  BY <1>1, <1>2, <1>5 DEF GaplessIn
<1>8. Audits'
  BY <1>1, <1>2, <1>3 DEF Audits, Ids
<1>9. Keeps' /\ Returns' /\ Swaps'
  BY <1>1, <1>2, <1>5 DEF Keeps, Returns, Swaps
<1>10. TxInv'
  BY <1>6, <1>7, <1>8, <1>9 DEF TxInv, Bounded, UniqueIn, GaplessIn
<1> QED
  BY <1>2, <1>4, <1>10, TablesUnchanged

LEMMA CommitIInv ==
  ASSUME IInv, NEW c \in Client, Commit(c)
  PROVE  IInv'
<1>1. tx \in Tx /\ tx # NoTx
  BY OwnedTx DEF IInv, Commit
<1>2. /\ tx.rows \in SUBSET Row /\ Bounded(tx.rows) /\ UniqueIn(tx.rows)
      /\ GaplessIn(tx.rows, PurgedRows \cup TxPurgedRows)
      /\ Keeps /\ Returns
  BY <1>1 DEF IInv, TxInv, Tx
<1>3. /\ events' = tx.rows /\ tx' = NoTx
      /\ acked' = acked \cup {tx.ids[i] : i \in DOMAIN tx.ids}
  BY DEF Commit
<1>4. PurgedRows' = PurgedRows \cup TxPurgedRows
  BY DEF Commit, PurgedRows, TxPurgedRows
<1>5. TypeOK'
  <2>1. \A i \in DOMAIN tx.ids : tx.ids[i] \in EventId
    BY <1>1 DEF Tx
  <2>2. tx.purged \subseteq [row : Row, audit : AuditId]
    BY <1>1 DEF Tx
  <2> QED
    BY <1>2, <1>3, <2>1, <2>2 DEF IInv, TypeOK, Commit
<1>6. Bounded(events')
  BY <1>2, <1>3
<1>7. Unique'
  BY <1>2, <1>3 DEF UniqueIn, Unique, SameSlot
<1>8. GaplessUnlessPurged'
  BY <1>2, <1>3, <1>4 DEF GaplessIn, GaplessUnlessPurged
<1>9. AckedStored'
  <2>1. Ids(events) \subseteq Ids(events') \cup Ids(PurgedRows')
    BY <1>2, <1>3, <1>4 DEF Keeps, Ids
  <2>2. Ids(PurgedRows) \subseteq Ids(PurgedRows')
    BY <1>4 DEF Ids
  <2>3. {tx.ids[i] : i \in DOMAIN tx.ids} \subseteq Ids(events')
    BY <1>2, <1>3 DEF Returns
  <2>4. acked \subseteq Ids(events) \cup Ids(PurgedRows)
    BY DEF IInv, AckedStored
  <2>5. acked' \subseteq Ids(events') \cup Ids(PurgedRows')
    BY <1>3, <2>1, <2>2, <2>3, <2>4
  <2> QED
    BY <2>5 DEF AckedStored, Ids
<1>10. TxInv'
  BY <1>3, NoTxInv
<1> QED
  BY <1>5, <1>6, <1>7, <1>8, <1>9, <1>10 DEF IInv, Bounded

\* Only Begin, Purge and EmitSystem open a transaction, and only Commit
\* changes the tables.
LEMMA NextIInv == IInv /\ [Next]_vars => IInv'
<1> SUFFICES ASSUME IInv, [Next]_vars PROVE IInv'
  OBVIOUS
<1>1. ASSUME NEW s \in StreamId, DeclareStream(s) PROVE IInv'
  BY <1>1, DeclareStreamIInv
<1>2. ASSUME NEW c \in Client, AppendNext(c) PROVE IInv'
  <2>1. ASSUME NEW s \in StreamId, NEW b \in Branch, ReadVersion(c, s, b) PROVE IInv'
    BY <2>1, ReadVersionIInv
  <2>2. ASSUME NEW a \in Request, BeginAppend(c, a) \/ BeginAppendIf(c, a) PROVE IInv'
    <3>1. <<a>> \in Seq(Request) /\ Tail(<<a>>) = << >>
      OBVIOUS
    <3> QED
      BY <2>2, <3>1, BeginIInv DEF BeginAppend, BeginAppendIf
  <2>3. ASSUME NEW n \in 1 .. MaxBatch, NEW as \in [1 .. n -> Request],
               BeginAppendBatch(c, as)
        PROVE  IInv'
    <3>1. n \in Nat
      BY MaxBatchAssumption
    <3>2. as \in Seq(Request)
      <4>1. Seq(Request) = UNION {[1 .. m -> Request] : m \in Nat}
        BY SeqDef, Zenon
      <4> QED
        BY <3>1, <4>1
    <3> QED
      BY <2>3, <3>2, BeginIInv DEF BeginAppendBatch
  <2>4. CASE Insert(c)
    BY <2>4, InsertIInv
  <2>5. CASE Refuse(c) \/ Rollback(c)
    BY <2>5, RefuseIInv
  <2>6. CASE Commit(c)
    BY <2>6, CommitIInv
  <2>7. ASSUME NEW id \in AuditId, EmitSystem(c, id) PROVE IInv'
    BY <2>7, EmitSystemIInv
  <2> QED
    BY <1>2, <2>1, <2>2, <2>3, <2>4, <2>5, <2>6, <2>7 DEF AppendNext
<1>3. ASSUME NEW c \in Client, PurgeNext(c) PROVE IInv'
  BY <1>3, PurgeIInv DEF PurgeNext
<1>4. CASE UNCHANGED vars
  BY <1>4 DEF vars, IInv, TypeOK, Bounded, Unique, GaplessUnlessPurged, AckedStored,
              TxInv, UniqueIn, GaplessIn, Keeps, Returns, Audits, Swaps, TxPurgedRows,
              PurgedRows, Ids, SameSlot
<1> QED
  BY <1>1, <1>2, <1>3, <1>4 DEF Next

\* The strengthened invariant of all write transactions (append.rs,
\* deletion.rs, system_stream.rs) from which the theorems below follow.
THEOREM Invariant == Spec => []IInv
<1>1. Init => IInv
  BY InitIInv
<1>2. IInv /\ [Next]_vars => IInv'
  BY NextIInv
<1> QED
  BY <1>1, <1>2, PTL DEF Spec

-----------------------------------------------------------------------------
(* The properties. *)

\* The tables and the open transaction always have their types.
THEOREM TypeCorrect == Spec => []TypeOK
<1>1. IInv => TypeOK
  BY DEF IInv
<1> QED
  BY <1>1, Invariant, PTL

\* PRIMARY KEY (id) and UNIQUE (stream_id, branch, version) hold of the
\* committed rows whatever transactions interleave.
THEOREM UniqueHolds == Spec => []Unique
<1>1. IInv => Unique
  BY DEF IInv
<1> QED
  BY <1>1, Invariant, PTL

\* An id that append, append_if or append_batch returned in Ok is stored, or
\* was purged: INSERT OR IGNORE never loses an acknowledged event.
THEOREM AckedStoredHolds == Spec => []AckedStored
<1>1. IInv => AckedStored
  BY DEF IInv
<1> QED
  BY <1>1, Invariant, PTL

\* The versions of a stream and branch have no hole but where purge_event made
\* one, so that replaying a stream misses no event.
THEOREM GaplessHolds == Spec => []GaplessUnlessPurged
<1>1. IInv => GaplessUnlessPurged
  BY DEF IInv
<1> QED
  BY <1>1, Invariant, PTL

\* The committed rows change in no step but a commit.
LEMMA OnlyCommitChangesEvents ==
  ASSUME [Next]_vars, events' # events
  PROVE  \E c \in Client : Commit(c)
BY DEF Next, AppendNext, PurgeNext, DeclareStream, ReadVersion, BeginAppend,
       BeginAppendIf, BeginAppendBatch, Begin, Insert, Refuse, Rollback, Purge,
       EmitSystem, vars

\* No row leaves the events table but through purge_event, together with the
\* arrival of the audit event that records it.
THEOREM RemovalAuditedHolds == Spec => RemovalAudited
<1> DEFINE Removal == \A r \in events \ events' : \E p \in purges' :
                        p.row = r /\ p.audit \in Ids(events')
<1>1. IInv /\ [Next]_vars => [Removal]_vars
  <2> SUFFICES ASSUME IInv, [Next]_vars, NEW r \in events \ events'
               PROVE  \E p \in purges' : p.row = r /\ p.audit \in Ids(events')
    OBVIOUS
  <2>1. PICK c \in Client : Commit(c)
    BY OnlyCommitChangesEvents
  <2>2. Keeps /\ Audits
    BY <2>1, OwnedTx DEF IInv, TxInv, Commit
  <2>3. PICK p \in tx.purged : p.row = r
    BY <2>1, <2>2 DEF Keeps, TxPurgedRows, Commit
  <2> QED
    BY <2>1, <2>2, <2>3 DEF Audits, Commit
<1>2. RemovalAudited <=> [][Removal]_vars
  BY DEF RemovalAudited
<1> HIDE DEF Removal
<1> QED
  BY <1>1, <1>2, Invariant, PTL DEF Spec

\* append_if used as compare-and-swap on the version stores its event right
\* after the version that its caller read, whatever was committed in between.
THEOREM NoLostUpdateHolds == Spec => NoLostUpdate
<1> DEFINE Swap == \A c \in Client, r \in events' \ events :
                     tx # NoTx /\ tx.owner = c /\ tx.op = "append_if"
                       => r.version = tx.expected + 1
<1>1. IInv /\ [Next]_vars => [Swap]_vars
  <2> SUFFICES ASSUME IInv, [Next]_vars, NEW r \in events' \ events,
                      tx # NoTx, tx.op = "append_if"
               PROVE  r.version = tx.expected + 1
    OBVIOUS
  <2>1. events' = tx.rows
    BY OnlyCommitChangesEvents DEF Commit
  <2> QED
    BY <2>1 DEF IInv, TxInv, Swaps
<1>2. NoLostUpdate <=> [][Swap]_vars
  BY DEF NoLostUpdate
<1> HIDE DEF Swap
<1> QED
  BY <1>1, <1>2, Invariant, PTL DEF Spec

-----------------------------------------------------------------------------
(* The rows of a key, one after the other. *)

\* The rows of one stream and branch: no two of one version.
Slots(S) ==
  /\ IsFiniteSet(S)
  /\ \A x \in S : x.version \in Nat
  /\ \A x, y \in S : x.version = y.version => x = y

\* The rank of a row is the number of rows up to it: it rises with the version.
LEMMA RankRises ==
  ASSUME NEW S, Slots(S)
  PROVE  /\ Cardinality(S) \in Nat
         /\ \A r \in S : Rank(S, r) \in 1 .. Cardinality(S)
         /\ \A r, q \in S : r.version < q.version => Rank(S, r) < Rank(S, q)
         /\ \A r, q \in S : Rank(S, r) = Rank(S, q) => r = q
<1> DEFINE UpTo(r) == {x \in S : x.version <= r.version}
<1>1. IsFiniteSet(S) /\ Cardinality(S) \in Nat
  BY FS_CardinalityType DEF Slots
<1>2. ASSUME NEW r \in S
      PROVE  /\ IsFiniteSet(UpTo(r)) /\ Cardinality(UpTo(r)) \in Nat
             /\ Cardinality(UpTo(r)) \in 1 .. Cardinality(S)
  <2>1. UpTo(r) \in SUBSET S /\ r \in UpTo(r)
    BY DEF Slots
  <2>2. IsFiniteSet(UpTo(r)) /\ Cardinality(UpTo(r)) <= Cardinality(S)
    BY <1>1, <2>1, FS_Subset
  <2>3. Cardinality(UpTo(r)) \in Nat
    BY <2>2, FS_CardinalityType
  <2>4. Cardinality(UpTo(r)) # 0
    BY <2>1, <2>2, FS_EmptySet
  <2> QED
    BY <1>1, <2>2, <2>3, <2>4
<1>3. ASSUME NEW r \in S, NEW q \in S, r.version < q.version
      PROVE  Cardinality(UpTo(r)) < Cardinality(UpTo(q))
  <2>1. r.version \in Nat /\ q.version \in Nat /\ \A x \in S : x.version \in Nat
    BY DEF Slots
  <2>2. UpTo(r) \in SUBSET UpTo(q)
    BY <1>3, <2>1
  <2>3. q \in UpTo(q) /\ q \notin UpTo(r)
    BY <1>3, <2>1
  <2>4. UpTo(r) # UpTo(q)
    BY <2>3
  <2> HIDE DEF UpTo
  <2>5. /\ Cardinality(UpTo(r)) <= Cardinality(UpTo(q))
        /\ Cardinality(UpTo(q)) # Cardinality(UpTo(r))
    BY <1>2, <2>2, <2>4, FS_Subset
  <2> QED
    BY <1>2, <2>5
<1>4. \A r \in S : Rank(S, r) = Cardinality(UpTo(r))
  BY DEF Rank
<1>5. \A r, q \in S : r.version < q.version => Rank(S, r) < Rank(S, q)
  BY <1>3, <1>4
<1>6. \A r \in S : Rank(S, r) \in 1 .. Cardinality(S)
  BY <1>2, <1>4
<1>7. ASSUME NEW r \in S, NEW q \in S, Rank(S, r) = Rank(S, q) PROVE r = q
  <2>1. ~ (r.version < q.version) /\ ~ (q.version < r.version)
    BY <1>5, <1>6, <1>7
  <2>2. r.version \in Nat /\ q.version \in Nat
    BY DEF Slots
  <2>3. r.version = q.version
    BY <2>1, <2>2
  <2> QED
    BY <2>3 DEF Slots
<1> QED
  BY <1>1, <1>5, <1>6, <1>7

\* Every rank is that of one row.
LEMMA RowAtIs ==
  ASSUME NEW S, Slots(S)
  PROVE  /\ \A i \in 1 .. Cardinality(S) : RowAt(S, i) \in S /\ Rank(S, RowAt(S, i)) = i
         /\ \A r \in S : RowAt(S, Rank(S, r)) = r
<1> DEFINE n == Cardinality(S)
           f == [r \in S |-> Rank(S, r)]
<1>1. /\ n \in Nat /\ \A r \in S : Rank(S, r) \in 1 .. n
      /\ \A r, q \in S : Rank(S, r) = Rank(S, q) => r = q
  BY RankRises
<1>2. f \in Injection(S, 1 .. n)
  BY <1>1 DEF Injection, IsInjective
<1>3. IsFiniteSet(1 .. n) /\ Cardinality(1 .. n) = n
  BY <1>1, FS_Interval
<1>4. f \in Surjection(S, 1 .. n)
  <2> HIDE DEF f
  <2> QED
    BY <1>2, <1>3, FS_Injection
<1>5. \A i \in 1 .. n : \E r \in S : Rank(S, r) = i
  BY <1>4 DEF Surjection
<1>6. \A i \in 1 .. n : RowAt(S, i) \in S /\ Rank(S, RowAt(S, i)) = i
  <2> HIDE DEF n
  <2> QED
    BY <1>5 DEF RowAt
<1> QED
  BY <1>1, <1>6

\* Rows above all others leave the order of those as it is.
LEMMA RowAtBelow ==
  ASSUME NEW T, Slots(T), NEW S \in SUBSET T,
         \A r \in T \ S, x \in S : x.version < r.version
  PROVE  /\ Slots(S) /\ Cardinality(S) <= Cardinality(T)
         /\ \A r \in S : Rank(T, r) = Rank(S, r)
         /\ \A i \in 1 .. Cardinality(S) : RowAt(T, i) = RowAt(S, i)
<1>1. /\ Slots(S) /\ Cardinality(S) <= Cardinality(T)
      /\ Cardinality(S) \in Nat /\ Cardinality(T) \in Nat
  BY FS_Subset, FS_CardinalityType DEF Slots
<1>2. ASSUME NEW r \in S PROVE Rank(T, r) = Rank(S, r)
  <2>1. \A x \in T \ S : ~ (x.version <= r.version)
    BY DEF Slots
  <2>2. {x \in T : x.version <= r.version} = {x \in S : x.version <= r.version}
    BY <2>1
  <2> QED
    BY <2>2 DEF Rank
<1>3. ASSUME NEW i \in 1 .. Cardinality(S) PROVE RowAt(T, i) = RowAt(S, i)
  <2>1. RowAt(S, i) \in S /\ Rank(S, RowAt(S, i)) = i
    BY <1>1, RowAtIs
  <2>2. RowAt(S, i) \in T /\ Rank(T, RowAt(S, i)) = i
    BY <1>2, <2>1
  <2> QED
    BY <2>2, RowAtIs
<1> QED
  BY <1>1, <1>2, <1>3

\* Without one of them, those above it move down by one place.
LEMMA RowAtWithout ==
  ASSUME NEW S, Slots(S), NEW gone \in S
  PROVE  LET T == S \ {gone}
             place == Rank(S, gone)
         IN  /\ Slots(T) /\ Cardinality(T) = Cardinality(S) - 1
             /\ place \in 1 .. Cardinality(S)
             /\ \A i \in 1 .. Cardinality(T) :
                  RowAt(T, i) = RowAt(S, IF i < place THEN i ELSE i + 1)
<1> DEFINE T == S \ {gone}
           place == Rank(S, gone)
           n == Cardinality(S)
<1>1. IsFiniteSet(T) /\ Cardinality(T) = n - 1
  BY FS_RemoveElement DEF Slots
<1>2. Slots(T)
  BY <1>1 DEF Slots
<1>3. n \in Nat /\ place \in 1 .. n
  BY RankRises
<1>4. ASSUME NEW r \in T
      PROVE  Rank(T, r) = IF Rank(S, r) < place THEN Rank(S, r) ELSE Rank(S, r) - 1
  <2> DEFINE A == {x \in S : x.version <= r.version}
             B == {x \in T : x.version <= r.version}
  <2>1. r \in S /\ r # gone /\ r.version \in Nat /\ gone.version \in Nat
    BY DEF Slots
  <2>2. r.version # gone.version
    BY <2>1 DEF Slots
  <2>3. IsFiniteSet(A)
    BY FS_Subset DEF Slots
  <2>4. CASE r.version < gone.version
    <3>1. A = B
      BY <2>1, <2>4
    <3>2. Rank(S, r) < place
      BY <2>1, <2>4, RankRises
    <3> QED
      BY <3>1, <3>2 DEF Rank
  <2>5. CASE gone.version < r.version
    <3>1. B = A \ {gone} /\ gone \in A
      BY <2>1, <2>5
    <3>2. Cardinality(B) = Cardinality(A) - 1
      <4> HIDE DEF A, B
      <4> QED
        BY <2>3, <3>1, FS_RemoveElement
    <3>3. place < Rank(S, r)
      BY <2>1, <2>5, RankRises
    <3>4. ~ (Rank(S, r) < place)
      BY <1>3, <2>1, <3>3, RankRises
    <3> QED
      BY <3>2, <3>4 DEF Rank
  <2> QED
    BY <2>1, <2>2, <2>4, <2>5
<1>5. ASSUME NEW i \in 1 .. Cardinality(T)
      PROVE  RowAt(T, i) = RowAt(S, IF i < place THEN i ELSE i + 1)
  <2> DEFINE j == IF i < place THEN i ELSE i + 1
             r == RowAt(S, j)
  <2>1. j \in 1 .. n /\ j # place
    BY <1>1, <1>3
  <2>2. r \in S /\ Rank(S, r) = j
    BY <2>1, RowAtIs
  <2>3. r \in T
    BY <2>1, <2>2
  <2>4. Rank(T, r) = i
    <3> HIDE DEF r, T
    <3> QED
      BY <1>3, <1>4, <2>2, <2>3
  <2> HIDE DEF r, T, j
  <2>5. RowAt(T, i) = r
    BY <1>2, <2>3, <2>4, RowAtIs
  <2> QED
    BY <2>5 DEF r, j
<1> QED
  BY <1>1, <1>2, <1>3, <1>5

-----------------------------------------------------------------------------
(* The ids of the rows of a key as a sequence. *)

LEMMA IdsByVersionIs ==
  ASSUME NEW S, Slots(S)
  PROVE  /\ IdsByVersion(S) \in Seq(Ids(S))
         /\ Len(IdsByVersion(S)) = Cardinality(S) /\ Cardinality(S) \in Nat
         /\ DOMAIN IdsByVersion(S) = 1 .. Cardinality(S)
         /\ \A i \in 1 .. Cardinality(S) : IdsByVersion(S)[i] = RowAt(S, i).id
<1> DEFINE n == Cardinality(S)
           s == IdsByVersion(S)
<1>1. n \in Nat /\ \A i \in 1 .. n : RowAt(S, i).id \in Ids(S)
  BY RankRises, RowAtIs DEF Ids
<1>2. s = [i \in 1 .. n |-> RowAt(S, i).id]
  BY DEF IdsByVersion
<1>3. s \in [1 .. n -> Ids(S)]
  BY <1>1, <1>2
<1> HIDE DEF n, s
<1>4. s \in Seq(Ids(S)) /\ Len(s) = n
  BY <1>1, <1>3
<1> QED
  BY <1>1, <1>2, <1>4 DEF n, s

\* A commit of rows above all others leaves a prefix of the log.
LEMMA ExtendsIds ==
  ASSUME NEW T, Slots(T), NEW S \in SUBSET T,
         \A r \in T \ S, x \in S : x.version < r.version
  PROVE  Log!IsPrefix(IdsByVersion(S), IdsByVersion(T))
<1> DEFINE s == IdsByVersion(S)
           t == IdsByVersion(T)
           X == Ids(T)
<1>1. /\ Slots(S) /\ Cardinality(S) <= Cardinality(T)
      /\ \A i \in 1 .. Cardinality(S) : RowAt(T, i) = RowAt(S, i)
  BY RowAtBelow
<1>2. /\ s \in Seq(X) /\ Len(s) = Cardinality(S) /\ Len(s) \in Nat
      /\ t \in Seq(X) /\ Len(t) = Cardinality(T) /\ Len(t) \in Nat
  <2>1. Ids(S) \subseteq X
    BY DEF Ids
  <2> QED
    BY <1>1, <2>1, IdsByVersionIs, SeqMonotonic
<1>3. \A i \in 1 .. Len(s) : s[i] = t[i]
  BY <1>1, <1>2, IdsByVersionIs
<1> HIDE DEF s, t, X
<1>4. Len(s) <= Len(t)
  BY <1>1, <1>2
<1>5. SubSeq(t, 1, Len(s)) = s
  <2>1. \A i \in 1 .. Len(s) : t[i] \in X
    BY <1>2, <1>4
  <2>2. /\ SubSeq(t, 1, Len(s)) \in Seq(X)
        /\ Len(SubSeq(t, 1, Len(s))) = Len(s)
        /\ \A i \in 1 .. Len(s) : SubSeq(t, 1, Len(s))[i] = t[i]
    BY <1>2, <2>1, SubSeqProperties
  <2> QED
    BY <1>2, <1>3, <2>2, SeqEqual
<1>6. SubSeq(s, 1, Len(s)) = s
  BY <1>2, SubSeqFull
<1> QED
  BY <1>4, <1>5, <1>6 DEF Log!IsPrefix, s, t

\* What RemoveAt does.
LEMMA RemoveAtIs ==
  ASSUME NEW X, NEW s \in Seq(X), NEW i \in 1 .. Len(s)
  PROVE  /\ Log!RemoveAt(s, i) \in Seq(X)
         /\ Len(Log!RemoveAt(s, i)) = Len(s) - 1
         /\ \A j \in 1 .. Len(s) - 1 :
              Log!RemoveAt(s, i)[j] = s[IF j < i THEN j ELSE j + 1]
<1> DEFINE u == SubSeq(s, 1, i - 1)
           v == SubSeq(s, i + 1, Len(s))
<1>1. Len(s) \in Nat /\ i \in Nat /\ \A j \in 1 .. Len(s) : s[j] \in X
  OBVIOUS
<1>2. /\ u \in Seq(X) /\ Len(u) = i - 1
      /\ \A j \in 1 .. i - 1 : u[j] = s[j]
  <2>1. \A j \in 1 .. i - 1 : s[j] \in X
    BY <1>1
  <2> QED
    BY <1>1, <2>1, SubSeqProperties
<1>3. /\ v \in Seq(X) /\ Len(v) = Len(s) - i
      /\ \A j \in 1 .. Len(s) - i : v[j] = s[i + j]
  <2>1. \A j \in i + 1 .. Len(s) : s[j] \in X
    BY <1>1
  <2>2. /\ v \in Seq(X)
        /\ Len(v) = IF i + 1 <= Len(s) THEN Len(s) - (i + 1) + 1 ELSE 0
        /\ \A j \in 1 .. Len(s) - (i + 1) + 1 : v[j] = s[(i + 1) + j - 1]
    BY <1>1, <2>1, SubSeqProperties
  <2> HIDE DEF v
  <2>3. \A j \in 1 .. Len(s) - i : v[j] = s[i + j]
    <3> SUFFICES ASSUME NEW j \in 1 .. Len(s) - i PROVE v[j] = s[i + j]
      OBVIOUS
    <3>1. j \in 1 .. Len(s) - (i + 1) + 1 /\ (i + 1) + j - 1 = i + j
      BY <1>1
    <3>2. v[j] = s[(i + 1) + j - 1]
      BY <2>2, <3>1
    <3> QED
      BY <3>1, <3>2
  <2> QED
    BY <1>1, <2>2, <2>3
<1> HIDE DEF u, v
<1>4. /\ u \o v \in Seq(X) /\ Len(u \o v) = Len(u) + Len(v)
      /\ \A j \in 1 .. Len(u) + Len(v) :
           (u \o v)[j] = IF j <= Len(u) THEN u[j] ELSE v[j - Len(u)]
  BY <1>2, <1>3, ConcatProperties
<1>5. Len(u) + Len(v) = Len(s) - 1
  BY <1>1, <1>2, <1>3
<1>6. ASSUME NEW j \in 1 .. Len(s) - 1
      PROVE  (u \o v)[j] = s[IF j < i THEN j ELSE j + 1]
  <2>1. CASE j < i
    BY <1>1, <1>2, <1>4, <1>5, <2>1
  <2>2. CASE ~ (j < i)
    <3>1. j - Len(u) \in 1 .. Len(s) - i /\ i + (j - Len(u)) = j + 1
      BY <1>1, <1>2, <2>2
    <3>2. (u \o v)[j] = v[j - Len(u)]
      BY <1>1, <1>2, <1>4, <1>5, <2>2
    <3>3. v[j - Len(u)] = s[i + (j - Len(u))]
      BY <1>3, <3>1
    <3> QED
      BY <2>2, <3>1, <3>2, <3>3
  <2> QED
    BY <2>1, <2>2
<1>7. Log!RemoveAt(s, i) = u \o v
  BY DEF Log!RemoveAt, u, v
<1> QED
  BY <1>4, <1>5, <1>6, <1>7

\* A purge takes one id out of the log.
LEMMA RemovesId ==
  ASSUME NEW S, Slots(S), NEW gone \in S
  PROVE  /\ Rank(S, gone) \in DOMAIN IdsByVersion(S)
         /\ IdsByVersion(S \ {gone}) = Log!RemoveAt(IdsByVersion(S), Rank(S, gone))
<1> DEFINE T == S \ {gone}
           place == Rank(S, gone)
           s == IdsByVersion(S)
           t == IdsByVersion(T)
           X == Ids(S)
<1>1. /\ Slots(T) /\ Cardinality(T) = Cardinality(S) - 1
      /\ place \in 1 .. Cardinality(S)
      /\ \A i \in 1 .. Cardinality(T) :
           RowAt(T, i) = RowAt(S, IF i < place THEN i ELSE i + 1)
  BY RowAtWithout
<1>2. /\ s \in Seq(X) /\ Len(s) = Cardinality(S) /\ Cardinality(S) \in Nat
      /\ DOMAIN s = 1 .. Cardinality(S)
      /\ \A i \in 1 .. Cardinality(S) : s[i] = RowAt(S, i).id
  BY IdsByVersionIs
<1>3. /\ t \in Seq(Ids(T)) /\ Len(t) = Cardinality(T)
      /\ \A i \in 1 .. Cardinality(T) : t[i] = RowAt(T, i).id
  <2> HIDE DEF T
  <2> QED
    BY <1>1, IdsByVersionIs
<1>4. t \in Seq(X)
  <2>1. Ids(T) \subseteq X
    BY DEF Ids
  <2> HIDE DEF T, X, t
  <2> QED
    BY <1>3, <2>1, SeqMonotonic
<1> HIDE DEF T, place, s, t, X
<1>5. /\ Log!RemoveAt(s, place) \in Seq(X)
      /\ Len(Log!RemoveAt(s, place)) = Len(s) - 1
      /\ \A j \in 1 .. Len(s) - 1 :
           Log!RemoveAt(s, place)[j] = s[IF j < place THEN j ELSE j + 1]
  BY <1>1, <1>2, RemoveAtIs
<1>6. ASSUME NEW j \in 1 .. Len(t) PROVE t[j] = Log!RemoveAt(s, place)[j]
  <2>1. (IF j < place THEN j ELSE j + 1) \in 1 .. Cardinality(S)
    BY <1>1, <1>2, <1>3
  <2> QED
    BY <1>1, <1>2, <1>3, <1>5, <2>1
<1>7. t = Log!RemoveAt(s, place)
  BY <1>1, <1>2, <1>3, <1>4, <1>5, <1>6, SeqEqual
<1> QED
  BY <1>1, <1>2, <1>7 DEF T, place, s, t

\* A row above all others adds its id at the end.
LEMMA AppendsId ==
  ASSUME NEW S, NEW new, new \notin S, Slots(S \cup {new}),
         \A x \in S : x.version < new.version
  PROVE  IdsByVersion(S \cup {new}) = Append(IdsByVersion(S), new.id)
<1> DEFINE T == S \cup {new}
           s == IdsByVersion(S)
           t == IdsByVersion(T)
           X == Ids(T)
<1>1. /\ Slots(S)
      /\ \A i \in 1 .. Cardinality(S) : RowAt(T, i) = RowAt(S, i)
  <2>1. S \in SUBSET T /\ \A r \in T \ S : r = new
    OBVIOUS
  <2> QED
    BY <2>1, RowAtBelow
<1>2. Cardinality(T) = Cardinality(S) + 1 /\ Cardinality(S) \in Nat
  BY <1>1, FS_AddElement, FS_CardinalityType DEF Slots
<1>3. Rank(T, new) = Cardinality(T)
  <2>1. \A x \in T : x.version <= new.version
    BY DEF Slots
  <2>2. {x \in T : x.version <= new.version} = T
    BY <2>1
  <2> QED
    BY <2>2 DEF Rank
<1>4. RowAt(T, Cardinality(T)) = new
  <2>1. new \in T /\ Slots(T)
    OBVIOUS
  <2> HIDE DEF T
  <2> QED
    BY <1>3, <2>1, RowAtIs
<1>5. /\ s \in Seq(X) /\ Len(s) = Cardinality(S)
      /\ \A i \in 1 .. Cardinality(S) : s[i] = RowAt(S, i).id
  <2>1. Ids(S) \subseteq X
    BY DEF Ids
  <2> HIDE DEF X
  <2> QED
    BY <1>1, <2>1, IdsByVersionIs, SeqMonotonic
<1>6. /\ t \in Seq(X) /\ Len(t) = Cardinality(T)
      /\ \A i \in 1 .. Cardinality(T) : t[i] = RowAt(T, i).id
  <2> HIDE DEF T
  <2> QED
    BY IdsByVersionIs DEF T
<1>7. new.id \in X
  BY DEF Ids
<1> HIDE DEF T, s, t, X
<1>8. /\ Append(s, new.id) \in Seq(X) /\ Len(Append(s, new.id)) = Cardinality(T)
      /\ \A i \in 1 .. Cardinality(T) :
           Append(s, new.id)[i] = IF i <= Cardinality(S) THEN s[i] ELSE new.id
  BY <1>2, <1>5, <1>7
<1>9. ASSUME NEW i \in 1 .. Len(t) PROVE t[i] = Append(s, new.id)[i]
  <2>1. CASE i <= Cardinality(S)
    <3>1. i \in 1 .. Cardinality(S)
      BY <1>2, <1>6, <2>1
    <3> QED
      BY <1>1, <1>5, <1>6, <1>8, <3>1
  <2>2. CASE ~ (i <= Cardinality(S))
    <3>1. i = Cardinality(T)
      BY <1>2, <1>6, <2>2
    <3> QED
      BY <1>2, <1>4, <1>6, <1>8, <2>2, <3>1
  <2> QED
    BY <2>1, <2>2
<1>10. t = Append(s, new.id)
  BY <1>6, <1>8, <1>9, SeqEqual
<1> QED
  BY <1>10 DEF T, s, t

-----------------------------------------------------------------------------
(* The log of a table. *)

\* A table of rows with unique ids and slots, as every view of it is.
Table(rows) == rows \in SUBSET Row /\ UniqueIn(rows) /\ IsFiniteSet(rows)

LEMMA RowsOfHasSlots ==
  ASSUME NEW rows, Table(rows), NEW k
  PROVE  Slots(RowsOf(rows, k))
<1> DEFINE own == RowsOf(rows, k)
<1>1. own \in SUBSET rows
  BY DEF RowsOf
<1>2. IsFiniteSet(own)
  BY <1>1, FS_Subset DEF Table
<1>3. \A x \in own : x.version \in Nat
  BY <1>1 DEF Table, Row
<1>4. \A x, y \in own : x.version = y.version => x = y
  BY DEF RowsOf, Table, UniqueIn, SameSlot
<1> QED
  BY <1>2, <1>3, <1>4 DEF Slots

\* The log of a key holds the ids of its rows.
LEMMA IdsOfKey ==
  ASSUME NEW rows, Table(rows), NEW k \in Keys
  PROVE  /\ LogOf(rows)[k] = IdsByVersion(RowsOf(rows, k))
         /\ Log!Range(LogOf(rows)[k]) = Ids(RowsOf(rows, k))
<1> DEFINE own == RowsOf(rows, k)
           s == IdsByVersion(own)
<1>1. LogOf(rows)[k] = s
  BY DEF LogOf
<1>2. Slots(own)
  BY RowsOfHasSlots
<1> HIDE DEF own
<1>3. /\ DOMAIN s = 1 .. Cardinality(own)
      /\ \A i \in 1 .. Cardinality(own) : s[i] = RowAt(own, i).id
      /\ s \in Seq(Ids(own)) /\ Len(s) = Cardinality(own)
  BY <1>2, IdsByVersionIs
<1>4. ASSUME NEW r \in own PROVE \E i \in DOMAIN s : s[i] = r.id
  <2>1. Rank(own, r) \in 1 .. Cardinality(own) /\ RowAt(own, Rank(own, r)) = r
    BY <1>2, RankRises, RowAtIs
  <2> QED
    BY <1>3, <2>1
<1>5. \A i \in DOMAIN s : s[i] \in Ids(own)
  BY <1>2, <1>3, RowAtIs DEF Ids
<1> HIDE DEF s
<1>6. {s[i] : i \in DOMAIN s} = Ids(own)
  BY <1>4, <1>5 DEF Ids
<1> QED
  BY <1>1, <1>6 DEF own, s, Log!Range

LEMMA LogContents ==
  ASSUME NEW rows, Table(rows)
  PROVE  Log!Contents(LogOf(rows)) = Ids(rows)
<1>1. Log!Contents(LogOf(rows)) = UNION {Ids(RowsOf(rows, k)) : k \in Keys}
  BY IdsOfKey DEF Log!Contents
<1>2. ASSUME NEW r \in rows PROVE \E k \in Keys : r \in RowsOf(rows, k)
  <2>1. <<r.stream, r.branch>> \in Keys
    BY DEF Table, Row, Keys
  <2>2. r \in RowsOf(rows, <<r.stream, r.branch>>)
    BY DEF RowsOf
  <2> QED
    BY <2>1, <2>2
<1>3. \A k : RowsOf(rows, k) \subseteq rows
  BY DEF RowsOf
<1> QED
  BY <1>1, <1>2, <1>3 DEF Ids

\* No id is twice in the log of a table, in one sequence or in two.
LEMMA LogHasNoDuplicates ==
  ASSUME NEW rows, Table(rows)
  PROVE  Log!NoDuplicates(LogOf(rows))
<1>1. ASSUME NEW k \in Keys PROVE Log!IsInjective(LogOf(rows)[k])
  <2> DEFINE own == RowsOf(rows, k)
             s == IdsByVersion(own)
  <2>1. LogOf(rows)[k] = s /\ Slots(own) /\ own \subseteq rows
    BY IdsOfKey, RowsOfHasSlots DEF RowsOf
  <2> HIDE DEF own
  <2>2. /\ DOMAIN s = 1 .. Cardinality(own)
        /\ \A i \in 1 .. Cardinality(own) :
             /\ s[i] = RowAt(own, i).id
             /\ RowAt(own, i) \in own /\ Rank(own, RowAt(own, i)) = i
    BY <2>1, IdsByVersionIs, RowAtIs
  <2>3. ASSUME NEW i \in DOMAIN s, NEW j \in DOMAIN s, s[i] = s[j] PROVE i = j
    <3>1. RowAt(own, i) = RowAt(own, j)
      BY <2>1, <2>2, <2>3 DEF Table, UniqueIn
    <3> QED
      BY <2>2, <3>1
  <2> HIDE DEF s
  <2> QED
    BY <2>1, <2>3 DEF Log!IsInjective
<1>2. ASSUME NEW j \in Keys, NEW k \in Keys, j # k
      PROVE  Log!Range(LogOf(rows)[j]) \cap Log!Range(LogOf(rows)[k]) = {}
  <2>1. SUFFICES ASSUME NEW id \in Ids(RowsOf(rows, j)), id \in Ids(RowsOf(rows, k))
                 PROVE  FALSE
    BY IdsOfKey
  <2>2. PICK x \in RowsOf(rows, j) : x.id = id
    BY DEF Ids
  <2>3. PICK y \in RowsOf(rows, k) : y.id = id
    BY <2>1 DEF Ids
  <2>4. x = y
    BY <2>2, <2>3 DEF RowsOf, Table, UniqueIn
  <2>5. j[1] = k[1] /\ j[2] = k[2]
    BY <2>4 DEF RowsOf
  <2> QED
    BY <1>2, <2>5 DEF Keys
<1> QED
  BY <1>1, <1>2 DEF Log!NoDuplicates

-----------------------------------------------------------------------------
(* What the open transaction is about to do to the log. *)

\* The rows that a transaction adds are above those of their keys.
Newer ==
  \A r \in tx.rows \ events : \A x \in events :
    x.stream = r.stream /\ x.branch = r.branch => x.version < r.version

\* A purge takes one row out and puts an audit event in; others only add.
PurgesOne ==
  IF tx.op = "purge"
    THEN \E gone \in events, new \in tx.rows :
           /\ new.id \notin Ids(events)
           /\ new.stream = SystemStream /\ new.branch = MainBranch
           /\ tx.rows = (events \ {gone}) \cup {new}
    ELSE events \subseteq tx.rows

ViewInv ==
  tx # NoTx => IsFiniteSet(tx.rows) /\ Newer /\ PurgesOne

RInv == IsFiniteSet(events) /\ ViewInv

\* A row that is inserted into a view of the table is above the others.
LEMMA InsertedRow ==
  ASSUME NEW rows \in SUBSET Row, Bounded(rows), IsFiniteSet(rows),
         NEW id \in EventId \cup AuditId, NEW s \in StreamId, NEW b \in Branch
  PROVE  LET new == NewRow(rows, id, s, b)
             after == InsertOrIgnore(rows, new)
         IN  /\ IsFiniteSet(after)
             /\ rows \subseteq after
             /\ after \subseteq rows \cup {new}
             /\ id \notin Ids(rows) => after = rows \cup {new}
             /\ new.id = id /\ new.stream = s /\ new.branch = b
             /\ \A x \in rows : x.stream = s /\ x.branch = b => x.version < new.version
<1> DEFINE new == NewRow(rows, id, s, b)
           after == InsertOrIgnore(rows, new)
<1>1. /\ \A r \in rows : r.stream = s /\ r.branch = b => r.version < new.version
      /\ id \in Ids(rows) => after = rows
      /\ id \notin Ids(rows) => after = rows \cup {new}
  BY InsertIgnoresOnlyKnownIds
<1>2. new.id = id /\ new.stream = s /\ new.branch = b
  BY DEF NewRow
<1> HIDE DEF new, after
<1>3. IsFiniteSet(after)
  BY <1>1, FS_AddElement
<1> QED
  BY <1>1, <1>2, <1>3 DEF new, after

LEMMA InsertRInv ==
  ASSUME IInv, RInv, NEW c \in Client, Insert(c)
  PROVE  RInv'
<1> DEFINE a == Head(tx.todo)
           new == NewRow(tx.rows, a.id, a.stream, a.branch)
<1>1. tx \in Tx /\ tx # NoTx
  BY OwnedTx DEF IInv, Insert
<1>2. a \in Request
  BY <1>1 DEF Insert, Tx
<1>3. /\ a.id \in EventId \cup AuditId
      /\ a.stream \in StreamId /\ a.branch \in Branch
  BY <1>2 DEF Request
<1>4. /\ tx.rows \in SUBSET Row /\ Bounded(tx.rows) /\ IsFiniteSet(tx.rows)
      /\ Newer /\ events \subseteq tx.rows
  BY <1>1 DEF IInv, TxInv, Tx, RInv, ViewInv, PurgesOne, Insert
<1>5. /\ tx'.rows = InsertOrIgnore(tx.rows, new)
      /\ tx'.op = tx.op /\ tx'.op # "purge" /\ events' = events
  BY <1>1 DEF Insert, Tx
<1> HIDE DEF a
<1>6. /\ IsFiniteSet(tx'.rows) /\ tx.rows \subseteq tx'.rows
      /\ tx'.rows \subseteq tx.rows \cup {new}
      /\ new.stream = a.stream /\ new.branch = a.branch
      /\ \A x \in tx.rows : x.stream = a.stream /\ x.branch = a.branch
                              => x.version < new.version
  BY <1>3, <1>4, <1>5, InsertedRow
<1> HIDE DEF new
<1>7. Newer'
  BY <1>4, <1>5, <1>6 DEF Newer
<1>8. PurgesOne'
  BY <1>4, <1>5, <1>6 DEF PurgesOne
<1> QED
  BY <1>5, <1>6, <1>7, <1>8 DEF RInv, ViewInv

LEMMA EmitSystemRInv ==
  ASSUME IInv, RInv, NEW c \in Client, NEW id \in AuditId, EmitSystem(c, id)
  PROVE  RInv'
<1> DEFINE new == NewRow(events, id, SystemStream, MainBranch)
<1>1. /\ tx'.rows = InsertOrIgnore(events, new)
      /\ tx'.op = "system" /\ events' = events
  BY DEF EmitSystem
<1>2. events \in SUBSET Row /\ Bounded(events) /\ IsFiniteSet(events)
  BY DEF IInv, TypeOK, RInv
<1>3. /\ IsFiniteSet(tx'.rows) /\ events \subseteq tx'.rows
      /\ tx'.rows \subseteq events \cup {new}
      /\ new.stream = SystemStream /\ new.branch = MainBranch
      /\ \A x \in events : x.stream = SystemStream /\ x.branch = MainBranch
                             => x.version < new.version
  BY <1>1, <1>2, SystemAssumption, InsertedRow
<1> HIDE DEF new
<1>4. Newer'
  BY <1>1, <1>3 DEF Newer
<1>5. PurgesOne'
  BY <1>1, <1>3 DEF PurgesOne
<1> QED
  BY <1>1, <1>2, <1>3, <1>4, <1>5 DEF RInv, ViewInv

LEMMA PurgeRInv ==
  ASSUME IInv, RInv, NEW c \in Client, NEW r \in events, NEW audit \in AuditId,
         Purge(c, r, audit)
  PROVE  RInv'
<1> DEFINE new == NewRow(events, audit, SystemStream, MainBranch)
           after == InsertOrIgnore(events, new)
<1>1. /\ tx'.rows = after \ {r}
      /\ tx'.op = "purge" /\ events' = events
      /\ audit \notin Ids(events)
  BY DEF Purge
<1>2. events \in SUBSET Row /\ Bounded(events) /\ IsFiniteSet(events)
  BY DEF IInv, TypeOK, RInv
<1>3. /\ IsFiniteSet(after) /\ after = events \cup {new}
      /\ new.id = audit /\ new.stream = SystemStream /\ new.branch = MainBranch
      /\ \A x \in events : x.stream = SystemStream /\ x.branch = MainBranch
                             => x.version < new.version
  BY <1>1, <1>2, SystemAssumption, InsertedRow
<1> HIDE DEF new, after
<1>4. new # r
  BY <1>1, <1>3 DEF Ids
<1>5. tx'.rows = (events \ {r}) \cup {new}
  BY <1>1, <1>3, <1>4
<1>6. IsFiniteSet(tx'.rows)
  BY <1>1, <1>3, FS_RemoveElement
<1>7. Newer'
  BY <1>1, <1>3, <1>5 DEF Newer
<1>8. PurgesOne'
  <2>1. new \in tx'.rows /\ new.id \notin Ids(events')
    BY <1>1, <1>3, <1>5
  <2>2. \E gone \in events', x \in tx'.rows :
          /\ x.id \notin Ids(events')
          /\ x.stream = SystemStream /\ x.branch = MainBranch
          /\ tx'.rows = (events' \ {gone}) \cup {x}
    BY <1>1, <1>3, <1>5, <2>1
  <2> QED
    BY <1>1, <2>2 DEF PurgesOne, Ids
<1> QED
  BY <1>1, <1>2, <1>6, <1>7, <1>8 DEF RInv, ViewInv

LEMMA NextRInv == IInv /\ RInv /\ [Next]_vars => RInv'
<1> SUFFICES ASSUME IInv, RInv, [Next]_vars PROVE RInv'
  OBVIOUS
<1>1. ASSUME UNCHANGED events, tx' = NoTx PROVE RInv'
  BY <1>1 DEF RInv, ViewInv
<1>2. ASSUME UNCHANGED <<events, tx>> PROVE RInv'
  BY <1>2 DEF RInv, ViewInv, Newer, PurgesOne, Ids
<1>3. ASSUME NEW c \in Client, NEW op \in {"append", "append_if", "append_batch"},
             NEW todo, Begin(c, op, todo)
      PROVE  RInv'
  <2>1. tx'.rows = events /\ tx'.op # "purge" /\ events' = events
    BY <1>3 DEF Begin
  <2> QED
    BY <2>1 DEF RInv, ViewInv, Newer, PurgesOne
<1>4. ASSUME NEW c \in Client, Commit(c) PROVE RInv'
  <2>1. tx # NoTx /\ events' = tx.rows /\ tx' = NoTx
    BY <1>4, OwnedTx DEF IInv, Commit
  <2> QED
    BY <2>1 DEF RInv, ViewInv
<1>5. ASSUME NEW c \in Client, AppendNext(c) PROVE RInv'
  <2>1. ASSUME NEW a \in Request, BeginAppend(c, a) \/ BeginAppendIf(c, a) PROVE RInv'
    BY <1>3, <2>1 DEF BeginAppend, BeginAppendIf
  <2>2. ASSUME NEW as, BeginAppendBatch(c, as) PROVE RInv'
    BY <1>3, <2>2 DEF BeginAppendBatch
  <2>3. ASSUME NEW s, NEW b, ReadVersion(c, s, b) PROVE RInv'
    BY <1>2, <2>3 DEF ReadVersion
  <2>4. CASE Refuse(c) \/ Rollback(c)
    BY <1>1, <2>4 DEF Refuse, Rollback
  <2>5. CASE Insert(c)
    BY <2>5, InsertRInv
  <2>6. ASSUME NEW id \in AuditId, EmitSystem(c, id) PROVE RInv'
    BY <2>6, EmitSystemRInv
  <2> QED
    BY <1>4, <1>5, <2>1, <2>2, <2>3, <2>4, <2>5, <2>6 DEF AppendNext
<1>6. ASSUME NEW c \in Client, PurgeNext(c) PROVE RInv'
  BY <1>6, PurgeRInv DEF PurgeNext
<1>7. ASSUME NEW s \in StreamId, DeclareStream(s) PROVE RInv'
  BY <1>2, <1>7 DEF DeclareStream
<1>8. CASE UNCHANGED vars
  BY <1>2, <1>8 DEF vars
<1> QED
  BY <1>5, <1>6, <1>7, <1>8 DEF Next

-----------------------------------------------------------------------------
(* The refinement of EventLog. *)

LEMMA CommittedTable ==
  ASSUME IInv, RInv
  PROVE  Table(events) /\ (tx \in Tx => Table(tx.rows))
<1>1. UniqueIn(events) /\ events \in SUBSET Row /\ IsFiniteSet(events)
  BY DEF IInv, TypeOK, RInv, Unique, UniqueIn
<1>2. ASSUME tx \in Tx PROVE Table(tx.rows)
  <2>1. tx # NoTx
    BY <1>2, NoneAssumption DEF Tx, NoTx
  <2> QED
    BY <1>2, <2>1 DEF IInv, TxInv, RInv, ViewInv, Tx, Table
<1> QED
  BY <1>1, <1>2 DEF Table

\* Publishing rows that an append added extends every sequence at its end.
LEMMA CommitExtends ==
  ASSUME IInv, RInv, NEW c \in Client, Commit(c), tx.op # "purge"
  PROVE  Log!Extend
<1>1. tx \in Tx /\ tx # NoTx /\ events' = tx.rows
  BY OwnedTx DEF IInv, Commit
<1>2. Table(events) /\ Table(tx.rows) /\ Newer /\ events \subseteq tx.rows
  BY <1>1, CommittedTable DEF RInv, ViewInv, PurgesOne
<1>3. ASSUME NEW k \in Keys
      PROVE  Log!IsPrefix(LogOf(events)[k], LogOf(tx.rows)[k])
  <2> DEFINE S == RowsOf(events, k)
             T == RowsOf(tx.rows, k)
  <2>1. Slots(T) /\ S \in SUBSET T
    BY <1>2, RowsOfHasSlots DEF RowsOf
  <2>2. \A r \in T \ S, x \in S : x.version < r.version
    BY <1>2 DEF RowsOf, Newer
  <2> HIDE DEF S, T
  <2>3. Log!IsPrefix(IdsByVersion(S), IdsByVersion(T))
    BY <2>1, <2>2, ExtendsIds
  <2> QED
    BY <1>2, <2>3, IdsOfKey DEF S, T
<1>4. Log!NoDuplicates(LogOf(tx.rows))
  BY <1>2, LogHasNoDuplicates
<1>5. /\ \A k \in Keys : Log!IsPrefix(LogOf(events)[k], LogOf(events')[k])
      /\ Log!NoDuplicates(LogOf(events'))
  BY <1>1, <1>3, <1>4
<1> QED
  BY <1>5 DEF Log!Extend

\* Publishing a purge takes one event out, and its audit event joins at the end
\* of the system stream.
LEMMA CommitPurges ==
  ASSUME IInv, RInv, NEW c \in Client, Commit(c), tx.op = "purge"
  PROVE  Log!Purge
<1> DEFINE system == <<SystemStream, MainBranch>>
<1>1. tx \in Tx /\ tx # NoTx /\ events' = tx.rows
  BY OwnedTx DEF IInv, Commit
<1>2. Table(events) /\ Table(tx.rows) /\ Newer
  BY <1>1, CommittedTable DEF RInv, ViewInv
<1>3. PICK gone \in events, new \in tx.rows :
        /\ new.id \notin Ids(events)
        /\ new.stream = SystemStream /\ new.branch = MainBranch
        /\ tx.rows = (events \ {gone}) \cup {new}
  BY <1>1 DEF RInv, ViewInv, PurgesOne
<1>4. new \notin events /\ new # gone
  BY <1>3 DEF Ids
<1> DEFINE k == <<gone.stream, gone.branch>>
           i == Rank(RowsOf(events, k), gone)
           without == [LogOf(events) EXCEPT ![k] = Log!RemoveAt(@, i)]
<1>5. k \in Keys /\ system \in Keys
  BY <1>2, SystemAssumption DEF Keys, Table, Row
<1>6. gone \in RowsOf(events, k)
  BY DEF RowsOf
<1>7. Slots(RowsOf(events, k))
  BY <1>2, RowsOfHasSlots
<1>8. /\ i \in DOMAIN LogOf(events)[k]
      /\ Log!RemoveAt(LogOf(events)[k], i) = IdsByVersion(RowsOf(events, k) \ {gone})
  BY <1>2, <1>5, <1>6, <1>7, RemovesId, IdsOfKey
<1>9. DOMAIN LogOf(events) = Keys /\ DOMAIN LogOf(tx.rows) = Keys
  BY DEF LogOf
<1> HIDE DEF k, i, system
<1>10. ASSUME NEW q \in Keys
       PROVE  without[q] = IdsByVersion(RowsOf(events, q) \ {gone})
  <2>1. CASE q = k
    BY <1>5, <1>8, <1>9, <2>1
  <2>2. CASE q # k
    <3>1. gone \notin RowsOf(events, q)
      BY <2>2 DEF RowsOf, Keys, k
    <3>2. RowsOf(events, q) \ {gone} = RowsOf(events, q)
      BY <3>1
    <3> QED
      BY <1>2, <1>9, <2>2, <3>2, IdsOfKey
  <2> QED
    BY <2>1, <2>2
<1>11. DOMAIN without = Keys
  BY <1>9
<1> HIDE DEF without
<1>12. ASSUME NEW q \in Keys
       PROVE  LogOf(tx.rows)[q] = IF q = system THEN Append(without[q], new.id)
                                                ELSE without[q]
  <2> DEFINE rest == RowsOf(events, q) \ {gone}
  <2>1. CASE q = system
    <3>1. RowsOf(tx.rows, q) = rest \cup {new}
      BY <1>3, <2>1 DEF RowsOf, system
    <3>2. Slots(rest \cup {new})
      BY <1>2, <3>1, RowsOfHasSlots
    <3>3. new \notin rest
      BY <1>4 DEF RowsOf
    <3>4. \A x \in rest : x.version < new.version
      BY <1>2, <1>3, <1>4, <2>1 DEF Newer, RowsOf, system
    <3> HIDE DEF rest
    <3>5. IdsByVersion(rest \cup {new}) = Append(IdsByVersion(rest), new.id)
      BY <3>2, <3>3, <3>4, AppendsId
    <3>6. LogOf(tx.rows)[q] = IdsByVersion(RowsOf(tx.rows, q))
      BY <1>2, IdsOfKey
    <3>7. without[q] = IdsByVersion(rest)
      BY <1>10 DEF rest
    <3> QED
      BY <2>1, <3>1, <3>5, <3>6, <3>7
  <2>2. CASE q # system
    <3>1. RowsOf(tx.rows, q) = rest
      BY <1>3, <2>2 DEF RowsOf, system, Keys
    <3> QED
      BY <1>2, <1>10, <2>2, <3>1, IdsOfKey
  <2> QED
    BY <2>1, <2>2
<1>13. LogOf(tx.rows) = [without EXCEPT ![system] = Append(@, new.id)]
  <2> DEFINE changed == [without EXCEPT ![system] = Append(@, new.id)]
  <2>1. /\ DOMAIN changed = Keys
        /\ \A q \in Keys : changed[q] = LogOf(tx.rows)[q]
    BY <1>5, <1>11, <1>12
  <2>2. changed = [q \in Keys |-> changed[q]]
    BY <1>11
  <2>3. LogOf(tx.rows) = [q \in Keys |-> LogOf(tx.rows)[q]]
    BY DEF LogOf
  <2> HIDE DEF changed
  <2>4. changed = LogOf(tx.rows)
    BY <2>1, <2>2, <2>3
  <2> QED
    BY <2>4 DEF changed
<1>14. new.id \in Log!Contents(LogOf(tx.rows)) \ Log!Contents(LogOf(events))
  BY <1>2, <1>3, LogContents DEF Ids
<1>15. /\ k \in Keys /\ i \in DOMAIN LogOf(events)[k]
       /\ new.id \in Log!Contents(LogOf(events')) \ Log!Contents(LogOf(events))
       /\ LogOf(events') = [[LogOf(events) EXCEPT ![k] = Log!RemoveAt(@, i)]
                              EXCEPT ![system] = Append(@, new.id)]
  BY <1>1, <1>5, <1>8, <1>13, <1>14 DEF without
<1> QED
  BY <1>15 DEF Log!Purge, system

\* Every stream and branch reads as a sequence that committed transactions
\* extend at its end, or from which purge_event takes one event.
THEOREM RefinesEventLogHolds == Spec => RefinesEventLog
<1>1. Init => Log!Init /\ RInv
  <2> SUFFICES ASSUME Init PROVE Log!Init /\ RInv
    OBVIOUS
  <2>1. RInv
    BY FS_EmptySet DEF Init, RInv, ViewInv
  <2>2. \A k \in Keys : RowsOf(events, k) = {}
    BY DEF Init, RowsOf
  <2>3. IdsByVersion({}) = << >>
    <3>1. 1 .. Cardinality({}) = {}
      BY FS_EmptySet
    <3> QED
      BY <3>1 DEF IdsByVersion
  <2>4. LogOf(events) = [k \in Keys |-> << >>]
    BY <2>2, <2>3 DEF LogOf
  <2> QED
    BY <2>1, <2>4 DEF Log!Init
<1>2. IInv /\ RInv /\ [Next]_vars => [Log!Extend \/ Log!Purge]_(LogOf(events))
  <2> SUFFICES ASSUME IInv, RInv, [Next]_vars, LogOf(events') # LogOf(events)
               PROVE  Log!Extend \/ Log!Purge
    OBVIOUS
  <2>1. PICK c \in Client : Commit(c)
    BY OnlyCommitChangesEvents
  <2> QED
    BY <2>1, CommitExtends, CommitPurges
<1>3. IInv /\ RInv /\ [Next]_vars => RInv'
  BY NextRInv
<1> QED
  BY <1>1, <1>2, <1>3, Invariant, PTL DEF Spec, RefinesEventLog, Log!Spec
=============================================================================
