-------------------------------- MODULE Reads --------------------------------
(***************************************************************************)
(* One reader of the store, by pages or at once, while others append,      *)
(* purge and register upcasters (read.rs, cross_stream.rs and the readers  *)
(* and iterators of store.rs).                                             *)
(*                                                                         *)
(* A query is answered by statements on pooled read connections. Each      *)
(* statement sees one moment of the store; nothing holds between two of    *)
(* them but what the token of the last page says. A walk along causation   *)
(* is a statement, or two, per level; a range or a correlation is one per  *)
(* page. A page is upcast as a whole after it was read, and a reader takes *)
(* its events one by one from a buffer.                                    *)
(***************************************************************************)
EXTENDS FiniteSets, FiniteSetsExt, Patterns, Upcasters

CONSTANTS
  Id,           \* event ids, numbered in the order of their bytes
  Cause,        \* the causation id of each event, or None; an id is a hash of it
  Group,        \* the correlation id of each event, or None
  Type,         \* the event type of each event
  TypeVersion,  \* the type version of each event
  Size,         \* the length of the payload of each event
  Stream,       \* the streams, each the sequence of its segments
  Upcaster,     \* the upcasters that may be registered, each [type, from, to]
  Query,        \* the queries the reader may make
  Budget,       \* the budgets it may give to a page, each [results, bytes]
  InitialRows,  \* the events stored at the start
  MaxWrites,    \* bounds the appends and purges
  None

Direction == {"forward", "backward", "both"}
Types == {Type[i] : i \in Id}
Row == [id : Id, stream : Stream, version : Nat]

ASSUME IdAssumption == Id \subseteq Nat \ {0}
ASSUME EventAssumption ==
  /\ None \notin Id
  /\ Cause \in [Id -> Id \cup {None}]
  /\ TypeVersion \in [Id -> Nat]
  /\ Size \in [Id -> Nat]
\* No event is, through others, its own cause: an id is a hash of the cause's id too.
ASSUME CauseAssumption == \A S \in SUBSET Id : S # {} => \E i \in S : Cause[i] \notin S
\* The slots and ids of a store are unique (EventStore).
ASSUME RowAssumption ==
  /\ InitialRows \subseteq Row
  /\ IsFiniteSet(InitialRows)
  /\ \A r, s \in InitialRows :
       r.id = s.id \/ (r.stream = s.stream /\ r.version = s.version) => r = s
\* Names and patterns have at least one segment, as split('/') returns them.
ASSUME NameAssumption == Stream \subseteq Seq(STRING) \ {<<>>}
ASSUME QueryAssumption ==
  \A q \in Query :
    /\ q.kind \in {"range", "correlation", "walk", "batch", "aggregate"}
    /\ q.kind = "range" => q.from \in Nat
    /\ q.kind = "walk" => q.start \in Id /\ q.direction \in Direction /\ q.depth \in Nat
    /\ q.kind = "aggregate" => q.pattern \in Seq(STRING) \ {<<>>}

VARIABLES
  rows,        \* the table events
  upcasters,   \* the registry of upcasters: for each type its sorted entries
  writes,      \* how many appends and purges there were
  query,       \* the query in progress
  how,         \* "whole" (no budget), "pages" (a caller with tokens) or "iterator"
  pc,          \* the place of the reader
  cursor,      \* the token to resume from, None at the start
  page,        \* what the statements of this page have returned so far
  more,        \* the token this page ends with, None if it is the last
  buffer,      \* what was returned and not taken yet
  complete,    \* the last page was ReadOutcome::Complete
  budget,      \* the budget of this page of a walk
  frontier,    \* the level a walk expands next
  level,       \* what the statements of the next level have returned
  seen,        \* the events a walk skips
  depth,       \* the number of the next level
  taken,       \* history: what the reader took, in order
  throughout,  \* history: the rows that have been stored since the query began
  ever         \* history: the rows that were stored at any time since then

store == <<rows, upcasters, writes, throughout, ever>>
walk == <<budget, frontier, level, seen, depth>>
reader == <<query, how, pc, cursor, page, more, buffer, complete, walk, taken>>
vars == <<store, reader>>

-----------------------------------------------------------------------------
(* What the statements select.                                              *)

Ids(R) == {r.id : r \in R}

\* A result: the event and what a statement orders it by in the first place, the
\* version in a range, the level in a walk. Pages go by the id in the second place.
Before(x, y) == x.at < y.at \/ (x.at = y.at /\ x.id < y.id)

OfType(q, r) == q.type = None \/ Type[r.id] = q.type

\* The rows of a query, for those kinds that are one statement.
Selected(R, q) ==
  CASE q.kind = "range" ->
         {r \in R : /\ r.stream = q.stream
                    /\ r.version >= q.from
                    /\ q.to = None \/ r.version <= q.to
                    /\ OfType(q, r)}
    [] q.kind = "correlation" -> {r \in R : Group[r.id] = q.group}
    [] q.kind = "batch" -> {r \in R : r.id \in q.ids}
    [] q.kind = "aggregate" -> {r \in R : SqlGlob(q.pattern, r.stream) /\ OfType(q, r)}

Result(q, r) == [id |-> r.id, at |-> IF q.kind = "range" THEN r.version ELSE 0]
Results(q, R) == {Result(q, r) : r \in R}

FromCursorInclusive(q, R) ==
  IF cursor = None THEN R
  ELSE IF q.kind = "range" THEN {r \in R : r.version >= cursor.next}
  ELSE {r \in R : r.id >= cursor.after}

\* The predicate of the token: version >= next_version, or id > last_seen_id.
FromCursor(q, R) ==
  IF cursor = None THEN R
  ELSE IF q.kind = "range" THEN {r \in R : r.version >= cursor.next}
  ELSE {r \in R : r.id > cursor.after}

\* The levels of a walk: bfs_expand_forward and bfs_expand_backward.
Children(R, F) == {i \in Ids(R) : Cause[i] \in F}
Parents(R, F) == {Cause[i] : i \in F \cap Ids(R)} \cap Ids(R)

\* The recursive statements of walk_forward and walk_backward: an event and the
\* least number of steps that lead to it.
Reached(R, q, dir) ==
  LET expand(F) == IF dir = "forward" THEN Children(R, F) ELSE Parents(R, F)
      at[d \in 0..q.depth] == IF d = 0 THEN {q.start} ELSE expand(at[d - 1])
      steps(i) == CHOOSE d \in 1..q.depth : i \in at[d] /\ \A e \in 1..(d - 1) : i \notin at[e]
  IN  {[id |-> i, at |-> steps(i)] : i \in UNION {at[d] : d \in 1..q.depth}}

-----------------------------------------------------------------------------
(* Budgets.                                                                 *)

Bytes(S) == MapThenSumSet(LAMBDA x : Size[x.id], S)
TooMany(S, b) == b.results # None /\ Cardinality(S) > b.results
TooLarge(S, b) == b.bytes # None /\ Bytes(S) > b.bytes

\* No byte limit cuts before the first event.
Fits(S, b) == ~ TooMany(S, b) /\ (Cardinality(S) <= 1 \/ ~ TooLarge(S, b))

\* P is what the budget lets through of M, which is read in the order of the pages.
First(S) == CHOOSE x \in S : \A y \in S \ {x} : Before(x, y)
IsPage(P, M, b) ==
  /\ \A x \in P, y \in M \ P : Before(x, y)
  /\ Fits(P, b)
  /\ P # M => ~ Fits(P \cup {First(M \ P)}, b)

CursorAfterSkipping(q, P, M) ==
  IF P = M THEN None
  ELSE IF q.kind = "range" THEN [next |-> First(M \ P).at + 1]
  ELSE [after |-> IF P = {} THEN 0 ELSE Max(Ids(P))]

\* next_version is that of the first event left out, last_seen_id the last one given
\* (zeros if none was).
CursorAfter(q, P, M) ==
  IF P = M THEN None
  ELSE IF q.kind = "range" THEN [next |-> First(M \ P).at]
  ELSE [after |-> IF P = {} THEN 0 ELSE Max(Ids(P))]

\* Reads that go by the timestamp in the second place: aggregates and, but for ranges, what
\* is read at once. Timestamps may be any, so every order of the events of a level is.
ByTime == query.kind = "aggregate" \/ (how = "whole" /\ query.kind # "range")
Foremost(S) ==
  {x \in S : \A y \in S \ {x} : IF ByTime THEN x.at <= y.at ELSE Before(x, y)}

Unlimited == [results |-> None, bytes |-> None]

\* apply_bfs_sampling: the first ones of a level by id.
Sampled(L, q) ==
  IF q.sample = None THEN L ELSE {i \in L : Cardinality({j \in L : j < i}) < q.sample}

-----------------------------------------------------------------------------
(* Upcasting.                                                               *)

UpcastFails(S) == \E x \in S : HasGap(upcasters[Type[x.id]], TypeVersion[x.id])
UpcastHangs(S) == \E x \in S : NeverEnds(upcasters[Type[x.id]], TypeVersion[x.id])

-----------------------------------------------------------------------------
Init ==
  /\ rows = InitialRows
  /\ upcasters = [t \in Types |-> <<>>]
  /\ writes = 0
  /\ query = None
  /\ how = None
  /\ pc = "idle"
  /\ cursor = None
  /\ page = {}
  /\ more = None
  /\ buffer = {}
  /\ complete = FALSE
  /\ budget = Unlimited
  /\ frontier = {}
  /\ level = {}
  /\ seen = {}
  /\ depth = 0
  /\ taken = <<>>
  /\ throughout = {}
  /\ ever = {}

\* Another thread or process appends an event that is not stored.
AppendEvent(i, s) ==
  /\ writes < MaxWrites
  /\ i \notin Ids(rows)
  /\ LET versions == {r.version : r \in {x \in rows : x.stream = s}}
         row == [id |-> i, stream |-> s,
                 version |-> IF versions = {} THEN 0 ELSE Max(versions) + 1]
     IN  rows' = rows \cup {row} /\ ever' = ever \cup {row}
  /\ writes' = writes + 1
  /\ UNCHANGED <<upcasters, throughout, reader>>

\* ... or purges one that is.
PurgeEvent(r) ==
  /\ writes < MaxWrites
  /\ r \in rows
  /\ rows' = rows \ {r}
  /\ throughout' = throughout \ {r}
  /\ writes' = writes + 1
  /\ UNCHANGED <<upcasters, ever, reader>>

\* register_upcaster waits for readers that are upcasting, which is one step, or
\* never ends.
RegisterUpcaster(u) ==
  /\ pc # "spinning"
  /\ ~ \E i \in 1..Len(upcasters[u.type]) : upcasters[u.type][i] = [from |-> u.from, to |-> u.to]
  /\ upcasters' = [upcasters EXCEPT ![u.type] = WithUpcaster(@, [from |-> u.from, to |-> u.to])]
  /\ UNCHANGED <<rows, writes, throughout, ever, reader>>

-----------------------------------------------------------------------------
(* The reader.                                                              *)

Ask(q, h) ==
  /\ pc = "idle"
  /\ h = "iterator" => q.kind \in {"range", "correlation", "walk"}
  /\ q.kind = "batch" => h = "whole"
  /\ query' = q
  /\ how' = h
  /\ pc' = "ready"
  /\ throughout' = rows
  /\ ever' = rows
  /\ UNCHANGED <<rows, upcasters, writes, cursor, page, more, buffer, complete, walk, taken>>

\* A statement returns what the budget lets through of the results M.
Fetch(M, b) ==
  /\ \E P \in SUBSET M :
       /\ IsPage(P, M, b)
       /\ page' = P
       /\ more' = IF how = "whole" THEN None ELSE CursorAfter(query, P, M)
       /\ complete' = (P = M)
  /\ pc' = "fetched"
  /\ UNCHANGED <<store, query, how, cursor, buffer, walk, taken>>

\* read_range: up to the limit of the query.
ReadRange ==
  /\ pc = "ready" /\ how = "whole" /\ query.kind = "range"
  /\ Fetch(Results(query, Selected(rows, query)), [Unlimited EXCEPT !.results = query.limit])

ReadBatch ==
  /\ pc = "ready" /\ query.kind = "batch"
  /\ Fetch(Results(query, Selected(rows, query)), Unlimited)

ReadByCorrelation ==
  /\ pc = "ready" /\ how = "whole" /\ query.kind = "correlation"
  /\ Fetch(Results(query, Selected(rows, query)), Unlimited)

\* read_range_bounded, also from an iterator: the limit of the query is not looked at.
ReadRangeBounded(b) ==
  /\ pc = "ready" /\ how # "whole" /\ query.kind = "range"
  /\ buffer = {}
  /\ Fetch(Results(query, FromCursor(query, Selected(rows, query))), b)

ReadByCorrelationBounded(b) ==
  /\ pc = "ready" /\ how # "whole" /\ query.kind = "correlation"
  /\ buffer = {}
  /\ Fetch(Results(query, FromCursor(query, Selected(rows, query))), b)

\* walk_causation: one recursive statement per direction. The ancestors, whatever their
\* level, are put behind all of the descendants.
WalkWhole ==
  /\ pc \in {"ready", "merging"}
  /\ query.kind = "walk" /\ how = "whole"
  /\ \/ /\ pc = "ready" /\ query.direction # "both"
        /\ page' = Reached(rows, query, query.direction)
        /\ pc' = "fetched" /\ complete' = TRUE
     \/ /\ pc = "ready" /\ query.direction = "both"
        /\ page' = Reached(rows, query, "forward")
        /\ pc' = "merging" /\ UNCHANGED complete
     \/ /\ pc = "merging"
        /\ page' = page \cup
             {[x EXCEPT !.at = @ + query.depth] :
                x \in {y \in Reached(rows, query, "backward") : y.id \notin Ids(page)}}
        /\ pc' = "fetched" /\ complete' = TRUE
  /\ UNCHANGED <<store, query, how, cursor, more, buffer, walk, taken>>

\* aggregate and aggregate_bounded: one statement in the order of timestamps, which
\* may be any. Each row is upcast, then matched, then folded, R those before the cut
\* and C the one that is cut, if any.
ReadAggregate(b) ==
  /\ pc = "ready"
  /\ query.kind = "aggregate"
  /\ LET S == Selected(rows, query)
         Matching(R) == {r \in R : Matches(query.pattern, r.stream)}
     IN  \E R \in SUBSET S : \E C \in {{}} \cup {{r} : r \in Matching(S \ R)} :
           /\ C = {} <=> R = S
           /\ how = "whole" => C = {}
           /\ how # "whole" => Fits(Matching(R), b)
           /\ \A r \in C : ~ Fits(Matching(R) \cup {r}, b)
           /\ IF UpcastHangs(R \cup C) THEN pc' = "spinning" /\ UNCHANGED <<buffer, complete>>
              ELSE IF UpcastFails(R \cup C) THEN pc' = "failed" /\ UNCHANGED <<buffer, complete>>
              ELSE /\ pc' = "last"
                   /\ buffer' = Results(query, Matching(R))
                   /\ complete' = (C = {})
  /\ UNCHANGED <<store, query, how, cursor, page, more, walk, taken>>

StartWalkAfresh(b) ==
  /\ pc = "ready" /\ how # "whole" /\ buffer = {}
  /\ query.kind = "walk"
  /\ frontier' = {query.start}
  /\ depth' = IF cursor = None THEN 1 ELSE cursor.depth + 1
  /\ seen' = frontier'
  /\ budget' = b
  /\ pc' = "expanding"
  /\ UNCHANGED <<store, query, how, cursor, page, more, buffer, complete, level, taken>>

\* walk_causation_bounded: a page starts with the start event, or with the level the
\* token names; only these are to be skipped.
StartWalk(b) ==
  /\ pc = "ready" /\ how # "whole" /\ buffer = {}
  /\ query.kind = "walk"
  /\ frontier' = IF cursor = None THEN {query.start} ELSE cursor.frontier
  /\ depth' = IF cursor = None THEN 1 ELSE cursor.depth + 1
  /\ seen' = frontier'
  /\ budget' = b
  /\ pc' = "expanding"
  /\ UNCHANGED <<store, query, how, cursor, page, more, buffer, complete, level, taken>>

\* expand_frontier: the children in one statement and the parents in another.
ExpandForward ==
  /\ pc = "expanding" /\ depth <= query.depth
  /\ query.direction # "backward"
  /\ level' = Children(rows, frontier)
  /\ pc' = IF query.direction = "both" THEN "returning" ELSE "expanded"
  /\ UNCHANGED <<store, query, how, cursor, page, more, buffer, complete, budget, frontier,
                 seen, depth, taken>>

ExpandBackward ==
  /\ \/ pc = "expanding" /\ depth <= query.depth /\ query.direction = "backward"
     \/ pc = "returning"
  /\ level' = level \cup Parents(rows, frontier)
  /\ pc' = "expanded"
  /\ UNCHANGED <<store, query, how, cursor, page, more, buffer, complete, budget, frontier,
                 seen, depth, taken>>

YieldLevelWithin ==
  /\ pc = "expanded"
  /\ LET new == Sampled(level \ seen, query)
         with == page \cup {[id |-> i, at |-> depth] : i \in new}
         exceeds == TooMany(with, budget) \/ TooLarge(with, budget)
     IN  IF new = {} \/ exceeds
         THEN /\ pc' = "fetched"
              /\ complete' = (new = {})
              /\ more' = IF new = {} THEN None ELSE [frontier |-> frontier, depth |-> depth - 1]
              /\ UNCHANGED <<page, frontier, seen, depth>>
         ELSE /\ page' = with
              /\ seen' = seen \cup new
              /\ frontier' = new
              /\ depth' = depth + 1
              /\ pc' = "expanding"
              /\ UNCHANGED <<more, complete>>
  /\ level' = {}
  /\ UNCHANGED <<store, query, how, cursor, buffer, budget, taken>>

\* A level is yielded as a whole, or ends the page, unless the page is empty.
YieldLevel ==
  /\ pc = "expanded"
  /\ LET new == Sampled(level \ seen, query)
         with == page \cup {[id |-> i, at |-> depth] : i \in new}
         exceeds == TooMany(with, budget) \/ TooLarge(with, budget)
     IN  IF new = {} \/ (exceeds /\ page # {})
         THEN /\ pc' = "fetched"
              /\ complete' = (new = {})
              /\ more' = IF new = {} THEN None ELSE [frontier |-> frontier, depth |-> depth - 1]
              /\ UNCHANGED <<page, frontier, seen, depth>>
         ELSE /\ page' = with
              /\ seen' = seen \cup new
              /\ frontier' = new
              /\ depth' = depth + 1
              /\ pc' = "expanding"
              /\ UNCHANGED <<more, complete>>
  /\ level' = {}
  /\ UNCHANGED <<store, query, how, cursor, buffer, budget, taken>>

\* The greatest depth is reached.
EndWalk ==
  /\ pc = "expanding" /\ depth > query.depth
  /\ pc' = "fetched"
  /\ more' = None
  /\ complete' = TRUE
  /\ UNCHANGED <<store, query, how, cursor, page, buffer, walk, taken>>

\* The page is upcast under the read lock of the registry and handed over, with the
\* token for the next; a gap in the chain of one event fails them all.
UpcastPage ==
  /\ pc = "fetched"
  /\ IF UpcastHangs(page) THEN pc' = "spinning" /\ UNCHANGED <<cursor, buffer>>
     ELSE IF UpcastFails(page) THEN pc' = "failed" /\ UNCHANGED <<cursor, buffer>>
     ELSE /\ buffer' = page
          /\ IF more = None THEN pc' = "last" /\ UNCHANGED cursor
             ELSE pc' = "ready" /\ cursor' = more
  /\ page' = {}
  /\ more' = None
  /\ UNCHANGED <<store, query, how, complete, walk, taken>>

\* The reader takes the next event, from the page or from the iterator.
Take ==
  /\ pc \in {"ready", "last"} /\ buffer # {}
  /\ \E x \in Foremost(buffer) :
       /\ taken' = Append(taken, x)
       /\ buffer' = buffer \ {x}
  /\ UNCHANGED <<store, query, how, pc, cursor, page, more, complete, walk>>

\* The iterator returns None, or the caller has the last page.
Finish ==
  /\ pc = "last" /\ buffer = {}
  /\ pc' = "ended"
  /\ UNCHANGED <<store, query, how, cursor, page, more, buffer, complete, walk, taken>>

\* An SQLite error, or no connection in time (PoolExhausted), at any statement.
Fail ==
  /\ \/ pc = "ready" /\ buffer = {}
     \/ pc \in {"expanding", "returning", "merging"}
  /\ pc' = "failed"
  /\ page' = {}
  /\ level' = {}
  /\ UNCHANGED <<store, query, how, cursor, more, buffer, complete, budget, frontier, seen,
                 depth, taken>>

\* A caller still has its token and may ask again; an iterator has given it away and
\* only returns None.
AskAgain ==
  /\ pc = "failed" /\ how # "iterator"
  /\ pc' = "ready"
  /\ UNCHANGED <<store, query, how, cursor, page, more, buffer, complete, walk, taken>>

ReadStep ==
  \/ ReadRange
  \/ ReadBatch
  \/ ReadByCorrelation
  \/ \E b \in Budget : ReadRangeBounded(b) \/ ReadByCorrelationBounded(b)
  \/ WalkWhole
  \/ \E b \in Budget : ReadAggregate(b)
  \/ \E b \in Budget : StartWalk(b)
  \/ ExpandForward
  \/ ExpandBackward
  \/ YieldLevel
  \/ EndWalk
  \/ UpcastPage
  \/ Take
  \/ Finish

Next ==
  \/ \E i \in Id, s \in Stream : AppendEvent(i, s)
  \/ \E r \in rows : PurgeEvent(r)
  \/ \E u \in Upcaster : RegisterUpcaster(u)
  \/ \E q \in Query, h \in {"whole", "pages", "iterator"} : Ask(q, h)
  \/ ReadStep
  \/ Fail
  \/ AskAgain

Spec == Init /\ [][Next]_vars
FairSpec == Spec /\ WF_vars(ReadStep)

-----------------------------------------------------------------------------
(* Properties.                                                              *)

Item == [id : Id, at : Nat]
Place == {"idle", "ready", "expanding", "returning", "expanded", "merging", "fetched",
          "spinning", "last", "ended", "failed"}

\* Type invariant.
TypeOK ==
  /\ rows \subseteq Row
  /\ \A r, s \in rows : r.id = s.id \/ (r.stream = s.stream /\ r.version = s.version) => r = s
  /\ query \in Query \cup {None}
  /\ how \in {None, "whole", "pages", "iterator"}
  /\ pc \in Place
  /\ page \subseteq Item
  /\ buffer \subseteq Item
  /\ taken \in Seq(Item)
  /\ frontier \subseteq Id /\ level \subseteq Id /\ seen \subseteq Id
  /\ depth \in Nat
  /\ throughout \subseteq rows
  /\ rows \subseteq ever \/ pc = "idle"

\* The pages of a read never go back or repeat: a range gives ascending versions, a
\* correlation ascending ids and a walk ascending levels, whatever was appended or
\* purged between the pages and whatever budgets were given. (What is read at once by
\* time, and what an aggregate folds, has no such order.)
PagesAscend ==
  pc # "idle" /\ ~ ByTime =>
    \A i, j \in 1..Len(taken) : i < j => Before(taken[i], taken[j])

\* What WalkDirection says of a walk both ways: the events come by their least distance
\* from the start. (It is so by pages; at once, the ancestors come last.)
Distance(x) == IF x.at > query.depth THEN x.at - query.depth ELSE x.at
OrderedByDepth ==
  pc # "idle" /\ query.kind = "walk" =>
    \A i, j \in 1..Len(taken) : i < j => Distance(taken[i]) <= Distance(taken[j])

NoRepeats == \A i, j \in 1..Len(taken) : i # j => taken[i].id # taken[j].id

\* A walk in one direction gives no event twice, although a page knows nothing of the
\* events before the last level of the page before.
NoEventTwice ==
  pc # "idle" /\ query.kind = "walk" /\ query.direction # "both" => NoRepeats

\* What walk_causation_bounded says of its resumed pages: an event that was given is not
\* given again where paths converge, in whatever direction.
ResumedWithoutRepeats == pc # "idle" /\ query.kind = "walk" => NoRepeats

\* What a query means on a fixed set of rows.
Answer(R, q) ==
  IF q.kind = "walk"
  THEN IF q.direction = "both"
       THEN Ids(Reached(R, q, "forward")) \cup Ids(Reached(R, q, "backward"))
       ELSE Ids(Reached(R, q, q.direction))
  ELSE IF q.kind = "aggregate"
  THEN {r.id : r \in {x \in R : Matches(q.pattern, x.stream) /\ OfType(q, x)}}
  ELSE Ids(Selected(R, q))

\* The reader was given no event but of the answer, and if nothing was left out, every
\* one of the answer that was stored all along. A sampled walk leaves some out.
Answered ==
  LET given == {taken[i].id : i \in 1..Len(taken)}
      sampled == query.kind = "walk" /\ query.sample # None
  IN  /\ given \subseteq Answer(ever, query)
      /\ complete /\ ~ sampled => Answer(throughout, query) \subseteq given

\* A read that has ended is answered, in spite of the appends and purges between its
\* statements. (A walk both ways by pages follows other paths; an aggregate over a
\* subtree is SubtreesAnswered.)
NothingSkipped ==
  /\ pc = "ended"
  /\ query.kind = "walk" /\ query.direction = "both" => how = "whole"
  /\ query.kind = "aggregate" => ~ HasDoubleStar(query.pattern)
  => Answered

\* What AggregateQuery says of every pattern: the streams folded are those that the
\* pattern matches as it does for subscriptions.
SubtreesAnswered == pc = "ended" /\ query.kind = "aggregate" => Answered

\* A reader that goes on comes to the end of its pages, or to an error, when upcasters
\* lead to higher versions and budgets let an event through.
ReadsEnd == pc = "ready" ~> pc \in {"ended", "failed"}
=============================================================================
