----------------------------- MODULE Relay_proofs -----------------------------
(***************************************************************************)
(* Proofs about the relay, for any number of agents, streams, events and   *)
(* attempts: an event of the project is in the hub once, under its own id, *)
(* and what an agent appends of one stream is in the order of that stream. *)
(***************************************************************************)
EXTENDS Relay, TLAPS, SequenceTheorems

IsSeq(s) == s \in Seq({s[i] : i \in 1..Len(s)})
IsMap(f) == f = [a \in Agent |-> f[a]]

\* The local store holds an event once, and an id is a pair.
LogOK ==
  /\ IsSeq(log)
  /\ \A m, n \in 1..Len(log) : log[m] = log[n] => m = n
  /\ \A n \in 1..Len(log) : log[n] = <<log[n][1], log[n][2]>> /\ ContentOf(log[n]) \in Content

StreamAt(n) == LocalStream(log[n])

\* The hub holds an id once.
HubOK ==
  /\ IsSeq(hub)
  /\ \A i, j \in 1..Len(hub) : hub[i].id = hub[j].id => i = j

\* What an agent holds: at 0 the event it works on, and then what is in its channel.
Places(a) == {k \in 0..Len(feed[a]) : k = 0 => pc[a] \in Working}
HeldAt(a, k) == IF k = 0 THEN current[a] ELSE feed[a][k]

\* It holds events of the local store up to its cursors, and those of one stream in order.
Holds(a) ==
  /\ pc[a] \in {"down", "listening"} \cup Working
  /\ IsSeq(feed[a])
  /\ pc[a] = "down" => feed[a] = <<>>
  /\ cursor[a] \in [Stream -> Nat]
  /\ \A k \in Places(a) : \E m \in 1..Len(log) :
       HeldAt(a, k) = log[m] /\ m <= cursor[a][StreamAt(m)]
  /\ \A k, l \in Places(a) : \A m, n \in 1..Len(log) :
       k < l /\ HeldAt(a, k) = log[m] /\ HeldAt(a, l) = log[n] /\ StreamAt(m) = StreamAt(n) => m < n

AgentsOK ==
  /\ IsMap(pc) /\ IsMap(cursor) /\ IsMap(feed) /\ IsMap(current) /\ IsMap(cause)
  /\ \A a \in Agent : Holds(a)

\* The cause that is about to be appended is that of the event.
CauseKept == \A a \in Agent : pc[a] = "appending" => cause[a] = CauseOf(current[a])

\* An agent is past an event: it holds, and will be given, only later ones of its stream.
Passed(a, n) ==
  /\ n <= cursor[a][StreamAt(n)]
  /\ \A k \in Places(a) : \A m \in 1..Len(log) :
       HeldAt(a, k) = log[m] /\ StreamAt(m) = StreamAt(n) => n < m

\* An agent is past what it has appended.
Behind ==
  \A i \in 1..Len(hub) : hub[i].by # None =>
    \E n \in 1..Len(log) :
      /\ hub[i].ext = log[n]
      /\ \A a \in Agent : hub[i].by = a /\ pc[a] # "down" => Passed(a, n)

Ordered ==
  \A i, j \in 1..Len(hub) :
    i < j /\ hub[i].by # None /\ hub[i].by = hub[j].by =>
      \A m, n \in 1..Len(log) :
        hub[i].ext = log[m] /\ hub[j].ext = log[n] /\ StreamAt(m) = StreamAt(n) => m < n

IInv == LogOK /\ HubOK /\ AgentsOK /\ IdsKept /\ CauseKept /\ Behind /\ Ordered

-----------------------------------------------------------------------------
(* Sequences and maps.                                                      *)

LEMMA EmptyIsSeq == IsSeq(<<>>) /\ Len(<<>>) = 0
BY EmptySeq DEF IsSeq

LEMMA SeqFacts ==
  ASSUME NEW s, IsSeq(s)
  PROVE  Len(s) \in Nat
BY LenProperties DEF IsSeq

LEMMA ReindexedSeq ==
  ASSUME NEW S, NEW s \in Seq(S)
  PROVE  IsSeq(s)
<1>1. Len(s) \in Nat /\ s \in [1..Len(s) -> S]
  BY LenProperties
<1>2. s \in [1..Len(s) -> {s[i] : i \in 1..Len(s)}]
  BY <1>1
<1> QED
  BY <1>1, <1>2, SeqDef DEF IsSeq

LEMMA Appended ==
  ASSUME NEW s, IsSeq(s), NEW x
  PROVE  /\ IsSeq(Append(s, x)) /\ Len(s) \in Nat /\ Len(Append(s, x)) = Len(s) + 1
         /\ \A i \in 1..Len(s) : Append(s, x)[i] = s[i]
         /\ Append(s, x)[Len(s) + 1] = x
<1> DEFINE S == {s[i] : i \in 1..Len(s)} \cup {x}
<1>1. s \in [1..Len(s) -> S] /\ Len(s) \in Nat
  <2>1. s \in [1..Len(s) -> {s[i] : i \in 1..Len(s)}] /\ Len(s) \in Nat
    BY LenProperties DEF IsSeq
  <2> QED
    BY <2>1
<1>2. s \in Seq(S)
  BY <1>1, SeqDef
<1>3. /\ Append(s, x) \in Seq(S) /\ Len(Append(s, x)) = Len(s) + 1
      /\ \A i \in 1..Len(s) : Append(s, x)[i] = s[i]
      /\ Append(s, x)[Len(s) + 1] = x
  <2>1. x \in S
    OBVIOUS
  <2> HIDE DEF S
  <2> QED
    BY <1>2, <2>1, AppendProperties
<1> QED
  BY <1>1, <1>3, ReindexedSeq

LEMMA WithoutHead ==
  ASSUME NEW s, IsSeq(s), s # <<>>
  PROVE  /\ IsSeq(Tail(s)) /\ Len(s) \in Nat \ {0} /\ Len(Tail(s)) = Len(s) - 1
         /\ \A i \in 1..(Len(s) - 1) : Tail(s)[i] = s[i + 1]
         /\ Head(s) = s[1]
<1> DEFINE S == {s[i] : i \in 1..Len(s)}
<1>1. s \in Seq(S)
  BY DEF IsSeq
<1> HIDE DEF S
<1>2. Tail(s) \in Seq(S) /\ Len(Tail(s)) = Len(s) - 1 /\ Head(s) = s[1]
      /\ \A i \in 1..Len(Tail(s)) : Tail(s)[i] = s[i + 1]
  BY <1>1, HeadTailProperties
<1>3. Len(s) \in Nat \ {0}
  BY <1>1, EmptySeq, LenProperties
<1> QED
  BY <1>2, <1>3, ReindexedSeq

\* A row is put at the end of the hub, or its id is there.
LEMMA Inserted ==
  ASSUME HubOK, NEW row, Insert(row)
  PROVE  /\ IsSeq(hub') /\ Len(hub) \in Nat /\ Len(hub') \in Nat /\ Len(hub') >= Len(hub)
         /\ \A i \in 1..Len(hub) : hub'[i] = hub[i]
         /\ \A i \in 1..Len(hub') :
              i \notin 1..Len(hub) => i = Len(hub) + 1 /\ hub'[i] = row /\ row.id \notin HubIds
<1>1. IsSeq(hub) /\ Len(hub) \in Nat
  BY SeqFacts DEF HubOK
<1>2. CASE row.id \in HubIds
  BY <1>1, <1>2 DEF Insert
<1>3. CASE row.id \notin HubIds
  <2>1. hub' = Append(hub, row)
    BY <1>3 DEF Insert
  <2>2. /\ IsSeq(hub') /\ Len(hub') = Len(hub) + 1 /\ hub'[Len(hub) + 1] = row
        /\ \A i \in 1..Len(hub) : hub'[i] = hub[i]
    BY <1>1, <2>1, Appended
  <2>3. ASSUME NEW i \in 1..Len(hub'), i \notin 1..Len(hub) PROVE i = Len(hub) + 1
    BY <1>1, <2>2, <2>3
  <2> QED
    BY <1>1, <1>3, <2>2, <2>3
<1> QED
  BY <1>2, <1>3

-----------------------------------------------------------------------------
(* The parts of the invariant, step by step.                                *)

LEMMA InitIInv == Init => IInv
<1> SUFFICES ASSUME Init PROVE IInv
  OBVIOUS
<1>1. IsSeq(log) /\ IsSeq(hub) /\ Len(log) = 0 /\ Len(hub) = 0
  BY EmptyIsSeq DEF Init
<1>2. LogOK /\ HubOK /\ IdsKept /\ Behind /\ Ordered
  BY <1>1 DEF LogOK, HubOK, IdsKept, Behind, Ordered
<1>3. IsMap(pc) /\ IsMap(cursor) /\ IsMap(feed) /\ IsMap(current) /\ IsMap(cause)
  BY DEF Init, IsMap
<1>4. ASSUME NEW a \in Agent PROVE Holds(a) /\ pc[a] = "down"
  <2>1. Places(a) = {}
    BY EmptyIsSeq DEF Init, Places, Working
  <2> QED
    BY <2>1, EmptyIsSeq DEF Init, Holds
<1> QED
  BY <1>2, <1>3, <1>4 DEF IInv, AgentsOK, CauseKept

\* The local store grows at its end.
LEMMA LogStep ==
  ASSUME LogOK, [Next]_vars
  PROVE  /\ LogOK' /\ Len(log) \in Nat /\ Len(log') \in Nat /\ Len(log') >= Len(log)
         /\ \A n \in 1..Len(log) : log'[n] = log[n]
<1>1. IsSeq(log) /\ Len(log) \in Nat
  BY SeqFacts DEF LogOK
<1>2. ASSUME NEW c \in Content, NEW cs, Write(c, cs)
      PROVE  /\ LogOK' /\ Len(log') \in Nat /\ Len(log') >= Len(log)
             /\ \A n \in 1..Len(log) : log'[n] = log[n]
  <2>1. log' = Append(log, <<c, cs>>) /\ <<c, cs>> \notin LocalIds
    BY <1>2 DEF Write
  <2>2. /\ IsSeq(log') /\ Len(log') = Len(log) + 1 /\ log'[Len(log) + 1] = <<c, cs>>
        /\ \A n \in 1..Len(log) : log'[n] = log[n]
    BY <1>1, <2>1, Appended
  <2>3. ASSUME NEW m \in 1..Len(log'), NEW n \in 1..Len(log'), log'[m] = log'[n] PROVE m = n
    <3>1. \A i \in 1..Len(log') : i \in 1..Len(log) \/ i = Len(log) + 1
      BY <1>1, <2>2
    <3>2. \A i \in 1..Len(log) : log[i] # <<c, cs>>
      BY <2>1 DEF LocalIds
    <3> QED
      BY <1>1, <2>2, <2>3, <3>1, <3>2 DEF LogOK
  <2>4. ASSUME NEW n \in 1..Len(log')
        PROVE  log'[n] = <<log'[n][1], log'[n][2]>> /\ ContentOf(log'[n]) \in Content
    <3>1. CASE n \in 1..Len(log)
      BY <2>2, <3>1 DEF LogOK
    <3>2. CASE n = Len(log) + 1
      BY <2>2, <3>2 DEF ContentOf
    <3> QED
      BY <1>1, <2>2, <3>1, <3>2
  <2> QED
    BY <1>1, <2>2, <2>3, <2>4 DEF LogOK
<1>3. CASE UNCHANGED log
  BY <1>1, <1>3 DEF LogOK, IsSeq
<1>4. ASSUME NEW id, WriteOther(id) PROVE UNCHANGED log
  BY <1>4 DEF WriteOther
<1>5. ASSUME NEW a \in Agent,
             Start(a) \/ Crash(a) \/ Deliver(a) \/ Degrade(a) \/ Step(a)
      PROVE  UNCHANGED log
  BY <1>5 DEF Start, Crash, Deliver, Degrade, Step, Take, Check, Translate, AppendToHub,
              Retry, Skip
<1>6. CASE UNCHANGED vars
  BY <1>3, <1>6 DEF vars
<1> QED
  BY <1>1, <1>2, <1>3, <1>4, <1>5, <1>6 DEF Next

\* An agent's own part of the state is not changed by others.
Same(b) ==
  /\ pc'[b] = pc[b] /\ cursor'[b] = cursor[b] /\ feed'[b] = feed[b]
  /\ current'[b] = current[b] /\ cause'[b] = cause[b]

MapsOK == IsMap(pc) /\ IsMap(cursor) /\ IsMap(feed) /\ IsMap(current) /\ IsMap(cause)

\* Who is past an event stays so, and a new subscription is past all there is.
Moves(a) ==
  pc'[a] # "down" =>
    \A n \in 1..Len(log) : pc[a] = "down" \/ Passed(a, n) => Passed(a, n)'

\* What is held is at one position of the local store, before and after a step.
LEMMA HeldThere ==
  ASSUME LogOK, [Next]_vars, NEW x, NEW p \in 1..Len(log), x = log[p], NEW m \in 1..Len(log'), x = log'[m]
  PROVE  m = p /\ StreamAt(m)' = StreamAt(p)
<1>1. LogOK' /\ p \in 1..Len(log') /\ log'[p] = log[p]
  <2>1. /\ LogOK' /\ Len(log) \in Nat /\ Len(log') \in Nat /\ Len(log') >= Len(log)
        /\ \A n \in 1..Len(log) : log'[n] = log[n]
    BY LogStep
  <2>2. p \in 1..Len(log')
    BY <2>1
  <2>3. log'[p] = log[p]
    BY <2>1
  <2> QED
    BY <2>1, <2>2, <2>3
<1>2. m = p
  BY <1>1 DEF LogOK
<1> QED
  BY <1>1, <1>2 DEF StreamAt

\* An agent that is given nothing holds what it held, or the rest of it.
LEMMA HoldsRest ==
  ASSUME LogOK, [Next]_vars, NEW a \in Agent, Holds(a), cursor'[a] = cursor[a],
         pc'[a] \in {"down", "listening"} \cup Working, IsSeq(feed'[a]),
         pc'[a] = "down" => feed'[a] = <<>>,
         NEW d \in {0, 1},
         \A k \in Places(a)' : k \in Nat /\ k + d \in Places(a) /\ HeldAt(a, k)' = HeldAt(a, k + d)
  PROVE  Holds(a)' /\ \A n \in 1..Len(log) : Passed(a, n) => Passed(a, n)'
<1>1. /\ Len(log) \in Nat /\ Len(log') \in Nat /\ Len(log') >= Len(log)
      /\ \A n \in 1..Len(log) : log'[n] = log[n]
  BY LogStep
<1>2. \A n \in 1..Len(log) : n \in 1..Len(log') /\ StreamAt(n)' = StreamAt(n)
  BY <1>1 DEF StreamAt
<1>3. ASSUME NEW k \in Places(a)'
      PROVE  \E m \in 1..Len(log') : HeldAt(a, k)' = log'[m] /\ m <= cursor'[a][StreamAt(m)']
  <2>1. PICK m \in 1..Len(log) : HeldAt(a, k + d) = log[m] /\ m <= cursor[a][StreamAt(m)]
    BY DEF Holds
  <2> QED
    BY <1>1, <1>2, <2>1
<1>4. ASSUME NEW k \in Places(a)', NEW m \in 1..Len(log'), HeldAt(a, k)' = log'[m]
      PROVE  m \in 1..Len(log) /\ HeldAt(a, k + d) = log[m] /\ StreamAt(m)' = StreamAt(m)
  <2>1. PICK p \in 1..Len(log) : HeldAt(a, k + d) = log[p]
    BY DEF Holds
  <2>2. m = p
    <3>1. HeldAt(a, k + d) = log'[m]
      BY <1>4
    <3> QED
      BY <2>1, <3>1, HeldThere
  <2> QED
    BY <1>2, <2>1, <2>2
<1>5. ASSUME NEW k \in Places(a)', NEW l \in Places(a)', NEW m \in 1..Len(log'), NEW n \in 1..Len(log'),
             k < l, HeldAt(a, k)' = log'[m], HeldAt(a, l)' = log'[n], StreamAt(m)' = StreamAt(n)'
      PROVE  m < n
  <2>1. /\ m \in 1..Len(log) /\ HeldAt(a, k + d) = log[m] /\ StreamAt(m)' = StreamAt(m)
        /\ n \in 1..Len(log) /\ HeldAt(a, l + d) = log[n] /\ StreamAt(n)' = StreamAt(n)
    BY <1>4, <1>5
  <2>2. k + d \in Places(a) /\ l + d \in Places(a) /\ k + d < l + d
    BY <1>5
  <2> QED
    BY <1>5, <2>1, <2>2 DEF Holds
<1>6. Holds(a)'
  BY <1>3, <1>5 DEF Holds
<1>7. ASSUME NEW n \in 1..Len(log), Passed(a, n) PROVE Passed(a, n)'
  <2>1. n <= cursor'[a][StreamAt(n)']
    BY <1>2, <1>7 DEF Passed
  <2>2. ASSUME NEW k \in Places(a)', NEW m \in 1..Len(log'),
               HeldAt(a, k)' = log'[m], StreamAt(m)' = StreamAt(n)'
        PROVE  n < m
    <3>1. m \in 1..Len(log) /\ HeldAt(a, k + d) = log[m] /\ StreamAt(m) = StreamAt(n)
      BY <1>2, <1>4, <2>2
    <3>2. k + d \in Places(a)
      OBVIOUS
    <3> QED
      BY <1>7, <3>1, <3>2 DEF Passed
  <2> QED
    BY <2>1, <2>2 DEF Passed
<1> QED
  BY <1>6, <1>7

LEMMA HoldsSame ==
  ASSUME LogOK, [Next]_vars, NEW b \in Agent, Holds(b), Same(b)
  PROVE  Holds(b)' /\ Moves(b)
<1>1. \A k \in Places(b)' : k \in Nat /\ k + 0 \in Places(b) /\ HeldAt(b, k)' = HeldAt(b, k + 0)
  BY DEF Places, HeldAt, Same
<1>2. /\ cursor'[b] = cursor[b] /\ pc'[b] = pc[b] /\ feed'[b] = feed[b]
      /\ pc[b] \in {"down", "listening"} \cup Working
      /\ IsSeq(feed[b]) /\ (pc[b] = "down" => feed[b] = <<>>)
  BY DEF Holds, Same
<1>3. 0 \in {0, 1}
  OBVIOUS
<1> QED
  BY <1>1, <1>2, <1>3, HoldsRest DEF Moves

LEMMA Untouched ==
  ASSUME LogOK, AgentsOK, CauseKept, [Next]_vars, UNCHANGED <<pc, cursor, feed, current, cause>>
  PROVE  AgentsOK' /\ CauseKept' /\ \A b \in Agent : Moves(b)
<1>1. ASSUME NEW b \in Agent PROVE Holds(b) /\ Same(b)
  BY DEF AgentsOK, Same
<1>2. \A b \in Agent : Holds(b)' /\ Moves(b)
  BY <1>1, HoldsSame
<1>3. MapsOK'
  BY DEF AgentsOK, MapsOK, IsMap
<1>4. CauseKept'
  BY DEF CauseKept
<1> QED
  BY <1>2, <1>3, <1>4 DEF AgentsOK, MapsOK

\* When a step is that of an agent, only that agent's part has to be looked at.
LEMMA OneMoves ==
  ASSUME LogOK, AgentsOK, CauseKept, [Next]_vars, NEW a \in Agent, MapsOK',
         \A b \in Agent \ {a} : Same(b), Moves(a),
         Holds(a)', pc'[a] = "appending" => cause'[a] = CauseOf(current'[a])
  PROVE  AgentsOK' /\ CauseKept' /\ \A b \in Agent : Moves(b)
<1>1. \A b \in Agent \ {a} : Holds(b)' /\ Moves(b)
  BY HoldsSame DEF AgentsOK
<1>2. CauseKept'
  BY DEF CauseKept, Same
<1> QED
  BY <1>1, <1>2 DEF AgentsOK, MapsOK

LEMMA StartOK ==
  ASSUME LogOK, AgentsOK, CauseKept, [Next]_vars, NEW a \in Agent, Start(a)
  PROVE  AgentsOK' /\ CauseKept' /\ \A b \in Agent : Moves(b)
<1>1. /\ IsMap(pc') /\ pc'[a] = "listening" /\ \A b \in Agent \ {a} : pc'[b] = pc[b]
      /\ IsMap(cursor') /\ cursor'[a] = [s \in Stream |-> Len(log)]
      /\ \A b \in Agent \ {a} : cursor'[b] = cursor[b]
  BY DEF Start, AgentsOK, IsMap
<1>2. UNCHANGED <<log, feed, current, cause>> /\ feed[a] = <<>>
  BY DEF Start, AgentsOK, Holds
<1>3. Len(log) \in Nat /\ Len(feed'[a]) = 0 /\ IsSeq(feed'[a])
  BY <1>2, SeqFacts, EmptyIsSeq DEF LogOK
<1>4. Places(a)' = {}
  BY <1>1, <1>3 DEF Places, Working
<1>5. Holds(a)'
  BY <1>1, <1>2, <1>3, <1>4 DEF Holds
<1>6. ASSUME NEW n \in 1..Len(log) PROVE Passed(a, n)'
  <2>1. StreamAt(n)' \in Stream
    BY <1>2 DEF StreamAt, LocalStream, Stream, LogOK
  <2>2. n <= cursor'[a][StreamAt(n)']
    BY <1>1, <1>3, <2>1
  <2> QED
    BY <1>4, <2>2 DEF Passed
<1>7. MapsOK' /\ \A b \in Agent \ {a} : Same(b)
  BY <1>1, <1>2 DEF MapsOK, AgentsOK, IsMap, Same
<1>8. Moves(a)
  BY <1>6 DEF Moves
<1> QED
  BY <1>1, <1>5, <1>7, <1>8, OneMoves

LEMMA CrashOK ==
  ASSUME LogOK, AgentsOK, CauseKept, [Next]_vars, NEW a \in Agent, Crash(a)
  PROVE  AgentsOK' /\ CauseKept' /\ \A b \in Agent : Moves(b)
<1>1. /\ IsMap(pc') /\ pc'[a] = "down" /\ \A b \in Agent \ {a} : pc'[b] = pc[b]
      /\ IsMap(cursor') /\ cursor'[a] = [s \in Stream |-> 0]
      /\ \A b \in Agent \ {a} : cursor'[b] = cursor[b]
  BY DEF Crash, AgentsOK, IsMap
<1>2. /\ IsMap(feed') /\ feed'[a] = <<>> /\ \A b \in Agent \ {a} : feed'[b] = feed[b]
      /\ IsMap(current') /\ \A b \in Agent \ {a} : current'[b] = current[b]
      /\ IsMap(cause') /\ \A b \in Agent \ {a} : cause'[b] = cause[b]
  BY DEF Crash, AgentsOK, IsMap
<1>3. Places(a)' = {} /\ IsSeq(feed'[a])
  BY <1>1, <1>2, EmptyIsSeq DEF Places, Working
<1>4. Holds(a)'
  BY <1>1, <1>2, <1>3 DEF Holds
<1>5. MapsOK' /\ \A b \in Agent \ {a} : Same(b)
  BY <1>1, <1>2 DEF MapsOK, Same
<1> QED
  BY <1>1, <1>4, <1>5, OneMoves DEF Moves

\* A new event is behind all of its stream that the agent was given.
LEMMA DeliverOK ==
  ASSUME LogOK, AgentsOK, CauseKept, [Next]_vars, NEW a \in Agent, Deliver(a)
  PROVE  AgentsOK' /\ CauseKept' /\ \A b \in Agent : Moves(b)
<1>1. PICK n \in 1..Len(log) :
        /\ n > cursor[a][StreamAt(n)]
        /\ feed' = [feed EXCEPT ![a] = Append(@, log[n])]
        /\ cursor' = [cursor EXCEPT ![a][StreamAt(n)] = n]
  BY DEF Deliver, Awaited, StreamAt
<1>2. UNCHANGED <<log, pc, current, cause>> /\ pc[a] # "down"
  BY DEF Deliver, Waiting
<1>3. /\ IsSeq(feed[a]) /\ cursor[a] \in [Stream -> Nat] /\ Holds(a)
      /\ pc[a] \in {"down", "listening"} \cup Working
  BY DEF AgentsOK, Holds
<1>4. /\ IsMap(feed') /\ feed'[a] = Append(feed[a], log[n])
      /\ \A b \in Agent \ {a} : feed'[b] = feed[b]
      /\ IsMap(cursor') /\ cursor'[a] = [cursor[a] EXCEPT ![StreamAt(n)] = n]
      /\ \A b \in Agent \ {a} : cursor'[b] = cursor[b]
  BY <1>1 DEF AgentsOK, IsMap
<1>0. PICK z : z = Len(feed[a]) + 1
  OBVIOUS
<1>5. /\ IsSeq(feed'[a]) /\ Len(feed[a]) \in Nat /\ Len(feed'[a]) = z
      /\ \A i \in 1..Len(feed[a]) : feed'[a][i] = feed[a][i]
      /\ feed'[a][z] = log[n]
  BY <1>0, <1>3, <1>4, Appended
<1>6. \A m \in 1..Len(log) : StreamAt(m) \in Stream /\ StreamAt(m)' = StreamAt(m)
  BY <1>2 DEF StreamAt, LocalStream, Stream, LogOK
<1>7. Len(log) \in Nat /\ n \in Nat /\ Len(log') = Len(log)
  BY <1>2, SeqFacts DEF LogOK
<1>8. /\ cursor'[a] \in [Stream -> Nat] /\ cursor'[a][StreamAt(n)] = n
      /\ \A m \in 1..Len(log) :
           /\ cursor[a][StreamAt(m)] \in Nat
           /\ cursor[a][StreamAt(m)] <= cursor'[a][StreamAt(m)]
  BY <1>1, <1>3, <1>4, <1>6, <1>7
<1>9. /\ Places(a)' = Places(a) \cup {z} /\ z \notin Places(a)
      /\ \A k \in Places(a) : k \in Nat /\ k < z /\ HeldAt(a, k)' = HeldAt(a, k)
      /\ HeldAt(a, z)' = log[n] /\ z \in Nat
  <2>1. z \in Nat /\ 0..z = (0..Len(feed[a])) \cup {z} /\ z \notin 0..Len(feed[a]) /\ z # 0
    BY <1>0, <1>5
  <2>2. Places(a)' = {k \in 0..z : k = 0 => pc[a] \in Working}
    BY <1>2, <1>5 DEF Places
  <2>3. Places(a)' = Places(a) \cup {z} /\ z \notin Places(a)
    BY <2>1, <2>2 DEF Places
  <2>4. HeldAt(a, z)' = log[n]
    BY <1>5, <2>1 DEF HeldAt
  <2>5. ASSUME NEW k \in Places(a) PROVE k \in Nat /\ k < z /\ HeldAt(a, k)' = HeldAt(a, k)
    <3>1. k \in 0..Len(feed[a])
      BY DEF Places
    <3>2. k \in Nat /\ k < z
      BY <1>0, <1>5, <3>1
    <3>3. CASE k = 0
      BY <1>2, <3>2, <3>3 DEF HeldAt
    <3>4. CASE k # 0
      <4>1. k \in 1..Len(feed[a])
        BY <1>5, <3>1, <3>4
      <4> QED
        BY <1>5, <3>2, <3>4, <4>1 DEF HeldAt
    <3> QED
      BY <3>2, <3>3, <3>4
  <2> QED
    BY <2>1, <2>3, <2>4, <2>5
<1>10. \A m \in 1..Len(log) : log[m] = log[n] => m = n
  BY DEF LogOK
<1>11. ASSUME NEW k \in Places(a)'
       PROVE  \E m \in 1..Len(log') : HeldAt(a, k)' = log'[m] /\ m <= cursor'[a][StreamAt(m)']
  <2>1. CASE k \in Places(a)
    <3>1. PICK m \in 1..Len(log) : HeldAt(a, k) = log[m] /\ m <= cursor[a][StreamAt(m)]
      BY <1>3, <2>1 DEF Holds
    <3>2. m <= cursor'[a][StreamAt(m)]
      <4>1. /\ m \in Nat /\ cursor[a][StreamAt(m)] \in Nat /\ cursor'[a][StreamAt(m)] \in Nat
            /\ cursor[a][StreamAt(m)] <= cursor'[a][StreamAt(m)]
        BY <1>6, <1>7, <1>8
      <4> QED
        BY <3>1, <4>1
    <3> QED
      BY <1>2, <1>6, <1>9, <2>1, <3>1, <3>2
  <2>2. CASE k = z
    <3>1. HeldAt(a, k)' = log'[n] /\ n \in 1..Len(log') /\ StreamAt(n)' = StreamAt(n)
      <4>1. HeldAt(a, z)' = log[n]
        BY <1>9
      <4>2. HeldAt(a, k)' = HeldAt(a, z)'
        BY <2>2 DEF HeldAt
      <4> QED
        BY <1>2, <1>6, <4>1, <4>2
    <3>2. n <= cursor'[a][StreamAt(n)']
      BY <1>7, <1>8, <3>1
    <3> QED
      BY <3>1, <3>2
  <2> QED
    BY <1>9, <2>1, <2>2
<1>12. ASSUME NEW k \in Places(a), NEW m \in 1..Len(log), HeldAt(a, k) = log[m], StreamAt(m) = StreamAt(n)
       PROVE  m < n
  <2>1. PICK p \in 1..Len(log) : HeldAt(a, k) = log[p] /\ p <= cursor[a][StreamAt(p)]
    BY <1>3 DEF Holds
  <2>2. p = m
    BY <1>12, <2>1 DEF LogOK
  <2> QED
    BY <1>1, <1>7, <1>8, <1>12, <2>1, <2>2
<1>13. ASSUME NEW k \in Places(a)', NEW l \in Places(a)', NEW m \in 1..Len(log'), NEW p \in 1..Len(log'),
              k < l, HeldAt(a, k)' = log'[m], HeldAt(a, l)' = log'[p], StreamAt(m)' = StreamAt(p)'
       PROVE  m < p
  <2>1. /\ m \in 1..Len(log) /\ p \in 1..Len(log) /\ StreamAt(m) = StreamAt(p)
        /\ HeldAt(a, k)' = log[m] /\ HeldAt(a, l)' = log[p]
    BY <1>2, <1>6, <1>7, <1>13
  <2>2. k \in Places(a)
    BY <1>9, <1>13
  <2>3. CASE l \in Places(a)
    BY <1>3, <1>9, <1>13, <2>1, <2>2, <2>3 DEF Holds
  <2>4. CASE l = z
    <3>1. HeldAt(a, l)' = log[n]
      <4>1. HeldAt(a, z)' = log[n]
        BY <1>9
      <4> QED
        BY <2>4, <4>1 DEF HeldAt
    <3>2. p = n
      BY <1>10, <2>1, <3>1
    <3>3. HeldAt(a, k) = log[m]
      BY <1>9, <2>1, <2>2
    <3> QED
      BY <1>12, <2>1, <2>2, <3>2, <3>3
  <2> QED
    BY <1>9, <2>3, <2>4
<1>14. Holds(a)'
  BY <1>2, <1>3, <1>5, <1>8, <1>11, <1>13 DEF Holds
<1>15. ASSUME NEW p \in 1..Len(log), Passed(a, p) PROVE Passed(a, p)'
  <2>1. p \in Nat /\ p <= cursor[a][StreamAt(p)]
    BY <1>7, <1>15 DEF Passed
  <2>2. p <= cursor'[a][StreamAt(p)']
    <3>1. /\ cursor[a][StreamAt(p)] \in Nat /\ cursor'[a][StreamAt(p)] \in Nat
          /\ cursor[a][StreamAt(p)] <= cursor'[a][StreamAt(p)] /\ StreamAt(p)' = StreamAt(p)
      BY <1>6, <1>8
    <3> QED
      BY <2>1, <3>1
  <2>3. ASSUME NEW k \in Places(a)', NEW m \in 1..Len(log'),
               HeldAt(a, k)' = log'[m], StreamAt(m)' = StreamAt(p)'
        PROVE  p < m
    <3>1. m \in 1..Len(log) /\ StreamAt(m) = StreamAt(p) /\ HeldAt(a, k)' = log[m]
      BY <1>2, <1>6, <1>7, <2>3
    <3>2. CASE k \in Places(a)
      BY <1>9, <1>15, <3>1, <3>2 DEF Passed
    <3>3. CASE k = z
      <4>1. m = n
        <5>1. HeldAt(a, z)' = log[n]
          BY <1>9
        <5>2. HeldAt(a, k)' = log[n]
          BY <3>3, <5>1 DEF HeldAt
        <5> QED
          BY <1>10, <3>1, <5>2
      <4>2. cursor[a][StreamAt(p)] \in Nat /\ cursor[a][StreamAt(p)] < n
        BY <1>1, <1>8, <3>1, <4>1
      <4> QED
        BY <1>7, <2>1, <4>1, <4>2
    <3> QED
      BY <1>9, <3>2, <3>3
  <2> QED
    BY <2>2, <2>3 DEF Passed
<1>16. MapsOK' /\ \A b \in Agent \ {a} : Same(b)
  BY <1>2, <1>4 DEF MapsOK, AgentsOK, IsMap, Same
<1>17. pc'[a] = "appending" => cause'[a] = CauseOf(current'[a])
  BY <1>2 DEF CauseKept
<1>18. Moves(a)
  BY <1>2, <1>15 DEF Moves
<1> QED
  BY <1>14, <1>16, <1>17, <1>18, OneMoves

LEMMA TakeOK ==
  ASSUME LogOK, AgentsOK, CauseKept, [Next]_vars, NEW a \in Agent, Take(a)
  PROVE  AgentsOK' /\ CauseKept' /\ \A b \in Agent : Moves(b)
<1>1. /\ IsMap(pc') /\ pc'[a] = "checking" /\ \A b \in Agent \ {a} : pc'[b] = pc[b]
      /\ IsMap(feed') /\ feed'[a] = Tail(feed[a])
      /\ \A b \in Agent \ {a} : feed'[b] = feed[b]
      /\ IsMap(current') /\ current'[a] = Head(feed[a])
      /\ \A b \in Agent \ {a} : current'[b] = current[b]
  BY DEF Take, AgentsOK, IsMap
<1>2. UNCHANGED <<log, cursor, cause>> /\ pc[a] = "listening" /\ feed[a] # <<>>
  BY DEF Take
<1>3. Holds(a) /\ IsSeq(feed[a])
  BY DEF AgentsOK, Holds
<1>4. /\ IsSeq(feed'[a]) /\ Len(feed[a]) \in Nat \ {0} /\ Len(feed'[a]) = Len(feed[a]) - 1
      /\ \A i \in 1..(Len(feed[a]) - 1) : feed'[a][i] = feed[a][i + 1]
      /\ current'[a] = feed[a][1]
  BY <1>1, <1>2, <1>3, WithoutHead
<1>5. \A k \in Places(a)' : k \in Nat /\ k + 1 \in Places(a) /\ HeldAt(a, k)' = HeldAt(a, k + 1)
  BY <1>4 DEF Places, HeldAt
<1>6. pc'[a] \in {"down", "listening"} \cup Working /\ pc'[a] # "down" /\ 1 \in {0, 1}
  BY <1>1 DEF Working
<1>7. Holds(a)' /\ Moves(a)
  BY <1>2, <1>3, <1>4, <1>5, <1>6, HoldsRest DEF Moves
<1>8. MapsOK' /\ \A b \in Agent \ {a} : Same(b)
  BY <1>1, <1>2 DEF MapsOK, AgentsOK, IsMap, Same
<1> QED
  BY <1>1, <1>7, <1>8, OneMoves

\* The event is dealt with: the agent is past it.
LEMMA DoneOK ==
  ASSUME LogOK, AgentsOK, CauseKept, [Next]_vars, NEW a \in Agent,
         pc[a] \in Working, Done(a), UNCHANGED log
  PROVE  /\ AgentsOK' /\ CauseKept' /\ \A b \in Agent : Moves(b)
         /\ \A n \in 1..Len(log) : current[a] = log[n] => Passed(a, n)'
<1>1. /\ IsMap(pc') /\ pc'[a] = "listening" /\ \A b \in Agent \ {a} : pc'[b] = pc[b]
      /\ IsMap(current') /\ \A b \in Agent \ {a} : current'[b] = current[b]
      /\ IsMap(cause') /\ \A b \in Agent \ {a} : cause'[b] = cause[b]
  BY DEF Done, AgentsOK, IsMap
<1>2. UNCHANGED <<log, cursor, feed>> /\ pc[a] # "down"
  BY DEF Done, Working
<1>3. Holds(a) /\ IsSeq(feed[a]) /\ Len(feed[a]) \in Nat
  BY SeqFacts DEF AgentsOK, Holds
<1>4. /\ \A k \in Places(a)' : /\ k \in Nat /\ k + 0 \in Places(a) /\ k > 0
                               /\ HeldAt(a, k)' = HeldAt(a, k + 0)
      /\ 0 \in Places(a) /\ HeldAt(a, 0) = current[a]
  BY <1>1, <1>2, <1>3 DEF Places, HeldAt, Working
<1>5. pc'[a] \in {"down", "listening"} \cup Working /\ pc'[a] # "down" /\ 0 \in {0, 1}
  BY <1>1
<1>6. Holds(a)' /\ Moves(a)
  BY <1>2, <1>3, <1>4, <1>5, HoldsRest DEF Moves
<1>7. ASSUME NEW n \in 1..Len(log), current[a] = log[n] PROVE Passed(a, n)'
  <2>1. \A m \in 1..Len(log) : StreamAt(m)' = StreamAt(m)
    BY <1>2 DEF StreamAt
  <2>2. n <= cursor[a][StreamAt(n)]
    <3>1. PICK m \in 1..Len(log) : HeldAt(a, 0) = log[m] /\ m <= cursor[a][StreamAt(m)]
      BY <1>3, <1>4 DEF Holds
    <3>2. m = n
      BY <1>4, <1>7, <3>1 DEF LogOK
    <3> QED
      BY <3>1, <3>2
  <2>3. ASSUME NEW k \in Places(a)', NEW m \in 1..Len(log),
               HeldAt(a, k)' = log[m], StreamAt(m) = StreamAt(n)
        PROVE  n < m
    <3>1. k \in Places(a) /\ 0 < k /\ HeldAt(a, k) = log[m] /\ HeldAt(a, 0) = log[n]
      BY <1>4, <1>7, <2>3
    <3> QED
      BY <1>3, <1>4, <2>3, <3>1 DEF Holds
  <2> QED
    BY <1>2, <2>1, <2>2, <2>3 DEF Passed
<1>8. MapsOK' /\ \A b \in Agent \ {a} : Same(b)
  BY <1>1, <1>2 DEF MapsOK, AgentsOK, IsMap, Same
<1> QED
  BY <1>1, <1>6, <1>7, <1>8, OneMoves

\* It is worked on.
LEMMA WorkOK ==
  ASSUME LogOK, AgentsOK, CauseKept, [Next]_vars, NEW a \in Agent,
         pc[a] \in Working, NEW p \in Working, pc' = [pc EXCEPT ![a] = p], MapsOK',
         UNCHANGED <<log, cursor, feed, current>>,
         \A b \in Agent \ {a} : cause'[b] = cause[b],
         p = "appending" => cause'[a] = CauseOf(current[a])
  PROVE  AgentsOK' /\ CauseKept' /\ \A b \in Agent : Moves(b)
<1>1. pc'[a] = p /\ (\A b \in Agent \ {a} : pc'[b] = pc[b]) /\ p # "down" /\ pc[a] # "down"
  BY DEF AgentsOK, IsMap, Working
<1>2. \A k \in Places(a)' : k \in Nat /\ k + 0 \in Places(a) /\ HeldAt(a, k)' = HeldAt(a, k + 0)
  BY <1>1 DEF Places, HeldAt
<1>3. Holds(a) /\ IsSeq(feed'[a]) /\ pc'[a] \in {"down", "listening"} \cup Working /\ 0 \in {0, 1}
  BY <1>1 DEF AgentsOK, Holds
<1>4. Holds(a)' /\ Moves(a)
  BY <1>1, <1>2, <1>3, HoldsRest DEF Moves
<1>5. \A b \in Agent \ {a} : Same(b)
  BY <1>1 DEF Same
<1> QED
  BY <1>1, <1>4, <1>5, OneMoves

\* The agents hold later and later events of each stream.
LEMMA AgentStep ==
  ASSUME IInv, [Next]_vars
  PROVE  AgentsOK' /\ CauseKept' /\ \A a \in Agent : Moves(a)
<1>1. LogOK /\ AgentsOK /\ CauseKept
  BY DEF IInv
<1>2. CASE UNCHANGED <<pc, cursor, feed, current, cause>>
  BY <1>1, <1>2, Untouched
<1>3. ASSUME NEW c, NEW cs, Write(c, cs) PROVE UNCHANGED <<pc, cursor, feed, current, cause>>
  BY <1>3 DEF Write, agentVars
<1>4. ASSUME NEW id, WriteOther(id) PROVE UNCHANGED <<pc, cursor, feed, current, cause>>
  BY <1>4 DEF WriteOther, agentVars
<1>5. ASSUME NEW a \in Agent, Start(a)
      PROVE  AgentsOK' /\ CauseKept' /\ \A b \in Agent : Moves(b)
  BY <1>1, <1>5, StartOK
<1>6. ASSUME NEW a \in Agent, Crash(a)
      PROVE  AgentsOK' /\ CauseKept' /\ \A b \in Agent : Moves(b)
  BY <1>1, <1>6, CrashOK
<1>7. ASSUME NEW a \in Agent, Deliver(a)
      PROVE  AgentsOK' /\ CauseKept' /\ \A b \in Agent : Moves(b)
  BY <1>1, <1>7, DeliverOK
<1>8. ASSUME NEW a \in Agent, Degrade(a) PROVE UNCHANGED <<pc, cursor, feed, current, cause>>
  BY <1>8 DEF Degrade
<1>9. ASSUME NEW a \in Agent, Step(a)
      PROVE  AgentsOK' /\ CauseKept' /\ \A b \in Agent : Moves(b)
  <2>1. CASE Take(a)
    BY <1>1, <2>1, TakeOK
  <2>2. CASE pc[a] \in Working /\ Done(a) /\ UNCHANGED log
    BY <1>1, <2>2, DoneOK
  <2>3. CASE pc[a] = "checking" /\ pc' = [pc EXCEPT ![a] = "translating"]
             /\ UNCHANGED <<log, cursor, feed, current, cause>>
    <3>1. MapsOK'
      BY <1>1, <2>3 DEF MapsOK, AgentsOK, IsMap
    <3>2. pc[a] \in Working /\ "translating" \in Working
      BY <2>3 DEF Working
    <3>3. \A b \in Agent \ {a} : cause'[b] = cause[b]
      BY <2>3
    <3> QED
      BY <1>1, <2>3, <3>1, <3>2, <3>3, WorkOK
  <2>4. CASE Translate(a)
    <3>1. MapsOK' /\ \A b \in Agent \ {a} : cause'[b] = cause[b]
      BY <1>1, <2>4 DEF Translate, MapsOK, AgentsOK, IsMap
    <3>2. pc[a] \in Working /\ "appending" \in Working
      BY <2>4 DEF Translate, Working
    <3>3. cause'[a] = Translated(CauseOf(current[a]))
      BY <1>1, <2>4 DEF Translate, AgentsOK, IsMap
    <3>4. Translated(CauseOf(current[a])) = CauseOf(current[a])
      <4> DEFINE cs == CauseOf(current[a])
                 rows == Rows(HubStreamOf(cs), cs)
      <4>1. ASSUME cs # None, rows # {} PROVE hub[CHOOSE i \in rows : TRUE].id = cs
        <5>1. \A i \in rows : i \in 1..Len(hub) /\ hub[i].ext = cs
          BY DEF Rows
        <5>2. \A i \in rows : hub[i].id = cs
          BY <4>1, <5>1 DEF IInv, IdsKept
        <5> HIDE DEF rows, cs
        <5> QED
          BY <4>1, <5>2
      <4> QED
        BY <4>1 DEF Translated
    <3>5. UNCHANGED <<log, cursor, feed, current>> /\ pc' = [pc EXCEPT ![a] = "appending"]
      BY <2>4 DEF Translate
    <3> QED
      BY <1>1, <3>1, <3>2, <3>3, <3>4, <3>5, WorkOK
  <2>5. CASE Retry(a)
    <3>1. MapsOK' /\ \A b \in Agent \ {a} : cause'[b] = cause[b]
      BY <1>1, <2>5 DEF Retry, MapsOK, AgentsOK, IsMap
    <3>2. pc[a] \in Working /\ "checking" \in Working
      BY <2>5 DEF Retry, Working
    <3>3. UNCHANGED <<log, cursor, feed, current>> /\ pc' = [pc EXCEPT ![a] = "checking"]
      BY <2>5 DEF Retry
    <3> QED
      BY <1>1, <3>1, <3>2, <3>3, WorkOK
  <2>6. CASE Check(a)
    <3>1. \/ Done(a)
          \/ pc' = [pc EXCEPT ![a] = "translating"] /\ UNCHANGED <<cursor, feed, current, cause>>
      BY <2>6 DEF Check, agentVars
    <3>2. pc[a] = "checking" /\ UNCHANGED log /\ pc[a] \in Working
      BY <2>6 DEF Check, Working
    <3> QED
      BY <2>2, <2>3, <3>1, <3>2
  <2>7. CASE AppendToHub(a)
    BY <2>2, <2>7 DEF AppendToHub, Working
  <2>8. CASE Skip(a)
    BY <2>2, <2>8 DEF Skip
  <2> QED
    BY <1>9, <2>1, <2>4, <2>5, <2>6, <2>7, <2>8 DEF Step
<1>10. CASE UNCHANGED vars
  BY <1>2, <1>10 DEF vars, agentVars
<1> QED
  BY <1>2, <1>3, <1>4, <1>5, <1>6, <1>7, <1>8, <1>9, <1>10 DEF Next

\* The row that AppendToHub inserts.
RowOf(a) == [id |-> <<ContentOf(current[a]), cause[a]>>, stream |-> HubStreamOf(current[a]),
             ext |-> current[a], by |-> a]

\* The hub grows at its end, by what others write or by what an agent relays.
LEMMA HubStep ==
  ASSUME IInv, [Next]_vars
  PROVE  /\ HubOK' /\ Len(hub) \in Nat /\ Len(hub') \in Nat /\ Len(hub') >= Len(hub)
         /\ \A i \in 1..Len(hub) : hub'[i] = hub[i]
         /\ \A i \in 1..Len(hub') : i \notin 1..Len(hub) =>
              /\ i = Len(hub) + 1
              /\ \/ hub'[i].ext = None /\ hub'[i].by = None
                 \/ \E a \in Agent : AppendToHub(a) /\ hub'[i] = RowOf(a)
<1> DEFINE Grown(row) ==
             /\ HubOK' /\ Len(hub) \in Nat /\ Len(hub') \in Nat /\ Len(hub') >= Len(hub)
             /\ \A i \in 1..Len(hub) : hub'[i] = hub[i]
             /\ \A i \in 1..Len(hub') :
                  i \notin 1..Len(hub) => i = Len(hub) + 1 /\ hub'[i] = row
<1>1. HubOK
  BY DEF IInv
<1>2. ASSUME NEW row, Insert(row) PROVE Grown(row)
  <2>1. /\ IsSeq(hub') /\ Len(hub) \in Nat /\ Len(hub') \in Nat /\ Len(hub') >= Len(hub)
        /\ \A i \in 1..Len(hub) : hub'[i] = hub[i]
        /\ \A i \in 1..Len(hub') :
             i \notin 1..Len(hub) => i = Len(hub) + 1 /\ hub'[i] = row /\ row.id \notin HubIds
    BY <1>1, <1>2, Inserted
  <2>2. ASSUME NEW i \in 1..Len(hub'), NEW j \in 1..Len(hub'), hub'[i].id = hub'[j].id
        PROVE  i = j
    <3>1. \A n \in 1..Len(hub) : hub[n].id \in HubIds
      BY DEF HubIds
    <3>2. CASE i \in 1..Len(hub) /\ j \in 1..Len(hub)
      BY <1>1, <2>1, <2>2, <3>2 DEF HubOK
    <3>3. CASE i \notin 1..Len(hub) /\ j \notin 1..Len(hub)
      BY <2>1, <3>3
    <3>4. CASE i \in 1..Len(hub) /\ j \notin 1..Len(hub)
      BY <2>1, <2>2, <3>1, <3>4
    <3>5. CASE i \notin 1..Len(hub) /\ j \in 1..Len(hub)
      BY <2>1, <2>2, <3>1, <3>5
    <3> QED
      BY <3>2, <3>3, <3>4, <3>5
  <2> QED
    BY <2>1, <2>2 DEF HubOK
<1>3. CASE UNCHANGED hub
  <2>1. Len(hub) \in Nat /\ HubOK'
    BY <1>1, <1>3, SeqFacts DEF HubOK, IsSeq
  <2> QED
    BY <1>3, <2>1
<1>4. ASSUME NEW c, NEW cs, Write(c, cs) PROVE UNCHANGED hub
  BY <1>4 DEF Write
<1>5. ASSUME NEW a \in Agent,
             Start(a) \/ Crash(a) \/ Deliver(a) \/ Degrade(a) \/ Take(a) \/ Check(a)
             \/ Translate(a) \/ Retry(a) \/ Skip(a)
      PROVE  UNCHANGED hub
  BY <1>5 DEF Start, Crash, Deliver, Degrade, Take, Check, Translate, Retry, Skip
<1>6. ASSUME NEW id, WriteOther(id)
      PROVE  Grown([id |-> id, stream |-> Foreign, ext |-> None, by |-> None])
  BY <1>2, <1>6 DEF WriteOther
<1>7. ASSUME NEW a \in Agent, AppendToHub(a) PROVE Grown(RowOf(a))
  <2>1. Insert(RowOf(a))
    BY <1>7 DEF AppendToHub, RowOf
  <2> QED
    BY <1>2, <2>1
<1>8. CASE UNCHANGED vars
  BY <1>3, <1>8 DEF vars
<1>9. CASE \E id \in OtherId : WriteOther(id)
  <2>1. PICK id \in OtherId : WriteOther(id)
    BY <1>9
  <2>2. Grown([id |-> id, stream |-> Foreign, ext |-> None, by |-> None])
    BY <1>6, <2>1
  <2> QED
    BY <2>2
<1>10. CASE \E a \in Agent : AppendToHub(a)
  <2>1. PICK a \in Agent : AppendToHub(a)
    BY <1>10
  <2>2. Grown(RowOf(a))
    BY <1>7, <2>1
  <2> QED
    BY <2>1, <2>2
<1> QED
  BY <1>3, <1>4, <1>5, <1>8, <1>9, <1>10 DEF Next, Step

\* What AppendToHub relays: an event before those of its stream that the agent still
\* holds, and after those that it has passed.
LEMMA Relayed ==
  ASSUME IInv, [Next]_vars, NEW a \in Agent, AppendToHub(a)
  PROVE  /\ pc[a] # "down" /\ log' = log /\ RowOf(a).id = current[a]
         /\ \E n \in 1..Len(log) :
              /\ current[a] = log[n] /\ Passed(a, n)'
              /\ \A m \in 1..Len(log) : Passed(a, m) /\ StreamAt(m) = StreamAt(n) => m < n
<1>1. pc[a] \in Working /\ pc[a] = "appending" /\ Done(a) /\ UNCHANGED log
  BY DEF AppendToHub, Working
<1>2. Holds(a) /\ Len(feed[a]) \in Nat
  BY SeqFacts DEF IInv, AgentsOK, Holds
<1>3. 0 \in Places(a) /\ HeldAt(a, 0) = current[a]
  BY <1>1, <1>2 DEF Places, HeldAt
<1>4. PICK n \in 1..Len(log) : current[a] = log[n]
  BY <1>2, <1>3 DEF Holds
<1>5. Passed(a, n)'
  BY <1>1, <1>4, DoneOK DEF IInv
<1>6. \A m \in 1..Len(log) : Passed(a, m) /\ StreamAt(m) = StreamAt(n) => m < n
  BY <1>3, <1>4 DEF Passed
<1>7. RowOf(a).id = current[a]
  <2>1. current[a] = <<current[a][1], current[a][2]>>
    BY <1>4 DEF IInv, LogOK
  <2>2. cause[a] = current[a][2]
    BY <1>1 DEF IInv, CauseKept, CauseOf
  <2>3. RowOf(a).id = <<current[a][1], cause[a]>>
    BY DEF RowOf, ContentOf
  <2> QED
    BY <2>1, <2>2, <2>3
<1>8. pc[a] # "down"
  BY <1>1
<1> QED
  BY <1>1, <1>4, <1>5, <1>6, <1>7, <1>8

LEMMA IdsStep == IInv /\ [Next]_vars => IdsKept'
<1> SUFFICES ASSUME IInv, [Next]_vars PROVE IdsKept'
  OBVIOUS
<1>1. ASSUME NEW i \in 1..Len(hub'), hub'[i].ext # None PROVE hub'[i].id = hub'[i].ext
  <2>1. CASE i \in 1..Len(hub)
    BY <1>1, <2>1, HubStep DEF IInv, IdsKept
  <2>2. CASE i \notin 1..Len(hub)
    <3>1. PICK a \in Agent : AppendToHub(a) /\ hub'[i] = RowOf(a)
      BY <1>1, <2>2, HubStep
    <3>2. RowOf(a).ext = current[a] /\ RowOf(a).id = current[a]
      BY <3>1, Relayed DEF RowOf
    <3> QED
      BY <3>1, <3>2
  <2> QED
    BY <2>1, <2>2
<1> QED
  BY <1>1 DEF IdsKept

\* The position of a row that an agent appended, before and after a step.
LEMMA BehindOne ==
  ASSUME IInv, NEW i \in 1..Len(hub), hub[i].by # None
  PROVE  \E n \in 1..Len(log) :
           /\ hub[i].ext = log[n]
           /\ \A a \in Agent : hub[i].by = a /\ pc[a] # "down" => Passed(a, n)
BY DEF IInv, Behind

LEMMA BehindStep == IInv /\ [Next]_vars => Behind'
<1> SUFFICES ASSUME IInv, [Next]_vars PROVE Behind'
  OBVIOUS
<1>1. /\ Len(log) \in Nat /\ Len(log') \in Nat /\ Len(log') >= Len(log)
      /\ \A n \in 1..Len(log) : log'[n] = log[n]
  BY LogStep DEF IInv
<1>2. ASSUME NEW i \in 1..Len(hub'), hub'[i].by # None
      PROVE  \E n \in 1..Len(log') :
               /\ hub'[i].ext = log'[n]
               /\ \A a \in Agent : hub'[i].by = a /\ pc'[a] # "down" => Passed(a, n)'
  <2>1. CASE i \in 1..Len(hub)
    <3>1. hub'[i] = hub[i]
      BY <2>1, HubStep
    <3>2. PICK n \in 1..Len(log) :
            /\ hub[i].ext = log[n]
            /\ \A a \in Agent : hub[i].by = a /\ pc[a] # "down" => Passed(a, n)
      BY <1>2, <2>1, <3>1, BehindOne
    <3>3. \A a \in Agent : hub[i].by = a /\ pc'[a] # "down" => Passed(a, n)'
      BY <3>2, AgentStep DEF Moves
    <3>4. n \in 1..Len(log') /\ hub'[i].ext = log'[n]
      BY <1>1, <3>1, <3>2
    <3> QED
      BY <3>1, <3>3, <3>4
  <2>2. CASE i \notin 1..Len(hub)
    <3>1. PICK a \in Agent : AppendToHub(a) /\ hub'[i] = RowOf(a)
      BY <1>2, <2>2, HubStep
    <3>2. RowOf(a).ext = current[a] /\ RowOf(a).by = a
      BY DEF RowOf
    <3>3. PICK n \in 1..Len(log) : current[a] = log[n] /\ Passed(a, n)' /\ log' = log
      BY <3>1, Relayed
    <3> QED
      BY <3>1, <3>2, <3>3
  <2> QED
    BY <2>1, <2>2
<1> QED
  BY <1>2 DEF Behind

LEMMA OrderedStep == IInv /\ [Next]_vars => Ordered'
<1> SUFFICES ASSUME IInv, [Next]_vars PROVE Ordered'
  OBVIOUS
<1>1. /\ LogOK' /\ Len(log) \in Nat /\ Len(log') \in Nat /\ Len(log') >= Len(log)
      /\ \A n \in 1..Len(log) : log'[n] = log[n]
  BY LogStep DEF IInv
<1>2. /\ Len(hub) \in Nat /\ Len(hub') \in Nat
      /\ \A i \in 1..Len(hub) : hub'[i] = hub[i]
      /\ \A i \in 1..Len(hub') : i \notin 1..Len(hub) => i = Len(hub) + 1
  BY HubStep
<1>3. ASSUME NEW i \in 1..Len(hub'), NEW j \in 1..Len(hub'), i < j,
             hub'[i].by # None, hub'[i].by = hub'[j].by,
             NEW m \in 1..Len(log'), NEW n \in 1..Len(log'),
             hub'[i].ext = log'[m], hub'[j].ext = log'[n], StreamAt(m)' = StreamAt(n)'
      PROVE  m < n
  <2>1. i \in 1..Len(hub) /\ hub'[i] = hub[i]
    BY <1>2, <1>3
  <2>2. PICK p \in 1..Len(log) :
          /\ hub[i].ext = log[p]
          /\ \A a \in Agent : hub[i].by = a /\ pc[a] # "down" => Passed(a, p)
    BY <1>3, <2>1, BehindOne
  <2>3. m = p /\ StreamAt(m)' = StreamAt(p)
    <3>1. \A x : x = log[p] /\ x = log'[m] => m = p /\ StreamAt(m)' = StreamAt(p)
      BY HeldThere DEF IInv
    <3> QED
      BY <1>3, <2>1, <2>2, <3>1
  <2>4. CASE j \in 1..Len(hub)
    <3>1. hub'[j] = hub[j]
      BY <1>2, <2>4
    <3>2. PICK q \in 1..Len(log) : hub[j].ext = log[q]
      BY <1>3, <2>1, <2>4, <3>1, BehindOne
    <3>3. n = q /\ StreamAt(n)' = StreamAt(q)
      <4>1. \A x : x = log[q] /\ x = log'[n] => n = q /\ StreamAt(n)' = StreamAt(q)
        BY HeldThere DEF IInv
      <4> QED
        BY <1>3, <3>1, <3>2, <4>1
    <3>4. p < q
      BY <1>3, <2>1, <2>2, <2>3, <2>4, <3>1, <3>2, <3>3 DEF IInv, Ordered
    <3> QED
      BY <2>3, <3>3, <3>4
  <2>5. CASE j \notin 1..Len(hub)
    <3>1. PICK a \in Agent : AppendToHub(a) /\ hub'[j] = RowOf(a)
      BY <1>3, <2>5, HubStep
    <3>2. RowOf(a).ext = current[a] /\ RowOf(a).by = a
      BY DEF RowOf
    <3>3. PICK q \in 1..Len(log) :
            /\ current[a] = log[q] /\ log' = log /\ pc[a] # "down"
            /\ \A k \in 1..Len(log) : Passed(a, k) /\ StreamAt(k) = StreamAt(q) => k < q
      BY <3>1, Relayed
    <3>4. n = q /\ StreamAt(n)' = StreamAt(q)
      <4>1. \A x : x = log[q] /\ x = log'[n] => n = q /\ StreamAt(n)' = StreamAt(q)
        BY HeldThere DEF IInv
      <4> QED
        BY <1>3, <3>1, <3>2, <3>3, <4>1
    <3>5. Passed(a, p)
      BY <1>3, <2>1, <2>2, <3>1, <3>2, <3>3
    <3>6. p < q
      BY <1>3, <2>3, <3>3, <3>4, <3>5
    <3> QED
      BY <2>3, <3>4, <3>6
  <2> QED
    BY <2>4, <2>5
<1> QED
  BY <1>3 DEF Ordered

-----------------------------------------------------------------------------
(* Theorems.                                                                *)

\* Each agent holds events of each stream in order, and is past those it has appended.
THEOREM Invariant == Spec => []IInv
<1>1. Init => IInv
  BY InitIInv
<1>2. IInv /\ [Next]_vars => IInv'
  <2> SUFFICES ASSUME IInv, [Next]_vars PROVE IInv'
    OBVIOUS
  <2>1. LogOK'
    BY LogStep DEF IInv
  <2>2. HubOK'
    BY HubStep
  <2>3. AgentsOK' /\ CauseKept'
    BY AgentStep
  <2> QED
    BY <2>1, <2>2, <2>3, IdsStep, BehindStep, OrderedStep DEF IInv
<1> QED
  BY <1>1, <1>2, PTL DEF Spec

\* Relayed events keep their id, although relay_event translates the cause and
\* hub_store.append computes the id anew.
THEOREM IdsKeptHolds == Spec => []IdsKept
<1>1. IInv => IdsKept
  BY DEF IInv
<1> QED
  BY <1>1, Invariant, PTL

\* An event of the project is in the hub once, although relay_event looks for it and
\* appends it in two steps and any number of agents do so.
THEOREM RelayedOnceHolds == Spec => []RelayedOnce
<1>1. IInv => RelayedOnce
  <2> SUFFICES ASSUME IInv, NEW i \in 1..Len(hub), NEW j \in 1..Len(hub),
                      hub[i].ext # None, hub[i].ext = hub[j].ext
               PROVE  i = j
    BY DEF RelayedOnce
  <2>1. hub[i].id = hub[j].id
    BY DEF IInv, IdsKept
  <2> QED
    BY <2>1 DEF IInv, HubOK
<1> QED
  BY <1>1, Invariant, PTL

\* What an agent appends to the hub of one stream is in the order of that stream, although
\* events of different streams reach it in any order.
THEOREM InLocalOrderHolds == Spec => []InLocalOrder
<1>1. IInv => InLocalOrder
  <2> SUFFICES ASSUME IInv, NEW i \in 1..Len(hub), NEW j \in 1..Len(hub),
                      i < j, hub[i].by # None, hub[i].by = hub[j].by,
                      LocalStream(hub[i].ext) = LocalStream(hub[j].ext)
               PROVE  Position(hub[i].ext) < Position(hub[j].ext)
    BY DEF InLocalOrder
  <2>1. PICK m \in 1..Len(log) : hub[i].ext = log[m]
    BY BehindOne
  <2>2. PICK n \in 1..Len(log) : hub[j].ext = log[n]
    BY BehindOne
  <2>3. ASSUME NEW k \in 1..Len(log) PROVE Position(log[k]) = k
    <3>1. \A l \in 1..Len(log) : log[l] = log[k] => l = k
      BY DEF IInv, LogOK
    <3> QED
      BY <3>1 DEF Position
  <2>4. m < n
    BY <2>1, <2>2 DEF IInv, Ordered, StreamAt
  <2> QED
    BY <2>1, <2>2, <2>3, <2>4
<1> QED
  BY <1>1, Invariant, PTL
=============================================================================
