------------------------------ MODULE MCDelivery ------------------------------
(***************************************************************************)
(* Instances of Delivery: `a` and `b` are user streams, `system` is the    *)
(* system stream, and the subscriptions are `exact` (a PostCommit one on   *)
(* a), `glob` (a PostCommit one on a and b), `sync` (a Synchronous one on  *)
(* a) and `observer` (a PostCommit one on the system stream).              *)
(***************************************************************************)
EXTENDS Delivery, TLC

CONSTANTS a, b, system, exact, glob, sync, observer, w1, w2

MCPattern ==
  [s \in Sub |-> IF s = glob THEN {a, b} ELSE IF s = observer THEN {system} ELSE {a}]

\* The threads of this process append to stream a.
AllToA == [w \in Writer |-> {a}]
\* ... or to stream b.
AllToB == [w \in Writer |-> {b}]
\* No stream holds an event yet.
Empty == [t \in Topic |-> 0]
\* Both user streams hold one event.
OneEach == [t \in Topic |-> IF t = system THEN 0 ELSE 1]
\* Bounds on the events of the streams. ThreeInOne leaves two new ones besides those of
\* OneEach, in one stream or in both.
TwoInEach == {[t \in Topic |-> 2]}
ThreeInOne ==
  {[t \in Topic |-> IF t = x THEN 3 ELSE IF t = system THEN 2 ELSE 1] : x \in {a, b}}
    \cup TwoInEach
\* Only stream a holds an event.
OneInA == [t \in Topic |-> IF t = a THEN 1 ELSE 0]

WriterSymmetry == Permutations(Writer)
=============================================================================
