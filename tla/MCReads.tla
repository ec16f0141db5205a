------------------------------- MODULE MCReads -------------------------------
(***************************************************************************)
(* An instance of Reads: five events of two streams, 5 the cause of 3,     *)
(* which is that of 1 and 4, and 4 that of 2. Event 2 is not stored at the *)
(* start.                                                                  *)
(***************************************************************************)
EXTENDS Reads

CONSTANTS t, u, g

A == <<"a">>
B == <<"a", "b">>

MCStream == {A, B}
MCCause == <<3, 4, 5, 3, None>>
MCGroup == <<g, g, None, g, None>>
MCType == <<t, t, t, u, t>>
MCTypeVersion == <<1, 2, 1, 1, 1>>
MCSize == <<1, 2, 1, 1, 1>>
MCRows == {[id |-> 5, stream |-> A, version |-> 0],
           [id |-> 3, stream |-> A, version |-> 1],
           [id |-> 1, stream |-> A, version |-> 2],
           [id |-> 4, stream |-> B, version |-> 0]}

RangeOf(to, type, limit) ==
  [kind |-> "range", stream |-> A, from |-> 0, to |-> to, type |-> type, limit |-> limit]
Walk(start, direction, sample) ==
  [kind |-> "walk", start |-> start, direction |-> direction, depth |-> 3, sample |-> sample]
Aggregate(pattern, type) == [kind |-> "aggregate", pattern |-> pattern, type |-> type]

MCQuery ==
  {RangeOf(None, None, None), RangeOf(2, t, 1),
   [kind |-> "correlation", group |-> g], [kind |-> "batch", ids |-> {1, 2}],
   Walk(5, "forward", None), Walk(5, "forward", 1), Walk(2, "backward", None),
   Walk(3, "both", None), Aggregate(<<Star>>, None), Aggregate(<<"a", Star>>, t)}
\* A walk both ways, all levels deep.
BothWays == {Walk(5, "both", None)}
\* From the middle, with events on either side.
FromTheMiddle == {Walk(3, "both", None)}
\* All streams under a, and a itself.
Subtree == {Aggregate(<<"a", DoubleStar>>, None)}

MCBudget == {[results |-> 1, bytes |-> None], [results |-> 2, bytes |-> None],
             [results |-> None, bytes |-> 2]}
MCUpcaster == {[type |-> t, from |-> 1, to |-> 2], [type |-> t, from |-> 2, to |-> 3]}
=============================================================================
