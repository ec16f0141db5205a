------------------------------- MODULE Patterns -------------------------------
(***************************************************************************)
(* Globs over stream names (glob.rs), the overlap test by which reducers   *)
(* are registered (reducers.rs) and the GLOB of SQLite by which an         *)
(* aggregate selects its rows (cross_stream.rs).                           *)
(*                                                                         *)
(* A name, or a pattern, is the sequence of its segments, as split('/')    *)
(* returns it.                                                             *)
(***************************************************************************)
EXTENDS Naturals, Sequences

Star == "*"
DoubleStar == "**"
IsWildcard(segment) == segment \in {Star, DoubleStar}

\* m[i] are the places of s from which on it matches the parts of p from i on.
Matches(p, s) ==
  LET m[i \in 1..(Len(p) + 1)] ==
        IF i > Len(p) THEN {Len(s) + 1}
        ELSE IF p[i] = DoubleStar THEN {j \in 1..(Len(s) + 1) : \E k \in m[i + 1] : j <= k}
        ELSE {j \in 1..Len(s) : (p[i] = Star \/ p[i] = s[j]) /\ j + 1 \in m[i + 1]}
  IN  1 \in m[1]

\* The number of segments before the first wildcard.
Specificity(p) ==
  CHOOSE n \in 0..Len(p) :
    /\ \A i \in 1..n : ~ IsWildcard(p[i])
    /\ n = Len(p) \/ IsWildcard(p[n + 1])

HasDoubleStar(p) == \E i \in 1..Len(p) : p[i] = DoubleStar

\* patterns_may_overlap: with a `**` on either side they are taken to overlap.
MayOverlap(p, q) ==
  \/ HasDoubleStar(p)
  \/ HasDoubleStar(q)
  \/ /\ Len(p) = Len(q)
     /\ \A i \in 1..Len(p) : p[i] = Star \/ q[i] = Star \/ p[i] = q[i]

\* A name with its separators, as SQLite sees it: GLOB compares characters, and
\* a run of stars stands for any characters, separators included.
Spelled(s) == [i \in 1..(2 * Len(s) - 1) |-> IF i % 2 = 1 THEN s[(i + 1) \div 2] ELSE "/"]

SqlGlob(p, s) ==
  LET pt == Spelled(p)
      st == Spelled(s)
      m[i \in 1..(Len(pt) + 1)] ==
        IF i > Len(pt) THEN {Len(st) + 1}
        ELSE IF IsWildcard(pt[i]) THEN {j \in 1..(Len(st) + 1) : \E k \in m[i + 1] : j <= k}
        ELSE {j \in 1..Len(st) : pt[i] = st[j] /\ j + 1 \in m[i + 1]}
  IN  1 \in m[1]
=============================================================================
