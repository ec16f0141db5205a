--------------------------- MODULE ReducerRegistry ---------------------------
(***************************************************************************)
(* The registry of reducers of a store (reducers.rs): which pattern of     *)
(* streams may join it, and which of its reducers a stream is given.       *)
(***************************************************************************)
EXTENDS Patterns

CONSTANTS
  StreamPattern,  \* the patterns under which reducers are registered
  StreamName      \* the streams whose state is read

VARIABLE entries  \* the patterns of the registered reducers, in order

Init == entries = <<>>

AmbiguousSameLength(p, q) ==
  /\ Len(p) = Len(q)
  /\ MayOverlap(p, q)
  /\ Specificity(p) = Specificity(q)
Ambiguous(p, q) == MayOverlap(p, q) /\ Specificity(p) = Specificity(q)

\* register_with_policy and register_dyn_with_policy, under the write lock: a pattern
\* that may overlap one of the same specificity is refused (ReducerPatternAmbiguous).
RegisterReducer(p) ==
  entries' = IF \E i \in 1..Len(entries) : Ambiguous(p, entries[i]) THEN entries
             ELSE Append(entries, p)

Next == \E p \in StreamPattern : RegisterReducer(p)

Spec == Init /\ [][Next]_entries

\* find_arc_with_policy: of the entries that match, the first of the most specific
\* ones; 0 if there is none.
Matching(s) == {i \in 1..Len(entries) : Matches(entries[i], s)}
Found(s) ==
  IF Matching(s) = {} THEN 0
  ELSE CHOOSE i \in Matching(s) :
         \A j \in Matching(s) :
           \/ Specificity(entries[j]) < Specificity(entries[i])
           \/ Specificity(entries[j]) = Specificity(entries[i]) /\ i <= j

\* The reducer of a stream does not depend on the order of the registrations: no other
\* that matches it is as specific.
OneMostSpecific ==
  \A s \in StreamName :
    \A j \in Matching(s) \ {Found(s)} :
      Specificity(entries[j]) < Specificity(entries[Found(s)])
=============================================================================
