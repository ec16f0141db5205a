----------------------------- MODULE MCBranches -----------------------------
(***************************************************************************)
(* An instance of Catalogue, with two threads of process p and one of      *)
(* process q; each of the threads opens the file.                          *)
(***************************************************************************)
EXTENDS Catalogue

CONSTANTS p, q, t1, t2, t3, b1, b2

MCProcessOf == [t \in Thread |-> IF t = t3 THEN q ELSE p]
\* Each branch is forked from the trunk or from the other one.
MCCreation ==
  {[branch |-> b1, parent |-> Main, version |-> 0], [branch |-> b1, parent |-> b2, version |-> 1],
   [branch |-> b2, parent |-> Main, version |-> 1], [branch |-> b2, parent |-> b1, version |-> 0]}

MCStreamName == {<<"a">>, <<"a", "b">>, <<"b", "a">>, <<"a", "b", "c">>}
MCStreamPattern ==
  {<<"a">>, <<"*">>, <<"**">>, <<"a", "*">>, <<"*", "a">>, <<"a", "**">>, <<"a", "b", "*">>,
   <<"a", "*", "c">>, <<"*", "b", "*">>, <<"**", "c">>}
=============================================================================
