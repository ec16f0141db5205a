----------------------------- MODULE MCSnapshots -----------------------------
(***************************************************************************)
(* A small instance of Snapshots: two processes with a thread each, and    *)
(* two reducers of one name, the second with another state schema, a more  *)
(* specific pattern and another snapshot policy.                           *)
(***************************************************************************)
EXTENDS Snapshots, TLC

CONSTANTS p1, p2

\* The one thread of a process has its name.
MCHome == [t \in {p1, p2} |-> t]
MCSymmetry == Permutations({p1, p2})

Counting(k) == [kind |-> "EveryNEvents", n |-> k]
MCReducers ==
  {[name |-> "count", version |-> 1, schema |-> 1, specificity |-> 1,
    policy |-> Counting(1)],
   [name |-> "count", version |-> 2, schema |-> 2, specificity |-> 2,
    policy |-> [kind |-> "StateAdaptive", n |-> 1]]}
=============================================================================
