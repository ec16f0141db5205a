----------------------------- MODULE MCEventStore -----------------------------
(***************************************************************************)
(* A small instance of EventStore: two clients, a user stream that may or  *)
(* may not be declared and the system stream, one branch, two event ids    *)
(* and two audit ids, batches of up to two.                                *)
(***************************************************************************)
EXTENDS EventStore, TLC

CONSTANTS c1, c2, user, system, main, e1, e2, a1, a2

MCSymmetry == Permutations({c1, c2}) \cup Permutations({e1, e2})
                \cup Permutations({a1, a2})
=============================================================================
