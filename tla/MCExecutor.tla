------------------------------ MODULE MCExecutor ------------------------------
(***************************************************************************)
(* A small instance of Executor: the hourly collection and two one-shot    *)
(* tasks that are to be reported if they are not executed.                 *)
(***************************************************************************)
EXTENDS Executor, TLC

CONSTANTS gc, snap, save, h1, h2

MCProfile ==
  gc :> [priority |-> 0, persist |-> FALSE, recurring |-> TRUE]
    @@ snap :> [priority |-> 1, persist |-> TRUE, recurring |-> FALSE]
    @@ save :> [priority |-> 1, persist |-> TRUE, recurring |-> FALSE]
=============================================================================
