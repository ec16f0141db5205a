------------------------------ MODULE StateReads ------------------------------
(***************************************************************************)
(* What fossic promises of read_state: a read that begins and returns sees *)
(* the fold of all the events the stream has at some moment in between.    *)
(* There are no snapshots here.                                            *)
(***************************************************************************)
EXTENDS Reduction

CONSTANTS
  Threads,
  Reducers,
  Bounds,   \* up to which version a read may ask for the state
  None      \* no read

VARIABLES
  log,      \* the rows of the stream
  reading   \* per thread: None, a read that has begun, or one with its state

vars == <<log, reading>>

Init ==
  /\ log = {}
  /\ reading = [t \in Threads |-> None]

\* An event is appended, or purged.
Change ==
  /\ UNCHANGED reading
  /\ \/ \E row \in log' : /\ log' = log \cup {row}
                          /\ \A other \in log : other.version < row.version
     \/ \E row \in log : log' = log \ {row}

Begin(t) ==
  /\ reading[t] = None
  /\ \E r \in Reducers, bound \in Bounds :
       reading' = [reading EXCEPT ![t] = [reducer |-> r, bound |-> bound]]
  /\ UNCHANGED log

Return(t) ==
  /\ \E r \in Reducers, bound \in Bounds :
       /\ reading[t] = [reducer |-> r, bound |-> bound]
       /\ reading' = [reading EXCEPT ![t] =
            [reducer |-> r, bound |-> bound,
             state |-> Fold(r, RowsWithin(log, bound))]]
  /\ UNCHANGED log

\* The caller has the state, or an error. Several calls may end together, with
\* the process that made them.
End ==
  /\ \E T \in SUBSET Threads :
       reading' = [t \in Threads |-> IF t \in T THEN None ELSE reading[t]]
  /\ UNCHANGED log

Next == Change \/ End \/ \E t \in Threads : Begin(t) \/ Return(t)

Spec == Init /\ [][Next]_vars
=============================================================================
