------------------------------ MODULE Reduction ------------------------------
(***************************************************************************)
(* The fold of a stream through a reducer (apply_reducer_guarded in        *)
(* src/src/store.rs, called once per event in version order).              *)
(*                                                                         *)
(* A state is known by the applications it went through: which rows, under *)
(* which VERSION of the reducer, and which of them more than once. The     *)
(* order is that of the versions: what is applied at a time is the result  *)
(* of one SELECT ... ORDER BY version.                                     *)
(***************************************************************************)
EXTENDS Integers

InitialState == [applied |-> {}, again |-> {}]

Apply(r, state, rows) ==
  LET steps == rows \X {r.version} IN
  [applied |-> state.applied \cup steps,
   again   |-> state.again \cup (state.applied \cap steps)]

Fold(r, rows) == Apply(r, InitialState, rows)

\* The bound of a read of the whole stream.
Unbounded == -1

\* version <= max_version, where there is one
Within(v, bound) == bound = Unbounded \/ v <= bound

RowsWithin(rows, bound) == {row \in rows : Within(row.version, bound)}
RowsAfter(rows, v) == {row \in rows : row.version > v}
=============================================================================
