------------------------------- MODULE EventLog -------------------------------
(***************************************************************************)
(* What fossic promises of its store: every stream and branch reads as a   *)
(* sequence of events, in the order in which they were appended. Events    *)
(* are added at the end only, no event is there twice (in any stream), and *)
(* one leaves its sequence only when it is purged, together with the       *)
(* audit event that joins the system stream.                               *)
(***************************************************************************)
EXTENDS Sequences, SequencesExt

CONSTANTS
  Key,        \* pairs of stream and branch
  SystemKey   \* the pair that holds audit events

VARIABLE log  \* a sequence of event ids for each key

Contents(L) == UNION {Range(L[k]) : k \in Key}
NoDuplicates(L) ==
  /\ \A k \in Key : IsInjective(L[k])
  /\ \A j, k \in Key : j # k => Range(L[j]) \cap Range(L[k]) = {}

Init == log = [k \in Key |-> << >>]

\* One append, or a batch over several keys.
Extend ==
  /\ \A k \in Key : IsPrefix(log[k], log'[k])
  /\ NoDuplicates(log')

Purge ==
  \E k \in Key : \E i \in DOMAIN log[k] : \E audit \in Contents(log') \ Contents(log) :
    LET without == [log EXCEPT ![k] = RemoveAt(@, i)] IN
    log' = [without EXCEPT ![SystemKey] = Append(@, audit)]

Spec == Init /\ [][Extend \/ Purge]_log
=============================================================================
