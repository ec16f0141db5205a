------------------------------ MODULE Upcasters ------------------------------
(***************************************************************************)
(* Chains of upcasters (upcasters.rs): the registry of one event type is   *)
(* the sequence of its entries, sorted by `from`; of two with the same     *)
(* `from` the one registered first comes first.                            *)
(***************************************************************************)
EXTENDS Naturals, Sequences

\* register: push, then a stable sort by `from`.
WithUpcaster(entries, entry) ==
  LET n == CHOOSE k \in 0..Len(entries) :
             /\ \A i \in 1..k : entries[i].from <= entry.from
             /\ \A i \in (k + 1)..Len(entries) : entries[i].from > entry.from
  IN  SubSeq(entries, 1, n) \o <<entry>> \o SubSeq(entries, n + 1, Len(entries))

\* entries.iter().find(|e| e.from == current)
HasStep(entries, v) == \E i \in 1..Len(entries) : entries[i].from = v
FirstStep(entries, v) ==
  entries[CHOOSE i \in 1..Len(entries) :
            /\ entries[i].from = v
            /\ \A j \in 1..(i - 1) : entries[j].from # v]

\* The version after n steps of the chain that starts at v, or where it ended.
After(entries, v, n) ==
  LET at[k \in 0..n] ==
        IF k = 0 THEN v
        ELSE IF HasStep(entries, at[k - 1]) THEN FirstStep(entries, at[k - 1]).to
        ELSE at[k - 1]
  IN  at[n]

\* A chain of more steps than there are entries repeats one: it never ends.
LastVersion(entries, v) == After(entries, v, Len(entries))
NeverEnds(entries, v) == HasStep(entries, LastVersion(entries, v))

\* UpcasterChainGap: where the chain ends, there are entries for higher versions.
HasGap(entries, v) == \E i \in 1..Len(entries) : entries[i].from > LastVersion(entries, v)
=============================================================================
