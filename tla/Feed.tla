--------------------------------- MODULE Feed ---------------------------------
(***************************************************************************)
(* What a PostCommit subscription promises its holder: a feed of every     *)
(* event of the topics it matches, from the moment it began, each once,    *)
(* in version order and without a hole. A feed may lag behind the store    *)
(* and it may end, but it never skips: once it ended it gives nothing.     *)
(***************************************************************************)
EXTENDS Integers

CONSTANTS Topic, Sub, Pattern

VARIABLES
  published,  \* per topic, the number of events in the store
  position,   \* per feed and topic, the version it gave last
  open        \* the feeds that have not ended

vars == <<published, position, open>>

Init ==
  /\ published \in [Topic -> Nat]
  /\ position = [s \in Sub |-> [t \in Topic |->
                   IF t \in Pattern[s] THEN published[t] - 1 ELSE -1]]
  /\ open = Sub

\* Events join the store; no feed moves.
Publish ==
  /\ \A t \in Topic : published'[t] >= published[t]
  /\ UNCHANGED <<position, open>>

\* Some feeds give the next event of a topic, and some others end. A feed that
\* has ended never gives again, though its position may be forgotten.
Give(t, feeds, ended) ==
  /\ \A s \in feeds : t \in Pattern[s] /\ position[s][t] + 1 < published[t]
  /\ open' = open \ ended
  /\ \A s \in Sub, u \in Topic :
       IF s \in feeds /\ u = t THEN position'[s][u] = position[s][u] + 1
       ELSE IF s \in open' THEN position'[s][u] = position[s][u]
       ELSE position'[s][u] <= position[s][u]
  /\ UNCHANGED published

Next ==
  \/ Publish
  \/ \E t \in Topic : \E feeds \in SUBSET open : \E ended \in SUBSET (open \ feeds) :
       Give(t, feeds, ended)

Spec == Init /\ [][Next]_vars
=============================================================================
