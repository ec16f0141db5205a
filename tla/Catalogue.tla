------------------------------ MODULE Catalogue ------------------------------
(***************************************************************************)
(* Three parts of a store that share no state with each other: its table   *)
(* of branches (Branches), its registry of reducers (ReducerRegistry) and  *)
(* the file it is opened from (Opening). A behaviour is one of branches,   *)
(* one of registrations or one of openings, by the same threads.           *)
(***************************************************************************)
EXTENDS Branches

CONSTANTS
  StreamPattern,  \* the patterns of reducers, each the sequence of its segments
  StreamName,     \* the streams whose state is read
  Statements      \* how many CREATE statements SCHEMA_V1 has

\* split('/') returns strings, and the schema is not empty.
ASSUME NameAssumption == StreamPattern \subseteq Seq(STRING) /\ StreamName \subseteq Seq(STRING)
ASSUME StatementsAssumption == Statements \in Nat \ {0}

VARIABLES entries, exists, user_version, made, rows, place, next, interrupted

Registry == INSTANCE ReducerRegistry
Opening == INSTANCE Opening WITH Process <- Thread
opening == <<exists, user_version, made, rows, place, next, interrupted>>

AllInit == Init /\ Registry!Init /\ Opening!Init
AllNext ==
  \/ Next /\ Registry!Init /\ Opening!Init /\ ~ exists /\ UNCHANGED <<entries, opening>>
  \/ Init /\ Registry!Next /\ Opening!Init /\ ~ exists /\ UNCHANGED <<vars, opening>>
  \/ Init /\ Registry!Init /\ Opening!Next /\ UNCHANGED <<vars, entries>>

AllSpec == AllInit /\ [][AllNext]_<<vars, entries, opening>>
AllFairSpec == AllSpec /\ (\A t \in Thread : WF_vars(Walk(t))) /\ Opening!Fairness

\* No stream has two most specific reducers (see ReducerRegistry).
OneMostSpecific == Registry!OneMostSpecific
\* The version of a file is written once, when all of the schema is there (see Opening).
StampedOnceWhole == Opening!StampedOnceWhole
\* Of several processes that make one file, one gets it done (see Opening).
OneGetsThrough == Opening!OneGetsThrough
\* What the concurrency notes say of several processes (see Opening).
NobodyRefused == Opening!NobodyRefused
=============================================================================
