------------------------------- MODULE Opening -------------------------------
(***************************************************************************)
(* Opening a store (Store::open in src/src/store.rs, src/src/schema.rs):   *)
(* the file is made, or taken as it is, by processes that know nothing of  *)
(* each other.                                                             *)
(*                                                                         *)
(* The schema is a batch of CREATE statements without a transaction, each  *)
(* committed on its own. The version in the file's header says whether it  *)
(* is there. It is read once, before the batch, and written after it.      *)
(***************************************************************************)
EXTENDS Naturals

CONSTANTS
  Process,     \* whoever opens the file
  Statements   \* how many CREATE statements SCHEMA_V1 has, one at least

VARIABLES
  exists,        \* whether there is a file
  user_version,  \* PRAGMA user_version of the file
  made,          \* how many statements of SCHEMA_V1 the file has seen, in their order
  rows,          \* which of the rows of every store the file has
  place,         \* per process, how far its call of open is
  next,          \* per process, the statement its batch has come to
  interrupted    \* history: whether a call has ended by an error or with its process

vars == <<exists, user_version, made, rows, place, next, interrupted>>

Current == 1   \* CURRENT_SCHEMA_VERSION
Newer == 2     \* of a later release
Bootstrapped == {"meta", "system"}

\* There is no file, or one of a later release, which has at least these tables.
Init ==
  /\ \/ exists = FALSE /\ user_version = 0 /\ made = 0 /\ rows = {}
     \/ exists = TRUE /\ user_version = Newer /\ made = Statements /\ rows = Bootstrapped
  /\ place = [p \in Process |-> "closed"]
  /\ next = [p \in Process |-> 1]
  /\ interrupted = FALSE

GoTo(p, where) == place' = [place EXCEPT ![p] = where]

\* A call begins; StoreNotFound under RequireExisting is no step.
Begin(p, on_first_open) ==
  /\ place[p] \in {"closed", "refused"}
  /\ on_first_open = "RequireExisting" => exists
  /\ GoTo(p, "connecting")
  /\ UNCHANGED <<exists, user_version, made, rows, next, interrupted>>

\* Connection::open and the pragmas make the file.
Connect(p) ==
  /\ place[p] = "connecting"
  /\ exists' = TRUE
  /\ GoTo(p, "connected")
  /\ UNCHANGED <<user_version, made, rows, next, interrupted>>

\* run_migrations: what it reads decides the rest, and an error is read as 0. A later
\* version is a SchemaMismatch.
ReadVersion(p) ==
  /\ place[p] = "connected"
  /\ \E stored \in {user_version, 0} :
       \/ stored > Current /\ GoTo(p, "closed")
       \/ stored = Current /\ GoTo(p, "migrated")
       \/ stored = 0 /\ GoTo(p, "creating")
  /\ UNCHANGED <<exists, user_version, made, rows, next, interrupted>>

\* On to the next statement; after the last the batch is done.
Advance(p) ==
  IF next[p] = Statements THEN GoTo(p, "created") /\ next' = [next EXCEPT ![p] = 1]
  ELSE next' = [next EXCEPT ![p] = @ + 1] /\ UNCHANGED place

\* Mutant: CREATE ... IF NOT EXISTS.
CreateIfMissing(p) ==
  /\ place[p] = "creating"
  /\ made' = IF next[p] > made THEN next[p] ELSE made
  /\ Advance(p)
  /\ UNCHANGED <<exists, user_version, rows, interrupted>>
\* Mutant: nobody goes on while another makes the file.
CreateAlone(p) ==
  /\ \A q \in Process \ {p} : place[q] # "creating"
  /\ place[p] = "creating" /\ next[p] = made + 1
  /\ made' = made + 1
  /\ Advance(p)
  /\ UNCHANGED <<exists, user_version, rows, interrupted>>
\* One statement of SCHEMA_V1.
CreateNext(p) ==
  /\ place[p] = "creating" /\ next[p] = made + 1
  /\ made' = made + 1
  /\ Advance(p)
  /\ UNCHANGED <<exists, user_version, rows, interrupted>>

\* The table or index exists: SQLite's error ends the batch and the call.
Clash(p) ==
  /\ place[p] = "creating" /\ next[p] <= made
  /\ GoTo(p, "refused")
  /\ next' = [next EXCEPT ![p] = 1]
  /\ UNCHANGED <<exists, user_version, made, rows, interrupted>>

Stamp(p) ==
  /\ place[p] = "created"
  /\ user_version' = Current
  /\ GoTo(p, "migrated")
  /\ UNCHANGED <<exists, made, rows, next, interrupted>>

\* bootstrap_meta, and then bootstrap_system_streams: INSERT OR IGNORE.
BootstrapMeta(p) ==
  /\ place[p] = "migrated"
  /\ rows' = rows \cup {"meta"}
  /\ GoTo(p, "described")
  /\ UNCHANGED <<exists, user_version, made, next, interrupted>>

BootstrapSystem(p) ==
  /\ place[p] = "described"
  /\ rows' = rows \cup {"system"}
  /\ GoTo(p, "bootstrapped")
  /\ UNCHANGED <<exists, user_version, made, next, interrupted>>

\* The threads and the pool of read connections; the caller has its store.
Opened(p) ==
  /\ place[p] = "bootstrapped"
  /\ GoTo(p, "open")
  /\ UNCHANGED <<exists, user_version, made, rows, next, interrupted>>

\* An SQLite error, or the end of the process, between any two statements.
Fail(p) ==
  /\ place[p] \notin {"closed", "refused", "open"}
  /\ GoTo(p, "closed")
  /\ next' = [next EXCEPT ![p] = 1]
  /\ interrupted' = TRUE
  /\ UNCHANGED <<exists, user_version, made, rows>>

Close(p) ==
  /\ place[p] = "open"
  /\ GoTo(p, "closed")
  /\ UNCHANGED <<exists, user_version, made, rows, next, interrupted>>

OpenStep(p) ==
  \/ Connect(p)
  \/ ReadVersion(p)
  \/ CreateNext(p)
  \/ Clash(p)
  \/ Stamp(p)
  \/ BootstrapMeta(p)
  \/ BootstrapSystem(p)
  \/ Opened(p)

Next ==
  \E p \in Process :
    \/ \E policy \in {"CreateIfMissing", "RequireExisting"} : Begin(p, policy)
    \/ OpenStep(p)
    \/ Fail(p)
    \/ Close(p)

\* A call that has begun goes on; SQLite's busy timeout lets it have the lock or fail.
Fairness == \A p \in Process : WF_vars(OpenStep(p))

Spec == Init /\ [][Next]_vars
FairSpec == Spec /\ Fairness

-----------------------------------------------------------------------------
(* Properties.                                                              *)

\* Type invariant.
TypeOK ==
  /\ exists \in BOOLEAN
  /\ user_version \in {0, Current, Newer}
  /\ made \in 0 .. Statements
  /\ rows \subseteq Bootstrapped
  /\ place \in [Process -> {"closed", "refused", "connecting", "connected", "creating",
                            "created", "migrated", "described", "bootstrapped", "open"}]
  /\ next \in [Process -> 1 .. Statements]
  /\ interrupted \in BOOLEAN

\* The version of a file is written once, when all of the schema is there. Two processes
\* that both read 0 do not stamp a file twice or in part, and one that could not read the
\* version of a later release does not lower it: its first CREATE clashes.
StampedOnceWhole ==
  [][user_version' # user_version => user_version = 0 /\ made' = Statements]_vars

\* A store that was opened has its whole schema and the rows every store has, whoever
\* made them.
OpenIsWhole ==
  \A p \in Process :
    place[p] = "open" =>
      user_version = Current /\ made = Statements /\ rows = Bootstrapped

\* Of several processes that make the same file one gets it done, if none is interrupted:
\* they do not all refuse each other.
OneGetsThrough ==
  (\E p \in Process : place[p] = "creating") ~> (user_version >= Current \/ interrupted)

\* What the concurrency notes say: several processes can safely open the same file. Only
\* that of a later release is no longer theirs.
NobodyRefused == \A p \in Process : place[p] = "refused" => user_version = Newer
=============================================================================
