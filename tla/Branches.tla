------------------------------- MODULE Branches -------------------------------
(***************************************************************************)
(* The branches of one stream and their chains of ancestors (branches.rs   *)
(* and its callers in store.rs).                                           *)
(*                                                                         *)
(* The table is shared by processes; each has a connection mutex, under    *)
(* which its threads create and close branches, and a cache of resolved    *)
(* chains. Every statement commits by itself. A chain is resolved on a     *)
(* pooled connection, without the mutex, by one query per ancestor.        *)
(*                                                                         *)
(* create_branch does not look at the parent: it is careful callers that   *)
(* name one that is there.                                                 *)
(***************************************************************************)
EXTENDS Naturals, Sequences

CONSTANTS
  Process,
  Thread,
  ProcessOf,     \* per thread its process
  Creator,       \* the threads that create branches,
  Closer,        \* ... promote them or mark them dead ends,
  Resolver,      \* ... and resolve chains
  Branch,        \* the ids of branches
  Main,          \* the implicit trunk, which has no row
  Version,       \* versions of the parent at which branches fork
  Creation,      \* the branches callers may create: [branch, parent, version]
  None

Lifecycle == {"ephemeral", "promoted", "dead_end"}
Row == [parent : Branch \cup {Main}, version : Version, lifecycle : Lifecycle]
Segment == [branch : Branch \cup {Main}, to : Version \cup {None}]

ASSUME ThreadAssumption ==
  /\ ProcessOf \in [Thread -> Process]
  /\ Creator \cup Closer \cup Resolver \subseteq Thread
ASSUME BranchAssumption == Main \notin Branch
ASSUME NoneAssumption == None \notin Version /\ None \notin Row /\ None \notin Seq(Segment)
ASSUME CreationAssumption ==
  Creation \subseteq [branch : Branch, parent : Branch \cup {Main}, version : Version]

VARIABLES
  careful,   \* whether callers create a branch after its parent
  branches,  \* the table: per branch its row, or None
  cache,     \* per process and branch, the chain in branch_cache, or None
  pc,        \* the place of each thread
  target,    \* the branch its call is about
  outcome,   \* what a closing thread writes
  current,   \* the branch whose row a resolution queries next
  fork,      \* fork_version, the bound of its segment
  walk,      \* chain_rev, the segments from the leaf up
  existed,   \* history: the branch was there when its resolution began
  unresolved \* history: branches that were there, and whose resolution found none

vars == <<careful, branches, cache, pc, target, outcome, current, fork, walk, existed, unresolved>>
walkVars == <<current, fork, walk, existed>>

There == {Main} \cup {b \in Branch : branches[b] # None}

\* The connection mutex of a process.
UnlockedAlways(p) == TRUE
Unlocked(p) == \A t \in Thread : ProcessOf[t] = p => pc[t] \notin {"created", "closing"}

NoChains == [b \in Branch \cup {Main} |-> None]

Init ==
  /\ careful \in BOOLEAN
  /\ branches = [b \in Branch |-> None]
  /\ cache = [p \in Process |-> NoChains]
  /\ pc = [t \in Thread |-> "idle"]
  /\ target = [t \in Thread |-> Main]
  /\ outcome = [t \in Thread |-> "promoted"]
  /\ current = [t \in Thread |-> Main]
  /\ fork = [t \in Thread |-> None]
  /\ walk = [t \in Thread |-> <<>>]
  /\ existed = [t \in Thread |-> TRUE]
  /\ unresolved = {}

\* The call of a thread ends, or its process does, and what it held is gone.
Leave(T) ==
  /\ pc' = [t \in Thread |-> IF t \in T THEN "idle" ELSE pc[t]]
  /\ target' = [t \in Thread |-> IF t \in T THEN Main ELSE target[t]]
  /\ outcome' = [t \in Thread |-> IF t \in T THEN "promoted" ELSE outcome[t]]
  /\ current' = [t \in Thread |-> IF t \in T THEN Main ELSE current[t]]
  /\ fork' = [t \in Thread |-> IF t \in T THEN None ELSE fork[t]]
  /\ walk' = [t \in Thread |-> IF t \in T THEN <<>> ELSE walk[t]]
  /\ existed' = [t \in Thread |-> IF t \in T THEN TRUE ELSE existed[t]]

-----------------------------------------------------------------------------
(* create_branch, promote_branch and mark_branch_dead_end.                  *)

CreateOrReplace(t, c) ==
  /\ pc[t] = "idle" /\ Unlocked(ProcessOf[t])
  /\ careful => c.parent \in There
  /\ branches' = [branches EXCEPT ![c.branch] =
                    [parent |-> c.parent, version |-> c.version, lifecycle |-> "ephemeral"]]
  /\ pc' = [pc EXCEPT ![t] = "created"]
  /\ UNCHANGED <<careful, cache, target, outcome, walkVars, unresolved>>

\* INSERT; a branch that is there is an error, and 'main' is reserved.
Create(t, c) ==
  /\ pc[t] = "idle" /\ Unlocked(ProcessOf[t])
  /\ careful => c.parent \in There
  /\ branches[c.branch] = None
  /\ branches' = [branches EXCEPT ![c.branch] =
                    [parent |-> c.parent, version |-> c.version, lifecycle |-> "ephemeral"]]
  /\ pc' = [pc EXCEPT ![t] = "created"]
  /\ UNCHANGED <<careful, cache, target, outcome, walkVars, unresolved>>

\* The chains of the stream leave the cache of this process, and of no other.
ClearCache(t) ==
  /\ pc[t] = "created"
  /\ cache' = [cache EXCEPT ![ProcessOf[t]] = NoChains]
  /\ Leave({t})
  /\ UNCHANGED <<careful, branches, unresolved>>

\* SELECT lifecycle. A branch that is closed this way already, or the other way
\* (BranchLifecycleError), or is not there (BranchNotFound), ends the call.
BeginClose(t, b, l) ==
  /\ pc[t] = "idle" /\ Unlocked(ProcessOf[t])
  /\ branches[b] # None /\ branches[b].lifecycle = "ephemeral"
  /\ pc' = [pc EXCEPT ![t] = "closing"]
  /\ target' = [target EXCEPT ![t] = b]
  /\ outcome' = [outcome EXCEPT ![t] = l]
  /\ UNCHANGED <<careful, branches, cache, walkVars, unresolved>>

\* UPDATE, whatever the row says by now.
Close(t) ==
  /\ pc[t] = "closing"
  /\ branches' = [branches EXCEPT ![target[t]].lifecycle = outcome[t]]
  /\ Leave({t})
  /\ UNCHANGED <<careful, cache, unresolved>>

-----------------------------------------------------------------------------
(* resolve_chain.                                                           *)

\* The chain is not in the cache. (If it is, the call returns it and changes nothing.)
Resolve(t, b) ==
  /\ pc[t] = "idle"
  /\ cache[ProcessOf[t]][b] = None
  /\ pc' = [pc EXCEPT ![t] = "walking"]
  /\ target' = [target EXCEPT ![t] = b]
  /\ current' = [current EXCEPT ![t] = b]
  /\ fork' = [fork EXCEPT ![t] = None]
  /\ walk' = [walk EXCEPT ![t] = <<>>]
  /\ existed' = [existed EXCEPT ![t] = b \in There]
  /\ UNCHANGED <<careful, branches, cache, outcome, unresolved>>

RowIfOpen(b) == IF branches[b] # None /\ branches[b].lifecycle = "ephemeral" THEN branches[b] ELSE None
RowOf(b) == branches[b]

Fork(row) == row.version

\* One more segment, and on to the parent.
WalkUp(t) ==
  /\ pc[t] = "walking" /\ current[t] # Main
  /\ LET row == RowOf(current[t])
     IN  /\ row # None
         /\ ~ \E i \in 1..Len(walk[t]) : walk[t][i].branch = current[t]
         /\ walk' = [walk EXCEPT ![t] = Append(@, [branch |-> current[t], to |-> fork[t]])]
         /\ fork' = [fork EXCEPT ![t] = Fork(row)]
         /\ current' = [current EXCEPT ![t] = row.parent]
  /\ UNCHANGED <<careful, branches, cache, pc, target, outcome, existed, unresolved>>

\* A branch that is met again is met for ever, since parents do not change.
WalkAround(t) ==
  /\ pc[t] = "walking" /\ current[t] # Main
  /\ \E i \in 1..Len(walk[t]) : walk[t][i].branch = current[t]
  /\ pc' = [pc EXCEPT ![t] = "looping"]
  /\ UNCHANGED <<careful, branches, cache, target, outcome, walkVars, unresolved>>

\* BranchNotFound, for the branch or for one of its ancestors.
WalkMisses(t) ==
  /\ pc[t] = "walking" /\ current[t] # Main
  /\ RowOf(current[t]) = None
  /\ unresolved' = unresolved \cup (IF existed[t] THEN {target[t]} ELSE {})
  /\ Leave({t})
  /\ UNCHANGED <<careful, branches, cache>>

\* chain_rev.reverse()
RootFirst(s) == [i \in 1..Len(s) |-> s[Len(s) + 1 - i]]

\* The trunk ends the chain, which goes into the cache from the root down.
WalkEnds(t) ==
  /\ pc[t] = "walking"
  /\ current[t] = Main
  /\ cache' = [cache EXCEPT ![ProcessOf[t]][target[t]] =
                 RootFirst(Append(walk[t], [branch |-> Main, to |-> fork[t]]))]
  /\ Leave({t})
  /\ UNCHANGED <<careful, branches, unresolved>>

-----------------------------------------------------------------------------
(* Errors.                                                                  *)

\* An SQLite error: at the UPDATE (the file is locked by another process), or at a
\* query of the walk.
Fail(t) ==
  /\ pc[t] \in {"closing", "walking"}
  /\ Leave({t})
  /\ UNCHANGED <<careful, branches, cache, unresolved>>

\* A process ends at any point and is started again: its cache is empty.
Restart(p) ==
  /\ cache' = [cache EXCEPT ![p] = NoChains]
  /\ Leave({t \in Thread : ProcessOf[t] = p})
  /\ UNCHANGED <<careful, branches, unresolved>>

Walk(t) == WalkUp(t) \/ WalkAround(t) \/ WalkMisses(t) \/ WalkEnds(t)

Next ==
  \/ \E t \in Creator, c \in Creation : Create(t, c)
  \/ \E t \in Closer, b \in Branch, l \in {"promoted", "dead_end"} : BeginClose(t, b, l)
  \/ \E t \in Resolver, b \in Branch \cup {Main} : Resolve(t, b)
  \/ \E t \in Thread : ClearCache(t) \/ Close(t) \/ Walk(t) \/ Fail(t)
  \/ \E p \in Process : Restart(p)

Spec == Init /\ [][Next]_vars
FairSpec == Spec /\ \A t \in Thread : WF_vars(Walk(t))

-----------------------------------------------------------------------------
(* Properties.                                                              *)

\* Type invariant.
TypeOK ==
  /\ careful \in BOOLEAN
  /\ branches \in [Branch -> Row \cup {None}]
  /\ cache \in [Process -> [Branch \cup {Main} -> Seq(Segment) \cup {None}]]
  /\ pc \in [Thread -> {"idle", "created", "closing", "walking", "looping"}]
  /\ target \in [Thread -> Branch \cup {Main}]
  /\ outcome \in [Thread -> {"promoted", "dead_end"}]
  /\ current \in [Thread -> Branch \cup {Main}]
  /\ fork \in [Thread -> Version \cup {None}]
  /\ walk \in [Thread -> Seq(Segment)]
  /\ existed \in [Thread -> BOOLEAN]
  /\ unresolved \subseteq Branch \cup {Main}

\* The row of child says that it forked from parent at version v.
Forked(child, parent, v) ==
  /\ child \in Branch /\ branches[child] # None
  /\ branches[child].parent = parent
  /\ branches[child].version = v

\* A chain leads from the trunk to b: each segment ends where the next one forked, and
\* the last has no end.
Leads(chain, b) ==
  /\ Len(chain) >= 1
  /\ chain[1].branch = Main
  /\ chain[Len(chain)] = [branch |-> b, to |-> None]
  /\ \A i \in 1..(Len(chain) - 1) : Forked(chain[i + 1].branch, chain[i].branch, chain[i].to)

\* Whatever other threads and processes create or close, before or after the resolution,
\* the chains a process answers from its cache are those of the table.
CachedChainsTrue ==
  \A p \in Process, b \in Branch \cup {Main} :
    cache[p][b] # None => Leads(cache[p][b], b)

\* The closing of a branch is final, as long as one process closes branches: its mutex
\* is held from the SELECT to the UPDATE.
ClosedForGood ==
  [][\A b \in Branch :
       branches[b] # None /\ branches[b].lifecycle # "ephemeral" =>
         branches'[b] = branches[b]]_vars

\* A branch that was there when its resolution began is resolved: no ancestor is found
\* missing (when callers create parents first).
ExistingResolves == careful => unresolved = {}

\* A resolution comes to an end (when callers create parents first).
ResolveEnds == \A t \in Thread : careful /\ pc[t] = "walking" ~> pc[t] = "idle"
=============================================================================
