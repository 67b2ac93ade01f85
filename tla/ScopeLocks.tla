----------------------------- MODULE ScopeLocks -----------------------------
(***************************************************************************)
(* The hierarchical lock registry of the local store                       *)
(* (crates/mmcp-store/src/lock.rs) over the keyed registry of lock handles *)
(* it is built on (crates/mmcp-core/src/lock_registry/registry.rs).        *)
(*                                                                         *)
(* A task takes the links of a chain one after the other.  For each link   *)
(* it looks its scope up in the registry under a mutex (which may prune    *)
(* idle handles and install a fresh one), gets in the waiting line of the  *)
(* handle's RwLock, and goes on when the lock is granted.  The tasks run   *)
(* on several threads: any two of these steps interleave.                  *)
(*                                                                         *)
(* A handle is the Arc of one RwLock.  Its identity is what matters: two   *)
(* tasks exclude each other only when they use the same handle.            *)
(***************************************************************************)
EXTENDS LockChains, FiniteSets

CONSTANTS
  Tasks,       \* concurrent operations of one process
  Handles,     \* addresses an Arc<RwLock> may have; reused once unreferenced
  NoHandle,
  NoChain,
  Threshold,   \* registry size from which a lookup prunes first
  Asks         \* Asks[t]: the chains task t may ask for

ASSUME HandleAssumption == NoHandle \notin Handles
ASSUME ChainAssumption == NoChain \notin Chains
ASSUME ThresholdAssumption == Threshold \in Nat
ASSUME AsksAssumption == Asks \in [Tasks -> SUBSET Chains]

VARIABLES
  entries,   \* entries[s]: the registry's handle for scope s
  chain,     \* chain[t]: what t is acquiring, holding or dropping
  pc,        \* where t stands in that
  pos,       \* pos[t]: the link t is acquiring
  arc,       \* arc[t][i]: t's clone of the handle for link i
  guards,    \* guards[t]: the links t holds a guard on
  ahead      \* ahead[t][i]: the requests <<u, j>> in the line before t's for link i

vars == <<entries, chain, pc, pos, arc, guards, ahead>>

Depth == 1..3
Requests == Tasks \X Depth

TypeOK ==
  /\ entries \in [Scopes -> Handles \union {NoHandle}]
  /\ chain \in [Tasks -> Chains \union {NoChain}]
  /\ pc \in [Tasks -> {"idle", "lookup", "enqueue", "await", "work", "drop"}]
  /\ pos \in [Tasks -> Depth]
  /\ arc \in [Tasks -> [Depth -> Handles \union {NoHandle}]]
  /\ guards \in [Tasks -> SUBSET Depth]
  /\ ahead \in [Tasks -> [Depth -> SUBSET Requests]]

Link(t, i) == chain[t].links[i]

\* The request <<t, i>> is in the line of its handle, granted or waiting.
InLine(t, i) == i \in guards[t] \/ (pc[t] = "await" /\ i = pos[t])

\* Faulty variant: the sweep spares the handles of granted guards only.
ReferencedByGuard(h) == \E t \in Tasks : \E i \in guards[t] : arc[t][i] = h

\* Arc::strong_count(handle) > 1: somebody besides the registry has a clone.
Referenced(h) == \E t \in Tasks, i \in Depth : arc[t][i] = h

-----------------------------------------------------------------------------
Init ==
  /\ entries = [s \in Scopes |-> NoHandle]
  /\ chain = [t \in Tasks |-> NoChain]
  /\ pc = [t \in Tasks |-> "idle"]
  /\ pos = [t \in Tasks |-> 1]
  /\ arc = [t \in Tasks |-> [i \in Depth |-> NoHandle]]
  /\ guards = [t \in Tasks |-> {}]
  /\ ahead = [t \in Tasks |-> [i \in Depth |-> {}]]

\* Faulty variant: the links are counted from zero.
BeginFromZero(t, c) ==
  /\ pc[t] = "idle"
  /\ chain' = [chain EXCEPT ![t] = c]
  /\ pc' = [pc EXCEPT ![t] = "lookup"]
  /\ pos' = [pos EXCEPT ![t] = 0]
  /\ UNCHANGED <<entries, arc, guards, ahead>>

\* An operation starts and asks for its chain.
Begin(t, c) ==
  /\ pc[t] = "idle"
  /\ chain' = [chain EXCEPT ![t] = c]
  /\ pc' = [pc EXCEPT ![t] = "lookup"]
  /\ pos' = [pos EXCEPT ![t] = 1]
  /\ UNCHANGED <<entries, arc, guards, ahead>>

Installed == {s \in Scopes : entries[s] # NoHandle}

\* What the sweep that opens a lookup leaves of the registry.
Swept ==
  IF Cardinality(Installed) >= Threshold
    THEN [s \in Scopes |-> IF Referenced(entries[s]) THEN entries[s] ELSE NoHandle]
    ELSE entries

\* get_or_install, one critical section of the registry's mutex: sweep, then
\* clone the handle of the scope, allocating a new one if there is none.
LookupOrInstall(t) ==
  /\ pc[t] = "lookup"
  /\ LET s == Link(t, pos[t]).scope IN
     \E h \in Handles :
       /\ IF Swept[s] # NoHandle
            THEN h = Swept[s]
            ELSE ~Referenced(h) /\ \A r \in Scopes : Swept[r] # h
       /\ entries' = [Swept EXCEPT ![s] = h]
       /\ arc' = [arc EXCEPT ![t][pos[t]] = h]
  /\ pc' = [pc EXCEPT ![t] = "enqueue"]
  /\ UNCHANGED <<chain, pos, guards, ahead>>

\* First poll of read_owned / write_owned: tokio's RwLock is fair, a request
\* waits for every conflicting one that came before.
Enqueue(t) ==
  /\ pc[t] = "enqueue"
  /\ LET h == arc[t][pos[t]] IN
     ahead' = [ahead EXCEPT ![t][pos[t]] =
                 {r \in Requests : InLine(r[1], r[2]) /\ arc[r[1]][r[2]] = h}]
  /\ pc' = [pc EXCEPT ![t] = "await"]
  /\ UNCHANGED <<entries, chain, pos, arc, guards>>

\* Faulty variants: a writer waits for writers only; a reader for nobody.
GrantedBesideReaders(t, i) == \A r \in ahead[t][i] : Link(r[1], r[2]).mode = "shared"
GrantedBesideWriters(t, i) == ahead[t][i] # {} => Link(t, i).mode = "shared"

\* Faulty variant: an unfair lock, which looks at present holders only.
GrantedUnfair(t, i) ==
  \A u \in Tasks \ {t} : \A j \in guards[u] :
    arc[u][j] = arc[t][i] => Link(t, i).mode = "shared" /\ Link(u, j).mode = "shared"

\* Nothing in the line before <<t, i>> conflicts with it.
Granted(t, i) ==
  \A r \in ahead[t][i] :
    Link(t, i).mode = "shared" /\ Link(r[1], r[2]).mode = "shared"

\* The await returns: the guard is pushed, and the next link is looked up, or
\* the operation runs.
Grant(t) ==
  /\ pc[t] = "await"
  /\ Granted(t, pos[t])
  /\ guards' = [guards EXCEPT ![t] = @ \union {pos[t]}]
  /\ IF pos[t] = Len(chain[t].links)
       THEN /\ pc' = [pc EXCEPT ![t] = "work"]
            /\ UNCHANGED pos
       ELSE /\ pc' = [pc EXCEPT ![t] = "lookup"]
            /\ pos' = [pos EXCEPT ![t] = @ + 1]
  /\ UNCHANGED <<entries, chain, arc, ahead>>

\* The slug of a tracker operation does not resolve under the ancestors: the
\* function returns early and never asks for the leaf.
ResolveFails(t) ==
  /\ pc[t] = "lookup"
  /\ pos[t] = 3
  /\ chain[t].drop = <<3, 1, 2>>
  /\ pc' = [pc EXCEPT ![t] = "drop"]
  /\ UNCHANGED <<entries, chain, pos, arc, guards, ahead>>

\* The operation is over; its guards go out of scope.
Finish(t) ==
  /\ pc[t] = "work"
  /\ pc' = [pc EXCEPT ![t] = "drop"]
  /\ UNCHANGED <<entries, chain, pos, arc, guards, ahead>>

\* i is the guard of t that dies next.
NextToDrop(t, i) ==
  /\ i \in guards[t]
  /\ \E n \in DOMAIN chain[t].drop :
       /\ chain[t].drop[n] = i
       /\ \A k \in 1..(n - 1) : chain[t].drop[k] \notin guards[t]

\* One guard dies: its request leaves the line and its handle is released.
DropGuard(t, i) ==
  /\ pc[t] = "drop"
  /\ NextToDrop(t, i)
  /\ guards' = [guards EXCEPT ![t] = @ \ {i}]
  /\ arc' = [arc EXCEPT ![t][i] = NoHandle]
  /\ ahead' = [u \in Tasks |-> [j \in Depth |->
                 IF u = t /\ j = i THEN {} ELSE ahead[u][j] \ {<<t, i>>}]]
  /\ IF guards[t] = {i}
       THEN /\ pc' = [pc EXCEPT ![t] = "idle"]
            /\ chain' = [chain EXCEPT ![t] = NoChain]
            /\ pos' = [pos EXCEPT ![t] = 1]
       ELSE UNCHANGED <<pc, chain, pos>>
  /\ UNCHANGED entries

Step(t) ==
  \/ LookupOrInstall(t)
  \/ Enqueue(t)
  \/ Grant(t)
  \/ Finish(t)
  \/ \E i \in Depth : DropGuard(t, i)

Next ==
  \E t \in Tasks :
    \/ \E c \in Asks[t] : Begin(t, c)
    \/ ResolveFails(t)
    \/ Step(t)

Spec == Init /\ [][Next]_vars

\* Every operation that runs ends, and the runtime polls every task that can
\* make progress.  Nobody is obliged to start an operation.
FairSpec == Spec /\ \A t \in Tasks : WF_vars(Step(t))

-----------------------------------------------------------------------------
(* Properties.                                                             *)

\* Race-free pruning (the claim of get_or_install's comment): two tasks that
\* use a scope at the same time, holding its lock or waiting for it, use the
\* same handle, and it is the one the registry still hands out.
OneHandlePerScope ==
  \A t \in Tasks, i \in Depth :
    arc[t][i] # NoHandle => entries[Link(t, i).scope] = arc[t][i]

\* The scope contract over whole operations: while an operation runs that
\* holds a scope exclusively, no other operation runs that took any link on
\* that scope.  So a group-coarsening rename never overlaps a memory edit of
\* the group, a process-coarsening create_group never overlaps anything.
RunningExclusion ==
  \A t, u \in Tasks :
    t # u /\ pc[t] = "work" /\ pc[u] = "work" =>
      \A l \in LinkSet(chain[t]), k \in LinkSet(chain[u]) : ~Conflict(l, k)

\* Reading the scopes in the order of the hierarchy keeps the operations free
\* of circular waits, and the fair lock of starvation: every operation that
\* asked for its chain comes to run, unless its slug fails to resolve.
EveryChainIsGranted ==
  \A t \in Tasks : (pc[t] = "lookup") ~> (pc[t] \in {"work", "drop"})

\* The registry implements the lock table: the links a task holds guards on.
Table == INSTANCE LockTable
           WITH held <- [t \in Tasks |-> {Link(t, i) : i \in guards[t]}]
ImplementsLockTable == Table!Spec
=============================================================================
