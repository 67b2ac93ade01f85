------------------------------ MODULE LockTable ------------------------------
(***************************************************************************)
(* What the lock registry promises to its callers: a table of held links   *)
(* in which no two tasks ever hold conflicting links.                      *)
(*                                                                         *)
(* The handles, their pruning and the waiting lines that implement the     *)
(* table are in ScopeLocks, which refines this module.  The models of the  *)
(* operations that take locks use this module directly.                    *)
(***************************************************************************)
EXTENDS LockChains

CONSTANT Tasks

VARIABLE held    \* held[t]: the links task t has a live guard on

\* No other task holds a link that conflicts with one of L.
Grantable(t, L) ==
  \A u \in Tasks \ {t} : \A k \in held[u], l \in L : ~Conflict(l, k)

Acquire(t, L) ==
  /\ Grantable(t, L)
  /\ held' = [held EXCEPT ![t] = @ \union L]

Release(t, L) == held' = [held EXCEPT ![t] = @ \ L]

Init == held = [t \in Tasks |-> {}]

Next == \E t \in Tasks, l \in Links : Acquire(t, {l}) \/ Release(t, {l})

Spec == Init /\ [][Next]_held

\* Writers exclude everybody else from a scope (the reader-writer semantics
\* the registry's header promises per scope).
NoConflictingGuards ==
  \A t, u \in Tasks : t # u => \A l \in held[t], k \in held[u] : ~Conflict(l, k)
=============================================================================
