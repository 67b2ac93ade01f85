---------------------------- MODULE MCScopeLocks ----------------------------
(***************************************************************************)
(* Model-checking instances of ScopeLocks: three tasks, one group.         *)
(*                                                                         *)
(* scope_locks checks safety and the refinement: two memories, every task  *)
(* may ask for every chain, and a lookup prunes from two installed handles *)
(* on.  One handle per scope is enough (the registry never needs more), so *)
(* a freed handle is reused at once, the worst case for pruning.           *)
(*                                                                         *)
(* scope_locks_live checks liveness, where symmetry is not sound: one      *)
(* memory, two tasks that edit it and one that coarsens.                   *)
(***************************************************************************)
EXTENDS ScopeLocks, TLC

CONSTANTS t1, t2, t3, g1, m1, m2, h1, h2, h3, h4

MCTasks == {t1, t2, t3}
MCSymmetry ==
  Permutations(MCTasks) \union Permutations({m1, m2}) \union Permutations({h1, h2, h3, h4})

AnyChain == [t \in MCTasks |-> Chains]

EditorsAndCoarsener ==
  (t1 :> {MemoryChain(g1, m1, "exclusive")})
    @@ (t2 :> {ResolveThenLeafChain(g1, m1)})
    @@ (t3 :> {ExclusiveGroupChain(g1), CoarsenProcessChain})
=============================================================================
