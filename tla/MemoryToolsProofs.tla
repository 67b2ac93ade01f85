--------------------------- MODULE MemoryToolsProofs ---------------------------
(***************************************************************************)
(* What the memory tools guarantee, for every number of calls, whatever    *)
(* they ask for, and every set of memories.                                *)
(*                                                                         *)
(* The argument has four layers.  Where a call is in its route says which  *)
(* links it holds, and guards never conflict (RouteInv): so while a call   *)
(* holds the exclusive group lock no other tool call is between its locks, *)
(* and only a pull can move main.  What a call has written is its edits on *)
(* top of what it saw (CommitInv).  What a create or a move saw of main is *)
(* thus still there when it commits (ViewInv).  And two calls that are     *)
(* both between their locks are edits or deletes of two memories: only     *)
(* their commits stand between main and what the other saw (LossInv).      *)
(***************************************************************************)
EXTENDS MemoryTools, GroupRepoProofs

\* The steps of a route are numbered; the last one, for all tools but pull, is
\* the unlock, the last but one the commit.
End(t) == Len(Steps(t))
LockStep(t) == IF ~Leaf(t) THEN 1 ELSE IF call[t].tool = "delete" THEN 2 ELSE 3

\* Between its lock and its unlock.
Locked(t) == ~Pull(t) /\ LockStep(t) < at[t] /\ at[t] <= End(t)

\* A call holds the links of its tool exactly between its lock and its unlock.
LinksFollow(t) == held[t] = IF Locked(t) THEN LinksOf(t) ELSE {}

\* The address is resolved once resolve is behind: to a file, and to an id.
IsResolved(t) == path[t] \in Paths /\ MemoryOf(t) \in Ids

PathFollows(t) ==
  \/ Leaf(t) /\ 1 < at[t] /\ at[t] <= End(t)
  \/ call[t].tool = "move" /\ 2 < at[t] /\ at[t] < End(t)
  => IsResolved(t)

\* A call is in the backend only at its commit, or its pull.
BackendFollows(t) ==
  /\ phase[t] \in {"based", "written"} => ~Pull(t) /\ at[t] = End(t) - 1
  /\ phase[t] \in {"aimed", "ancestor", "refound"} => Pull(t) /\ at[t] = 1

\* A call that has its result has only the unlock left.
ResultFollows(t) == result[t] # "none" => at[t] >= IF Pull(t) THEN 2 ELSE End(t)

RouteFollows(t) == LinksFollow(t) /\ PathFollows(t) /\ BackendFollows(t) /\ ResultFollows(t)

ToolTypeOK ==
  /\ held \in [Tasks -> SUBSET L!Links]
  /\ call \in [Tasks -> Calls]
  /\ at \in [Tasks -> 1..7]
  /\ path \in [Tasks -> Paths \union {NoPath}]
  /\ text \in [Tasks -> Contents]
  /\ result \in [Tasks -> Results]

RouteInv ==
  /\ ToolTypeOK
  /\ \A t \in Tasks : RouteFollows(t)
  /\ L!NoConflictingGuards

-----------------------------------------------------------------------------
(* Commits.                                                                *)

\* A history has no later commit, and the author of a commit has got as far as
\* its commit step.
CommitIsDated(c) ==
  /\ \A d \in Hist(c) : d <= c
  /\ commits[c].by \in Tasks => /\ ~Pull(commits[c].by)
                                /\ at[commits[c].by] >= End(commits[c].by) - 1

CommitsAreDated == \A c \in CommitIds : CommitIsDated(c)

\* What a tool call has written is its edits on top of what it saw, newer than
\* the main it will compare with.
CommitIsOwn(t) ==
  /\ base[t] \in CommitIds /\ goal[t] \in CommitIds /\ expected[t] \in CommitIds
  /\ commits[goal[t]].by = t
  /\ Hist(goal[t]) = Hist(base[t]) \union {goal[t]}
  /\ Tree(goal[t]) = Overlay(Tree(base[t]), EditsOf(t))
  /\ expected[t] < goal[t]

CommitsAreOwn == \A t \in Tasks : ~Pull(t) /\ Written(t) => CommitIsOwn(t)

CommitInv == CommitsAreDated /\ CommitsAreOwn

-----------------------------------------------------------------------------
(* What a create or a move sees of main is what its commit is put on.      *)

\* The commit below t's own: main, until t has made its first lookup.
Below(t) == IF phase[t] = "none" /\ result[t] # "ok" THEN main ELSE base[t]

\* A call at its commit step, or past it with success.
Committing(t) == at[t] = End(t) - 1 \/ result[t] = "ok"

ViewHolds(t) ==
  /\ call[t].tool \in {"write", "move"} /\ phase[t] = "based" => base[t] = main
  /\ call[t].tool = "write" /\ ~call[t].sure /\ Committing(t) =>
       Destination(t) \notin DOMAIN Tree(Below(t))
  /\ call[t].tool = "move" /\ (at[t] = 4 \/ Committing(t)) =>
       Destination(t) \notin DOMAIN Tree(Below(t))
  /\ call[t].tool = "move" /\ Committing(t) =>
       /\ path[t] \in DOMAIN Tree(Below(t))
       /\ text[t] = Tree(Below(t))[path[t]]

ViewInv == Alone => \A t \in Tasks : ViewHolds(t)

-----------------------------------------------------------------------------
(* What a call on its way to main may drop.                                *)

\* c is a commit of an edit or a delete.
OfLeaf(c) == commits[c].by \in Tasks /\ Leaf(commits[c].by)
MemoryIn(c) == MemoryOf(commits[c].by)

LossIsOfSiblings(t) ==
  phase[t] \in {"based", "written"} =>
    /\ \A c \in Hist(main) \ Hist(base[t]) :
         /\ OfLeaf(c) /\ Leaf(t)
         /\ MemoryIn(c) = MemoryOf(t) => LostBefore(c, MemoryIn(c))
    /\ \A c \in Hist(base[t]) \ Hist(main) :
         OfLeaf(c) /\ LostBefore(c, MemoryIn(c))

LossInv == ~PullLanded => \A t \in Tasks : LossIsOfSiblings(t)

\* Until a pull moves main, the commit of a create or a move that went through
\* stays in its history.
CreatesAndMovesStay ==
  ~PullLanded => \A t \in Tasks :
    call[t].tool \in {"write", "move"} /\ result[t] = "ok" => goal[t] \in Hist(main)

-----------------------------------------------------------------------------
(* Calls and routes.                                                       *)

\* What the arguments of a call are.
LEMMA CallShape ==
  ASSUME ToolTypeOK, NEW t \in Tasks
  PROVE  /\ call[t].tool \in {"write", "edit", "delete", "move", "pull"}
         /\ call[t].tool \in {"write", "move"} => call[t].to \in Slugs
         /\ call[t].tool = "write" => call[t].id \in Ids
         /\ call[t].id \in Ids \union {NoId}
         /\ call[t].tool = "move" => call[t].sure = FALSE
<1>1. call[t] \in Calls
  BY DEF ToolTypeOK
<1> QED
  BY <1>1, SMT DEF Calls, Addresses, CallOf, WriteCall, EditCall, DeleteCall, MoveCall, PullCall

\* Where the steps of a route are.
LEMMA StepsOfRoutes ==
  ASSUME ToolTypeOK, NEW t \in Tasks
  PROVE  /\ End(t) \in 1..6
         /\ call[t].tool \in {"write", "delete"} => End(t) = 4
         /\ call[t].tool = "edit" => End(t) = 5
         /\ call[t].tool = "move" => End(t) = 6
         /\ call[t].tool = "pull" => End(t) = 1
         /\ In(t, "lock") => ~Pull(t) /\ at[t] = LockStep(t)
         /\ In(t, "unlock") => ~Pull(t) /\ at[t] = End(t)
         /\ In(t, "commit") => ~Pull(t) /\ at[t] = End(t) - 1
         /\ In(t, "forward") => Pull(t) /\ at[t] = 1
         /\ In(t, "resolve") => \/ Leaf(t) /\ at[t] = 1
                                \/ call[t].tool = "move" /\ at[t] = 2
         /\ In(t, "probe") => \/ call[t].tool = "write" /\ at[t] = 2
                              \/ call[t].tool = "move" /\ at[t] = 3
         /\ In(t, "read") => \/ call[t].tool = "edit" /\ at[t] = 2
                             \/ call[t].tool = "move" /\ at[t] = 4
<1>1. call[t].tool \in {"write", "edit", "delete", "move", "pull"}
  BY CallShape
<1>2. at[t] \in 1..7
  BY DEF ToolTypeOK
<1>3. CASE call[t].tool = "write"
  <2>1. Steps(t) = <<"lock", "probe", "commit", "unlock">>
    BY <1>3 DEF Steps, Route
  <2>2. /\ Len(Steps(t)) = 4 /\ DOMAIN Steps(t) = 1..4
        /\ Steps(t)[1] = "lock" /\ Steps(t)[2] = "probe" /\ Steps(t)[3] = "commit"
        /\ Steps(t)[4] = "unlock"
    BY <2>1
  <2>3. ~Leaf(t) /\ ~Pull(t) /\ LockStep(t) = 1
    BY <1>3 DEF Leaf, Pull, LockStep
  <2> QED
    BY <1>2, <1>3, <2>2, <2>3 DEF End, In, Running
<1>4. CASE call[t].tool = "edit"
  <2>1. Steps(t) = <<"resolve", "read", "lock", "commit", "unlock">>
    BY <1>4 DEF Steps, Route
  <2>2. /\ Len(Steps(t)) = 5 /\ DOMAIN Steps(t) = 1..5
        /\ Steps(t)[1] = "resolve" /\ Steps(t)[2] = "read" /\ Steps(t)[3] = "lock"
        /\ Steps(t)[4] = "commit" /\ Steps(t)[5] = "unlock"
    BY <2>1
  <2>3. Leaf(t) /\ ~Pull(t) /\ LockStep(t) = 3
    BY <1>4 DEF Leaf, Pull, LockStep
  <2> QED
    BY <1>2, <1>4, <2>2, <2>3 DEF End, In, Running
<1>5. CASE call[t].tool = "delete"
  <2>1. Steps(t) = <<"resolve", "lock", "commit", "unlock">>
    BY <1>5 DEF Steps, Route
  <2>2. /\ Len(Steps(t)) = 4 /\ DOMAIN Steps(t) = 1..4
        /\ Steps(t)[1] = "resolve" /\ Steps(t)[2] = "lock" /\ Steps(t)[3] = "commit"
        /\ Steps(t)[4] = "unlock"
    BY <2>1
  <2>3. Leaf(t) /\ ~Pull(t) /\ LockStep(t) = 2
    BY <1>5 DEF Leaf, Pull, LockStep
  <2> QED
    BY <1>2, <1>5, <2>2, <2>3 DEF End, In, Running
<1>6. CASE call[t].tool = "move"
  <2>1. Steps(t) = <<"lock", "resolve", "probe", "read", "commit", "unlock">>
    BY <1>6 DEF Steps, Route
  <2>2. /\ Len(Steps(t)) = 6 /\ DOMAIN Steps(t) = 1..6
        /\ Steps(t)[1] = "lock" /\ Steps(t)[2] = "resolve" /\ Steps(t)[3] = "probe"
        /\ Steps(t)[4] = "read" /\ Steps(t)[5] = "commit" /\ Steps(t)[6] = "unlock"
    BY <2>1
  <2>3. ~Leaf(t) /\ ~Pull(t) /\ LockStep(t) = 1
    BY <1>6 DEF Leaf, Pull, LockStep
  <2> QED
    BY <1>2, <1>6, <2>2, <2>3 DEF End, In, Running
<1>7. CASE call[t].tool = "pull"
  <2>1. Steps(t) = <<"forward">>
    BY <1>7 DEF Steps, Route
  <2>2. /\ Len(Steps(t)) = 1 /\ DOMAIN Steps(t) = 1..1
        /\ Steps(t)[1] = "forward"
    BY <2>1
  <2>3. ~Leaf(t) /\ Pull(t) /\ LockStep(t) = 1
    BY <1>7 DEF Leaf, Pull, LockStep
  <2> QED
    BY <1>2, <1>7, <2>2, <2>3 DEF End, In, Running
<1> QED
  BY <1>1, <1>3, <1>4, <1>5, <1>6, <1>7

\* The same, in order: resolve, for an edit or a delete, then the lock, then the
\* commit, then the unlock.
LEMMA RouteNumbers ==
  ASSUME ToolTypeOK, NEW t \in Tasks
  PROVE  /\ End(t) \in 1..6 /\ LockStep(t) \in 1..3
         /\ ~Pull(t) => LockStep(t) + 1 < End(t)
         /\ Leaf(t) => LockStep(t) > 1 /\ LockStep(t) + 2 = End(t) /\ ~Pull(t)
         /\ ~Leaf(t) => LockStep(t) = 1
<1>1. call[t].tool \in {"write", "edit", "delete", "move", "pull"}
  BY CallShape
<1>2. /\ call[t].tool \in {"write", "delete"} => End(t) = 4
      /\ call[t].tool = "edit" => End(t) = 5
      /\ call[t].tool = "move" => End(t) = 6
      /\ call[t].tool = "pull" => End(t) = 1
  BY StepsOfRoutes
<1> QED
  BY <1>1, <1>2 DEF LockStep, Leaf, Pull

-----------------------------------------------------------------------------
(* Locks.                                                                  *)

\* The links a tool takes exist; those of an edit or a delete when the address
\* is resolved.
LEMMA LinksOfAreLinks ==
  ASSUME NEW t \in Tasks, Leaf(t) => MemoryOf(t) \in Ids
  PROVE  /\ LinksOf(t) \subseteq L!Links
         /\ LinksOf(t) # {}
         /\ ~Leaf(t) => L!Exclusive(L!GroupScope(Group)) \in LinksOf(t)
<1>1. CASE Leaf(t)
  <2>1. MemoryOf(t) \in Ids
    BY <1>1
  <2>2. LinksOf(t) = {L!Shared(L!ProcessScope), L!Shared(L!GroupScope(Group)),
                      L!Exclusive(L!MemoryScope(MemoryOf(t)))}
    BY <1>1 DEF Leaf, LinksOf, L!LinkSet, L!MemoryChain, L!Shared, L!Exclusive
  <2> QED
    BY <1>1, <2>1, <2>2 DEF L!Links, L!Scopes, L!Modes, L!Shared, L!Exclusive
<1>2. CASE ~Leaf(t)
  <2>1. LinksOf(t) = {L!Shared(L!ProcessScope), L!Exclusive(L!GroupScope(Group))}
    BY <1>2 DEF Leaf, LinksOf, L!LinkSet, L!ExclusiveGroupChain
  <2> QED
    BY <2>1 DEF L!Links, L!Scopes, L!Modes, L!Shared, L!Exclusive
<1> QED
  BY <1>1, <1>2
\* Two calls between their locks are an edit or a delete each, of two memories.
LEMMA LockedTogether ==
  ASSUME RouteInv, NEW t \in Tasks, NEW u \in Tasks, t # u, Locked(t), Locked(u)
  PROVE  Leaf(t) /\ Leaf(u) /\ MemoryOf(t) # MemoryOf(u)
<1>1. held[t] = LinksOf(t) /\ held[u] = LinksOf(u)
  BY DEF RouteInv, RouteFollows, LinksFollow
<1>2. \A l \in LinksOf(t), k \in LinksOf(u) : ~L!Conflict(l, k)
  BY <1>1 DEF RouteInv, L!NoConflictingGuards
<1> DEFINE S == L!Shared(L!GroupScope(Group))
           X == L!Exclusive(L!GroupScope(Group))
           M(v) == L!Exclusive(L!MemoryScope(MemoryOf(v)))
<1>3. \A v \in Tasks : /\ Leaf(v) => S \in LinksOf(v) /\ M(v) \in LinksOf(v)
                       /\ ~Leaf(v) => X \in LinksOf(v)
  BY DEF Leaf, LinksOf, L!LinkSet, L!MemoryChain, L!ExclusiveGroupChain, L!Shared, L!Exclusive
<1>4. /\ L!Conflict(X, S) /\ L!Conflict(S, X) /\ L!Conflict(X, X)
      /\ MemoryOf(t) = MemoryOf(u) => L!Conflict(M(t), M(u))
  BY DEF L!Conflict, L!Shared, L!Exclusive
<1> QED
  BY <1>2, <1>3, <1>4

\* Who holds the exclusive group lock is a create or a move between its locks,
\* and nobody else is between theirs.
LEMMA ExclusiveIsAlone ==
  ASSUME RouteInv, NEW t \in Tasks, L!Exclusive(L!GroupScope(Group)) \in held[t]
  PROVE  /\ Locked(t) /\ ~Leaf(t)
         /\ \A u \in Tasks \ {t} : ~Locked(u)
<1>1. Locked(t) /\ held[t] = LinksOf(t)
  BY DEF RouteInv, RouteFollows, LinksFollow
<1>2. ~Leaf(t)
  <2>1. Leaf(t) => LinksOf(t) = {L!Shared(L!ProcessScope), L!Shared(L!GroupScope(Group)),
                                 L!Exclusive(L!MemoryScope(MemoryOf(t)))}
    BY DEF Leaf, LinksOf, L!LinkSet, L!MemoryChain, L!Shared, L!Exclusive
  <2>2. /\ L!Exclusive(L!GroupScope(Group)) # L!Shared(L!ProcessScope)
        /\ L!Exclusive(L!GroupScope(Group)) # L!Shared(L!GroupScope(Group))
        /\ L!Exclusive(L!GroupScope(Group)) # L!Exclusive(L!MemoryScope(MemoryOf(t)))
    BY DEF L!Shared, L!Exclusive, L!GroupScope, L!MemoryScope
  <2> QED
    BY <1>1, <2>1, <2>2
<1> QED
  BY <1>1, <1>2, LockedTogether

-----------------------------------------------------------------------------
(* One call takes a step.                                                  *)

\* The calls that do not move still follow their routes.
LEMMA OthersFollow ==
  ASSUME NEW u \in Tasks, RouteFollows(u), call' = call,
         at'[u] = at[u], held'[u] = held[u], path'[u] = path[u],
         phase'[u] = phase[u], result'[u] = result[u]
  PROVE  RouteFollows(u)'
BY DEF RouteFollows, LinksFollow, PathFollows, BackendFollows, ResultFollows,
       Locked, Pull, Leaf, LockStep, End, Steps, LinksOf, IsResolved, MemoryOf
\* A call is what it was: so are its route and the kind of its links.
LEMMA SameCall ==
  ASSUME call' = call, NEW t \in Tasks
  PROVE  /\ End(t)' = End(t) /\ LockStep(t)' = LockStep(t)
         /\ Leaf(t)' = Leaf(t) /\ Pull(t)' = Pull(t)
         /\ path'[t] = path[t] \/ ~Leaf(t) => LinksOf(t)' = LinksOf(t)
         /\ path'[t] = path[t] => MemoryOf(t)' = MemoryOf(t) /\ IsResolved(t)' = IsResolved(t)
BY DEF End, Steps, LockStep, Leaf, Pull, LinksOf, MemoryOf, IsResolved

\* So a step of t is good when t still follows its route after it and its guards
\* conflict with nobody's.
LEMMA OneCallSteps ==
  ASSUME RouteInv, NEW t \in Tasks, call' = call,
         ToolTypeOK', RouteFollows(t)', L!NoConflictingGuards',
         \A u \in Tasks \ {t} :
           /\ at'[u] = at[u] /\ held'[u] = held[u] /\ path'[u] = path[u]
           /\ phase'[u] = phase[u] /\ result'[u] = result[u]
  PROVE  RouteInv'
<1>1. ASSUME NEW u \in Tasks \ {t}
      PROVE  RouteFollows(u)'
  BY <1>1, OthersFollow DEF RouteInv
<1> QED
  BY <1>1 DEF RouteInv

\* What Advance does to the place and the result of t.
LEMMA AdvanceByOne ==
  ASSUME ToolTypeOK, NEW t \in Tasks, at[t] <= End(t), Advance(t)
  PROVE  /\ at' \in [Tasks -> 1..7]
         /\ at'[t] = at[t] + 1
         /\ \A u \in Tasks \ {t} : at'[u] = at[u]
         /\ result' = result
<1>1. End(t) \in 1..6 /\ at[t] \in 1..7
  BY StepsOfRoutes DEF ToolTypeOK
<1> QED
  BY <1>1 DEF Advance, ToolTypeOK

\* What Reply does to them.
LEMMA ReplyAtEnd ==
  ASSUME ToolTypeOK, NEW t \in Tasks, NEW r \in Results, Reply(t, r)
  PROVE  /\ at' \in [Tasks -> 1..7]
         /\ at'[t] = IF held[t] = {} THEN End(t) + 1 ELSE End(t)
         /\ result' \in [Tasks -> Results]
         /\ result'[t] = r
         /\ \A u \in Tasks \ {t} : at'[u] = at[u] /\ result'[u] = result[u]
<1>1. End(t) \in 1..6
  BY StepsOfRoutes
<1>2. /\ at' = [at EXCEPT ![t] = IF held[t] = {} THEN End(t) + 1 ELSE End(t)]
      /\ result' = [result EXCEPT ![t] = r]
  BY DEF Reply, End
<1> QED
  BY <1>1, <1>2 DEF ToolTypeOK

\* Taking the links: those of a tool that is between its locks conflict with
\* none that were had.
LEMMA LockKeepsRoute ==
  ASSUME RouteInv, NEW t \in Tasks, Lock(t)
  PROVE  RouteInv'
<1>1. /\ ~Pull(t) /\ at[t] = LockStep(t) /\ call' = call /\ path' = path /\ phase' = phase
      /\ text' = text
      /\ held' = [held EXCEPT ![t] = held[t] \union LinksOf(t)]
      /\ L!Grantable(t, LinksOf(t))
  BY StepsOfRoutes DEF Lock, RouteInv, L!Acquire, repoVars
<1>2. /\ LockStep(t) + 1 < End(t) /\ End(t) \in Int /\ LockStep(t) \in Int
      /\ Leaf(t) => LockStep(t) > 1
      /\ ~Leaf(t) => LockStep(t) = 1
  BY <1>1, RouteNumbers DEF RouteInv
<1>3. /\ at' \in [Tasks -> 1..7] /\ at'[t] = at[t] + 1 /\ result' = result
      /\ \A u \in Tasks \ {t} : at'[u] = at[u]
  BY <1>1, <1>2, AdvanceByOne DEF Lock, RouteInv
<1>4. RouteFollows(t)
  BY DEF RouteInv
<1>5. Leaf(t) => MemoryOf(t) \in Ids
  BY <1>1, <1>2, <1>4 DEF RouteFollows, PathFollows, IsResolved
<1>6. /\ held[t] = {} /\ held' \in [Tasks -> SUBSET L!Links] /\ held'[t] = LinksOf(t)
      /\ \A u \in Tasks \ {t} : held'[u] = held[u]
  <2>1. held[t] = {}
    BY <1>1, <1>2, <1>4 DEF RouteFollows, LinksFollow, Locked
  <2> QED
    BY <1>1, <1>5, <2>1, LinksOfAreLinks DEF RouteInv, ToolTypeOK
<1>7. ToolTypeOK'
  BY <1>1, <1>3, <1>6 DEF RouteInv, ToolTypeOK
<1>8. RouteFollows(t)'
  BY <1>1, <1>2, <1>3, <1>4, <1>5, <1>6, SameCall
     DEF RouteFollows, LinksFollow, PathFollows, BackendFollows, ResultFollows, Locked, Leaf, Pull
<1>9. L!NoConflictingGuards'
  BY <1>1, <1>6 DEF RouteInv, L!NoConflictingGuards, L!Grantable, L!Conflict
<1> QED
  BY <1>1, <1>3, <1>6, <1>7, <1>8, <1>9, OneCallSteps

\* Giving the links back.
LEMMA UnlockKeepsRoute ==
  ASSUME RouteInv, NEW t \in Tasks, Unlock(t)
  PROVE  RouteInv'
<1>1. /\ ~Pull(t) /\ at[t] = End(t) /\ call' = call /\ path' = path /\ phase' = phase
      /\ text' = text
      /\ held' = [held EXCEPT ![t] = held[t] \ held[t]]
  BY StepsOfRoutes DEF Unlock, RouteInv, L!Release, repoVars
<1>2. End(t) \in Int /\ LockStep(t) \in Int
  BY RouteNumbers DEF RouteInv
<1>3. /\ at' \in [Tasks -> 1..7] /\ at'[t] = at[t] + 1 /\ result' = result
      /\ \A u \in Tasks \ {t} : at'[u] = at[u]
  BY <1>1, <1>2, AdvanceByOne DEF Unlock, RouteInv
<1>4. RouteFollows(t)
  BY DEF RouteInv
<1>5. /\ held' \in [Tasks -> SUBSET L!Links] /\ held'[t] = {}
      /\ \A u \in Tasks \ {t} : held'[u] = held[u]
  BY <1>1 DEF RouteInv, ToolTypeOK
<1>6. ToolTypeOK'
  BY <1>1, <1>3, <1>5 DEF RouteInv, ToolTypeOK
<1>7. RouteFollows(t)'
  BY <1>1, <1>2, <1>3, <1>4, <1>5, SameCall
     DEF RouteFollows, LinksFollow, PathFollows, BackendFollows, ResultFollows, Locked, Leaf, Pull
<1>8. L!NoConflictingGuards'
  BY <1>5 DEF RouteInv, L!NoConflictingGuards
<1> QED
  BY <1>1, <1>3, <1>5, <1>6, <1>7, <1>8, OneCallSteps

\* Resolve, probe and read: a look at the repository, before the locks of an edit
\* or a delete and under those of a write or a move.  The call goes on with its
\* path, if it has one, or ends.
LEMMA LookKeepsRoute ==
  ASSUME RouteInv, NEW t \in Tasks, ~Pull(t), UNCHANGED <<held, call, phase>>,
         at[t] < End(t) - 1,
         Leaf(t) => at[t] < LockStep(t), ~Leaf(t) => at[t] > 1,
         text' \in [Tasks -> Contents],
         path' \in [Tasks -> Paths \union {NoPath}],
         \A u \in Tasks \ {t} : path'[u] = path[u],
         \/ Advance(t) /\ (IsResolved(t)' \/ call[t].tool = "write")
         \/ \E r \in Results : Reply(t, r)
  PROVE  RouteInv'
<1>1. /\ End(t) \in 1..6 /\ LockStep(t) \in 1..3 /\ at[t] \in 1..7
      /\ LockStep(t) + 1 < End(t)
      /\ Leaf(t) => LockStep(t) > 1 /\ LockStep(t) + 2 = End(t)
      /\ ~Leaf(t) => LockStep(t) = 1
  BY RouteNumbers DEF RouteInv, ToolTypeOK
<1>2. RouteFollows(t)
  BY DEF RouteInv
<1>3. /\ held' = held /\ call' = call /\ phase' = phase
      /\ ~Leaf(t) => held[t] # {}
      /\ Leaf(t) => held[t] = {}
      /\ held[t] = IF Leaf(t) THEN {} ELSE LinksOf(t)
  BY <1>1, <1>2, LinksOfAreLinks DEF RouteFollows, LinksFollow, Locked
<1>4. \/ /\ at'[t] = at[t] + 1 /\ result'[t] = result[t]
         /\ IsResolved(t)' \/ call[t].tool = "write"
      \/ at'[t] = IF Leaf(t) THEN End(t) + 1 ELSE End(t)
  BY <1>1, <1>3, AdvanceByOne, ReplyAtEnd DEF RouteInv
<1>5. /\ at' \in [Tasks -> 1..7] /\ result' \in [Tasks -> Results]
      /\ \A u \in Tasks \ {t} : at'[u] = at[u] /\ result'[u] = result[u]
  BY AdvanceByOne, ReplyAtEnd, <1>1 DEF RouteInv, ToolTypeOK
<1>6. ToolTypeOK'
  BY <1>3, <1>5 DEF RouteInv, ToolTypeOK
<1>7. RouteFollows(t)'
  <2>1. LinksFollow(t)'
    BY <1>1, <1>3, <1>4, SameCall DEF LinksFollow, Locked
  <2>2. PathFollows(t)'
    BY <1>1, <1>3, <1>4, SameCall DEF PathFollows, Leaf
  <2>3. BackendFollows(t)'
    BY <1>1, <1>2, <1>3, SameCall DEF RouteFollows, BackendFollows
  <2>4. ResultFollows(t)'
    BY <1>1, <1>2, <1>3, <1>4, SameCall DEF RouteFollows, ResultFollows
  <2> QED
    BY <2>1, <2>2, <2>3, <2>4 DEF RouteFollows
<1>8. L!NoConflictingGuards'
  BY <1>3 DEF RouteInv, L!NoConflictingGuards
<1> QED
  BY <1>3, <1>5, <1>6, <1>7, <1>8, OneCallSteps
\* A commit's files are at paths and hold contents.
LEMMA TreesOfCommits ==
  ASSUME RepoShape, NEW c \in CommitIds
  PROVE  /\ Tree(c) \in Trees
         /\ DOMAIN Tree(c) \subseteq Paths
         /\ \A p \in DOMAIN Tree(c) : Tree(c)[p] \in Contents
<1>1. commits[c] \in Commit
  BY DEF RepoShape, CommitIds
<1>2. Tree(c) \in Trees
  BY <1>1 DEF Commit, Tree
<1> QED
  BY <1>2 DEF Trees, TreesOver

\* An address stands for files of main; a slug alone for files named after ids.
LEMMA CandidatesAreFiles ==
  ASSUME NEW c, NEW p \in Candidates(c)
  PROVE  /\ p \in DOMAIN Tip
         /\ c.id = NoId => p[2] \in Ids
<1>1. CASE c.id = NoId
  BY <1>1 DEF Candidates
<1>2. CASE c.id # NoId
  <2>1. p \in Inside(c.id)
    BY <1>2 DEF Candidates, FirstOf
  <2> QED
    BY <1>2, <2>1 DEF Inside
<1> QED
  BY <1>1, <1>2

\* An address is resolved to a path of main.
LEMMA ResolveKeepsRoute ==
  ASSUME RepoShape, RouteInv, NEW t \in Tasks, Resolve(t)
  PROVE  RouteInv'
<1>1. PICK p \in Candidates(call[t]) :
        /\ path' = [path EXCEPT ![t] = p]
        /\ Advance(t) \/ Reply(t, "already")
  BY DEF Resolve
<1>2. p \in Paths /\ (call[t].id = NoId => p[2] \in Ids)
  BY <1>1, CandidatesAreFiles, TreesOfCommits DEF Tip, RepoShape
<1>3. /\ path' \in [Tasks -> Paths \union {NoPath}]
      /\ path'[t] = p
      /\ \A u \in Tasks \ {t} : path'[u] = path[u]
  BY <1>1, <1>2 DEF RouteInv, ToolTypeOK
<1>4. UNCHANGED <<held, call, phase>> /\ text' \in [Tasks -> Contents]
  BY DEF Resolve, repoVars, RouteInv, ToolTypeOK
<1>5. /\ ~Pull(t) /\ at[t] < End(t) - 1
      /\ Leaf(t) => at[t] < LockStep(t)
      /\ ~Leaf(t) => at[t] > 1
  <2>1. \/ Leaf(t) /\ at[t] = 1
        \/ call[t].tool = "move" /\ at[t] = 2
    BY StepsOfRoutes DEF Resolve, RouteInv
  <2>2. CASE Leaf(t) /\ at[t] = 1
    BY <2>2, RouteNumbers DEF RouteInv
  <2>3. CASE call[t].tool = "move" /\ at[t] = 2
    BY <2>3, StepsOfRoutes DEF RouteInv, Leaf, Pull
  <2> QED
    BY <2>1, <2>2, <2>3
<1>6. call[t].id \in Ids \union {NoId}
  BY CallShape DEF RouteInv
<1>7. IsResolved(t)'
  BY <1>2, <1>3, <1>4, <1>6 DEF IsResolved, MemoryOf
<1> QED
  BY <1>1, <1>3, <1>4, <1>5, <1>7, LookKeepsRoute DEF Results

\* An address that stands for no file, or for several, ends the call.
LEMMA ResolveFailsKeepsRoute ==
  ASSUME RouteInv, NEW t \in Tasks, ResolveFails(t)
  PROVE  RouteInv'
<1>1. \E r \in Results : Reply(t, r)
  BY DEF ResolveFails, Results
<1>2. /\ UNCHANGED <<held, call, phase>>
      /\ text' \in [Tasks -> Contents] /\ path' \in [Tasks -> Paths \union {NoPath}]
      /\ \A u \in Tasks \ {t} : path'[u] = path[u]
  BY DEF ResolveFails, repoVars, RouteInv, ToolTypeOK
<1>3. /\ ~Pull(t) /\ at[t] < End(t) - 1
      /\ Leaf(t) => at[t] < LockStep(t)
      /\ ~Leaf(t) => at[t] > 1
  <2>1. \/ Leaf(t) /\ at[t] = 1
        \/ call[t].tool = "move" /\ at[t] = 2
    BY StepsOfRoutes DEF ResolveFails, RouteInv
  <2>2. CASE Leaf(t) /\ at[t] = 1
    BY <2>2, RouteNumbers DEF RouteInv
  <2>3. CASE call[t].tool = "move" /\ at[t] = 2
    BY <2>3, StepsOfRoutes DEF RouteInv, Leaf, Pull
  <2> QED
    BY <2>1, <2>2, <2>3
<1> QED
  BY <1>1, <1>2, <1>3, LookKeepsRoute

\* A look for the destination goes on or ends the call.
LEMMA ProbeKeepsRoute ==
  ASSUME RouteInv, NEW t \in Tasks, Probe(t)
  PROVE  RouteInv'
<1>1. Advance(t) \/ \E r \in Results : Reply(t, r)
  BY DEF Probe, Results
<1>2. /\ UNCHANGED <<held, call, phase>> /\ path' = path
      /\ text' \in [Tasks -> Contents] /\ path' \in [Tasks -> Paths \union {NoPath}]
  BY DEF Probe, repoVars, RouteInv, ToolTypeOK
<1>3. \/ call[t].tool = "write" /\ at[t] = 2
      \/ call[t].tool = "move" /\ at[t] = 3
  BY StepsOfRoutes DEF Probe, RouteInv
<1>4. /\ ~Pull(t) /\ at[t] < End(t) - 1 /\ ~Leaf(t) /\ at[t] > 1
      /\ IsResolved(t) \/ call[t].tool = "write"
  <2>1. call[t].tool = "write" => End(t) = 4
    BY StepsOfRoutes DEF RouteInv
  <2>2. call[t].tool = "move" => End(t) = 6
    BY StepsOfRoutes DEF RouteInv
  <2> QED
    BY <1>3, <2>1, <2>2 DEF RouteInv, RouteFollows, PathFollows, Leaf, Pull
<1>5. IsResolved(t)' = IsResolved(t)
  BY <1>2, SameCall
<1> QED
  BY <1>1, <1>2, <1>4, <1>5, LookKeepsRoute

\* A read brings a content of main, or ends the call.
LEMMA ReadKeepsRoute ==
  ASSUME RepoShape, RouteInv, NEW t \in Tasks, Read(t)
  PROVE  RouteInv'
<1>1. \/ Advance(t) /\ path[t] \in DOMAIN Tip /\ text' = [text EXCEPT ![t] = Tip[path[t]]]
      \/ (\E r \in Results : Reply(t, r)) /\ text' = text
  BY DEF Read, Results
<1>2. path[t] \in DOMAIN Tip => path[t] \in Paths /\ Tip[path[t]] \in Contents
  BY TreesOfCommits DEF Tip, RepoShape
<1>3. /\ UNCHANGED <<held, call, phase>> /\ path' = path
      /\ text' \in [Tasks -> Contents] /\ path' \in [Tasks -> Paths \union {NoPath}]
  BY <1>1, <1>2 DEF Read, repoVars, RouteInv, ToolTypeOK
<1>4. \/ call[t].tool = "edit" /\ at[t] = 2
      \/ call[t].tool = "move" /\ at[t] = 4
  BY StepsOfRoutes DEF Read, RouteInv
<1>5. /\ ~Pull(t) /\ at[t] < End(t) - 1
      /\ Leaf(t) => at[t] < LockStep(t)
      /\ ~Leaf(t) => at[t] > 1
  <2>1. call[t].tool = "edit" => End(t) = 5
    BY StepsOfRoutes DEF RouteInv
  <2>2. call[t].tool = "move" => End(t) = 6
    BY StepsOfRoutes DEF RouteInv
  <2> QED
    BY <1>4, <2>1, <2>2 DEF Leaf, Pull, LockStep
<1>6. Advance(t) => IsResolved(t)'
  <2>1. IsResolved(t)
    BY <1>4, StepsOfRoutes DEF RouteInv, RouteFollows, PathFollows, Leaf
  <2> QED
    BY <1>3, <2>1, SameCall
<1> QED
  BY <1>1, <1>2, <1>3, <1>5, <1>6, LookKeepsRoute
\* A step inside the backend call of t.
LEMMA BackendKeepsRoute ==
  ASSUME RouteInv, NEW t \in Tasks, UNCHANGED toolVars, BackendFollows(t)',
         \A u \in Tasks \ {t} : phase'[u] = phase[u]
  PROVE  RouteInv'
<1>1. /\ held' = held /\ call' = call /\ at' = at /\ path' = path /\ text' = text
      /\ result' = result
  BY DEF toolVars
<1>2. ToolTypeOK' /\ L!NoConflictingGuards'
  BY <1>1 DEF RouteInv, ToolTypeOK, L!NoConflictingGuards
<1>3. RouteFollows(t)'
  <2>1. RouteFollows(t)
    BY DEF RouteInv
  <2> QED
    BY <1>1, <2>1, SameCall
       DEF RouteFollows, LinksFollow, PathFollows, ResultFollows, Locked, Leaf
<1> QED
  BY <1>1, <1>2, <1>3, OneCallSteps

\* The backend call of t returns, and t with it.
LEMMA EndKeepsRoute ==
  ASSUME RouteInv, NEW t \in Tasks, NEW r \in Results, Reply(t, r),
         UNCHANGED <<held, call, path, text>>,
         phase'[t] = "none", \A u \in Tasks \ {t} : phase'[u] = phase[u],
         at[t] = IF Pull(t) THEN 1 ELSE End(t) - 1
  PROVE  RouteInv'
<1>1. /\ End(t) \in 1..6 /\ LockStep(t) \in 1..3 /\ at[t] \in 1..7
      /\ ~Pull(t) => LockStep(t) + 1 < End(t)
      /\ Leaf(t) => LockStep(t) > 1 /\ ~Pull(t)
      /\ Pull(t) => End(t) = 1
  BY RouteNumbers, StepsOfRoutes DEF RouteInv, ToolTypeOK, Pull
<1>2. RouteFollows(t) /\ (Leaf(t) => IsResolved(t) /\ MemoryOf(t) \in Ids)
  BY <1>1 DEF RouteInv, RouteFollows, PathFollows, IsResolved
<1>3. /\ held' = held /\ call' = call /\ path' = path /\ text' = text
      /\ held[t] = IF Pull(t) THEN {} ELSE LinksOf(t)
      /\ ~Pull(t) => held[t] # {}
  BY <1>1, <1>2, LinksOfAreLinks DEF RouteFollows, LinksFollow, Locked
<1>4. /\ at' \in [Tasks -> 1..7] /\ result' \in [Tasks -> Results]
      /\ at'[t] = IF Pull(t) THEN 2 ELSE End(t)
      /\ \A u \in Tasks \ {t} : at'[u] = at[u] /\ result'[u] = result[u]
  BY <1>1, <1>3, ReplyAtEnd DEF RouteInv
<1>5. ToolTypeOK' /\ L!NoConflictingGuards'
  BY <1>3, <1>4 DEF RouteInv, ToolTypeOK, L!NoConflictingGuards
<1>6. RouteFollows(t)'
  <2>1. LinksFollow(t)'
    BY <1>1, <1>3, <1>4, SameCall DEF LinksFollow, Locked
  <2>2. PathFollows(t)'
    BY <1>1, <1>2, <1>3, <1>4, SameCall DEF PathFollows, Leaf, Pull
  <2>3. BackendFollows(t)'
    BY DEF BackendFollows
  <2>4. ResultFollows(t)'
    BY <1>1, <1>3, <1>4, SameCall DEF ResultFollows
  <2> QED
    BY <2>1, <2>2, <2>3, <2>4 DEF RouteFollows
<1> QED
  BY <1>3, <1>4, <1>5, <1>6, OneCallSteps
\* The steps of write_commit and of fast_forward that do not end the call.
LEMMA InsideKeepsRoute ==
  ASSUME RepoShape, RouteInv, NEW t \in Tasks,
         \/ CommitBegins(t) \/ CommitIsWritten(t)
         \/ PullBegins(t) \/ PullRefinds(t)
         \/ \E e \in RemoteEdits : PullFetches(t, e)
  PROVE  RouteInv'
<1>1. CASE CommitBegins(t) \/ CommitIsWritten(t)
  <2>1. ~Pull(t) /\ at[t] = End(t) - 1 /\ UNCHANGED toolVars
    BY <1>1, StepsOfRoutes DEF CommitBegins, CommitIsWritten, RouteInv
  <2>2. /\ phase'[t] \in {"based", "written"}
        /\ \A u \in Tasks \ {t} : phase'[u] = phase[u]
    BY <1>1 DEF CommitBegins, CommitIsWritten, FindParent, WriteObject, RepoShape
  <2>3. BackendFollows(t)'
    BY <2>1, <2>2, SameCall DEF BackendFollows, toolVars
  <2> QED
    BY <2>1, <2>2, <2>3, BackendKeepsRoute
<1>2. CASE PullBegins(t) \/ PullRefinds(t)
  <2>1. Pull(t) /\ at[t] = 1 /\ UNCHANGED toolVars
    BY <1>2, StepsOfRoutes DEF PullBegins, PullRefinds, RouteInv
  <2>2. /\ phase'[t] \in {"aimed", "refound"}
        /\ \A u \in Tasks \ {t} : phase'[u] = phase[u]
    BY <1>2 DEF PullBegins, PullRefinds, FindTarget, Refind, RepoShape
  <2>3. BackendFollows(t)'
    BY <2>1, <2>2, SameCall DEF BackendFollows, toolVars
  <2> QED
    BY <2>1, <2>2, <2>3, BackendKeepsRoute
<1>3. CASE \E e \in RemoteEdits : PullFetches(t, e)
  <2>1. UNCHANGED toolVars /\ phase' = phase
    BY <1>3 DEF PullFetches, Fetch
  <2>2. BackendFollows(t)'
    BY <2>1, SameCall DEF RouteInv, RouteFollows, BackendFollows, toolVars
  <2> QED
    BY <2>1, <2>2, BackendKeepsRoute
<1> QED
  BY <1>1, <1>2, <1>3

\* The end of write_commit.
LEMMA CommitEndsKeepsRoute ==
  ASSUME RepoShape, RouteInv, NEW t \in Tasks, CommitEnds(t)
  PROVE  RouteInv'
<1>1. \E r \in Results : Reply(t, r)
  BY DEF CommitEnds, Results
<1>2. phase'[t] = "none" /\ \A u \in Tasks \ {t} : phase'[u] = phase[u]
  BY DEF CommitEnds, SwapMain, RepoShape
<1>3. ~Pull(t) /\ at[t] = End(t) - 1 /\ UNCHANGED <<held, call, path, text>>
  BY StepsOfRoutes DEF CommitEnds, RouteInv
<1> QED
  BY <1>1, <1>2, <1>3, EndKeepsRoute

\* An edit that is refused ends without a commit.
LEMMA RefusalKeepsRoute ==
  ASSUME RouteInv, NEW t \in Tasks, CommitIsRefused(t)
  PROVE  RouteInv'
<1>1. "mismatch" \in Results /\ Reply(t, "mismatch")
  BY DEF CommitIsRefused, Results
<1>2. phase'[t] = "none" /\ \A u \in Tasks \ {t} : phase'[u] = phase[u]
  BY DEF CommitIsRefused, repoVars
<1>3. ~Pull(t) /\ at[t] = End(t) - 1 /\ UNCHANGED <<held, call, path, text>>
  BY StepsOfRoutes DEF CommitIsRefused, RouteInv
<1> QED
  BY <1>1, <1>2, <1>3, EndKeepsRoute

\* The comparison of fast_forward, which may end it, and its end.
LEMMA PullEndsKeepsRoute ==
  ASSUME RepoShape, RouteInv, NEW t \in Tasks, PullCompares(t) \/ PullEnds(t)
  PROVE  RouteInv'
<1>1. Pull(t) /\ at[t] = 1 /\ UNCHANGED <<held, call, path, text>>
  BY StepsOfRoutes DEF PullCompares, PullEnds, RouteInv
<1>2. \A u \in Tasks \ {t} : phase'[u] = phase[u]
  BY DEF PullCompares, FindLocal, PullEnds, SwapMain, RepoShape
<1>3. CASE phase'[t] = "ancestor"
  <2>1. UNCHANGED <<at, result>>
    BY <1>3 DEF PullCompares, PullEnds, SwapMain, RepoShape
  <2>2. UNCHANGED toolVars
    BY <1>1, <2>1 DEF toolVars
  <2>3. BackendFollows(t)'
    BY <1>1, <1>3, <2>1, SameCall DEF BackendFollows
  <2> QED
    BY <1>2, <2>2, <2>3, BackendKeepsRoute
<1>4. CASE phase'[t] # "ancestor"
  <2>1. phase'[t] = "none"
    BY <1>4 DEF PullCompares, FindLocal, PullEnds, SwapMain, RepoShape
  <2>2. \E r \in Results : Reply(t, r)
    BY <1>4 DEF PullCompares, PullEnds, Results
  <2> QED
    BY <1>1, <1>2, <2>1, <2>2, EndKeepsRoute
<1> QED
  BY <1>3, <1>4

\* Every step of the tools keeps the calls on their routes.
LEMMA NextKeepsRoute ==
  ASSUME RepoShape, RouteInv, [Next]_vars
  PROVE  RouteInv'
<1>1. CASE UNCHANGED vars
  <2>1. /\ held' = held /\ call' = call /\ at' = at /\ path' = path /\ text' = text
        /\ result' = result /\ phase' = phase
    BY <1>1 DEF vars, toolVars, repoVars
  <2>2. \A t \in Tasks : RouteFollows(t)'
    BY <2>1, OthersFollow DEF RouteInv
  <2> QED
    BY <2>1, <2>2 DEF RouteInv, ToolTypeOK, L!NoConflictingGuards
<1>2. CASE Next
  BY <1>2, LockKeepsRoute, UnlockKeepsRoute, ResolveKeepsRoute, ResolveFailsKeepsRoute,
     ProbeKeepsRoute, ReadKeepsRoute, RefusalKeepsRoute, InsideKeepsRoute, CommitEndsKeepsRoute, PullEndsKeepsRoute
     DEF Next
<1> QED
  BY <1>1, <1>2

\* Calls start at the beginning of their routes.
LEMMA InitFollowsRoutes ==
  ASSUME Init
  PROVE  RouteInv
<1>1. ToolTypeOK
  <2>1. text \in [Tasks -> Contents]
    BY ContentsAssumption DEF Init, Content
  <2>2. call \in [Tasks -> Calls]
    BY AsksAssumption DEF Init
  <2> QED
    BY <2>1, <2>2 DEF Init, ToolTypeOK, L!Init, Results
<1>2. /\ held = [t \in Tasks |-> {}] /\ at = [t \in Tasks |-> 1]
      /\ result = [t \in Tasks |-> "none"] /\ phase = [t \in Tasks |-> "none"]
  BY DEF Init, RepoInit, L!Init
<1>3. ASSUME NEW t \in Tasks
      PROVE  RouteFollows(t)
  <2>1. LockStep(t) \in 1..3
    BY <1>1, RouteNumbers
  <2>2. held[t] = {} /\ at[t] = 1 /\ result[t] = "none" /\ phase[t] = "none"
    BY <1>2
  <2> QED
    BY <2>1, <2>2
       DEF RouteFollows, LinksFollow, PathFollows, BackendFollows, ResultFollows, Locked
<1> QED
  BY <1>1, <1>2, <1>3 DEF RouteInv, L!NoConflictingGuards
-----------------------------------------------------------------------------
(* The tools only do to the repository what the backend does.              *)

\* A write and a move put their memory at a path.
LEMMA DestinationIsPath ==
  ASSUME RouteInv, NEW t \in Tasks,
         \/ call[t].tool = "write"
         \/ call[t].tool = "move" /\ IsResolved(t)
  PROVE  Destination(t) \in Paths
<1>1. call[t].to \in Slugs /\ (call[t].tool = "write" => call[t].id \in Ids)
  BY CallShape DEF RouteInv
<1>2. MemoryOf(t) \in Ids
  BY <1>1, NoneAssumption DEF MemoryOf, IsResolved
<1> QED
  BY <1>1, <1>2, PathsAssumption DEF Destination, MemoryOf

\* What a call makes of what it read is a content.
LEMMA ContentsOfCall ==
  ASSUME RouteInv, NEW t \in Tasks
  PROVE  /\ text[t] \in Contents
         /\ Content(text[t].id, text[t].by \union {t}) \in Contents
         /\ call[t].tool = "write" => Content(call[t].id, {t}) \in Contents
<1>1. text[t] \in Contents /\ (call[t].tool = "write" => call[t].id \in Ids)
  BY CallShape DEF RouteInv, ToolTypeOK
<1> QED
  BY <1>1, ContentsAssumption DEF Content

\* What a call commits is an edit of the repository.
LEMMA EditsOfAreEdits ==
  ASSUME RouteInv, NEW t \in Tasks, ~Pull(t), at[t] = End(t) - 1
  PROVE  EditsOf(t) \in Edits
<1>1. call[t].tool \in {"write", "edit", "delete", "move"}
  BY CallShape DEF RouteInv, Pull
<1>2. call[t].tool # "write" => path[t] \in Paths /\ IsResolved(t)
  <2>1. /\ call[t].tool = "edit" => End(t) = 5
        /\ call[t].tool = "delete" => End(t) = 4
        /\ call[t].tool = "move" => End(t) = 6
    BY StepsOfRoutes DEF RouteInv
  <2> QED
    BY <1>1, <2>1 DEF RouteInv, RouteFollows, PathFollows, Leaf, IsResolved
<1>3. /\ text[t] \in Contents
      /\ Content(text[t].id, text[t].by \union {t}) \in Contents
      /\ call[t].tool = "write" => Content(call[t].id, {t}) \in Contents
  BY ContentsOfCall
<1>4. PutsOf(t) \in Trees
  <2>1. CASE call[t].tool = "edit"
    <3>1. PutsOf(t) \in [{path[t]} -> Contents]
      BY <1>3, <2>1 DEF PutsOf
    <3> QED
      BY <1>2, <2>1, <3>1 DEF Trees, TreesOver
  <2>2. CASE call[t].tool = "delete"
    <3>1. PutsOf(t) \in [{} -> Contents]
      BY <2>2 DEF PutsOf
    <3> QED
      BY <3>1 DEF Trees, TreesOver
  <2>3. CASE call[t].tool \in {"write", "move"}
    <3>1. PutsOf(t) \in [{Destination(t)} -> Contents]
      BY <1>3, <2>3 DEF PutsOf
    <3>2. Destination(t) \in Paths
      BY <1>2, <2>3, DestinationIsPath
    <3> QED
      BY <3>1, <3>2 DEF Trees, TreesOver
  <2> QED
    BY <1>1, <2>1, <2>2, <2>3
<1>5. EditsOf(t).drop \in SUBSET Paths
  BY <1>1, <1>2 DEF EditsOf
<1> QED
  BY <1>4, <1>5 DEF EditsOf, Edits, EditsOver, Trees

\* What a fetch brings is an edit of the repository.
LEMMA RemoteEditsAreEdits == RemoteEdits \subseteq Edits
<1> SUFFICES ASSUME NEW f \in Sent
             PROVE  [put |-> [p \in {f[1]} |-> Content(f[2], {})], drop |-> {}] \in Edits
  BY DEF RemoteEdits
<1>1. f[1] \in Paths /\ f[2] \in Ids \union {NoId}
  BY FilesAssumption
<1>2. Content(f[2], {}) \in Contents
  BY <1>1, ContentsAssumption DEF Content
<1>3. [p \in {f[1]} |-> Content(f[2], {})] \in [{f[1]} -> Contents]
  BY <1>2
<1>4. [p \in {f[1]} |-> Content(f[2], {})] \in Trees
  BY <1>1, <1>3 DEF Trees, TreesOver
<1> QED
  BY <1>4 DEF Edits, EditsOver, Trees

\* Every step of a tool is a step of the backend or leaves the repository alone.
LEMMA ToolStepIsRepoStep ==
  ASSUME RouteInv, [Next]_vars
  PROVE  [RepoNext]_repoVars
<1>1. CASE UNCHANGED vars
  BY <1>1 DEF vars
<1>2. ASSUME NEW t \in Tasks, Lock(t) \/ Unlock(t) \/ Resolve(t) \/ ResolveFails(t) \/ Probe(t) \/ Read(t) \/ CommitIsRefused(t)
      PROVE  UNCHANGED repoVars
  BY <1>2 DEF Lock, Unlock, Resolve, ResolveFails, Probe, Read, CommitIsRefused
<1>3. ASSUME NEW t \in Tasks, CommitIsWritten(t)
      PROVE  RepoNext
  <2>1. EditsOf(t) \in Edits
    BY <1>3, StepsOfRoutes, EditsOfAreEdits DEF CommitIsWritten, RouteInv
  <2> QED
    BY <1>3, <2>1 DEF CommitIsWritten, RepoNext, Edits
<1>4. ASSUME NEW t \in Tasks, CommitBegins(t) \/ CommitEnds(t) \/ PullBegins(t)
                              \/ PullCompares(t) \/ PullRefinds(t) \/ PullEnds(t)
      PROVE  RepoNext
  BY <1>4 DEF CommitBegins, CommitEnds, PullBegins, PullCompares, PullRefinds, PullEnds, RepoNext, Edits
<1>5. ASSUME NEW t \in Tasks, NEW e \in RemoteEdits, PullFetches(t, e)
      PROVE  RepoNext
  BY <1>5, RemoteEditsAreEdits DEF PullFetches, RepoNext, Edits
<1> QED
  BY <1>1, <1>2, <1>3, <1>4, <1>5 DEF Next

\* The group starts with files that hold contents.
LEMMA ToolsStartTheRepo ==
  ASSUME Init
  PROVE  \E seed \in Trees : RepoInit(seed)
<1>1. PICK seed \in Seeds : RepoInit(seed)
  BY DEF Init
<1>2. seed \in [DOMAIN seed -> Contents] /\ DOMAIN seed \in SUBSET Paths
  BY FilesAssumption DEF IsTree
<1>3. seed \in Trees
  BY <1>2 DEF Trees, TreesOver
<1> QED
  BY <1>1, <1>3

\* Calls follow their routes and guards never conflict, in every behaviour.
THEOREM ToolInvariance == Spec => [](RepoInv /\ RouteInv)
<1>1. Init => RepoInv /\ RouteInv
  BY ToolsStartTheRepo, RepoInitInv, InitFollowsRoutes
<1>2. RepoInv /\ RouteInv /\ [Next]_vars => (RepoInv /\ RouteInv)'
  BY ToolStepIsRepoStep, RepoNextInv, NextKeepsRoute DEF RepoInv
<1> QED
  BY <1>1, <1>2, PTL DEF Spec

\* The tools implement the repository: whatever they do, the repository of the
\* group goes through the steps GroupRepo allows, and no others.
THEOREM ToolsImplementRepo == Spec => RepoSpec
<1>1. Init => \E seed \in TreesOver(Paths) : RepoInit(seed)
  BY ToolsStartTheRepo DEF Trees
<1>2. RouteInv /\ [Next]_vars => [RepoNext]_repoVars
  BY ToolStepIsRepoStep
<1> QED
  BY <1>1, <1>2, ToolInvariance, PTL DEF Spec, RepoSpec

\* Every state of the tools has the types the code gives it.
THEOREM TypeCorrect == Spec => []TypeOK
<1>1. RepoInv /\ RouteInv => TypeOK
  BY RepoInvIsTyped DEF RouteInv, ToolTypeOK, TypeOK
<1> QED
  BY <1>1, ToolInvariance, PTL

\* So a call, a commit or a pull, that moves main keeps every commit it saw
\* there first, whatever the other tools do meanwhile.
THEOREM ToolsDropNothingSeen == Spec => NothingSeenIsDropped
BY ToolsImplementRepo, WindowKeepsHistory, PTL

\* No two calls ever have guards on conflicting links.
THEOREM GuardsNeverConflict == Spec => []L!NoConflictingGuards
<1>1. RouteInv => L!NoConflictingGuards
  BY DEF RouteInv
<1> QED
  BY <1>1, ToolInvariance, PTL
-----------------------------------------------------------------------------
(* Stable view.                                                            *)

\* A call that can move main is a pull or between its locks.
LEMMA MoversAreLocked ==
  ASSUME RouteInv, NEW u \in Tasks, phase[u] \in {"based", "written", "refound"}, ~Pull(u)
  PROVE  Locked(u) /\ phase[u] # "refound" /\ at[u] = End(u) - 1
<1>1. at[u] = End(u) - 1 /\ phase[u] # "refound"
  BY DEF RouteInv, RouteFollows, BackendFollows
<1>2. LockStep(u) + 1 < End(u) /\ End(u) \in Int /\ LockStep(u) \in Int
  BY RouteNumbers DEF RouteInv
<1> QED
  BY <1>1, <1>2 DEF Locked

\* While a call holds the exclusive group lock, no other tool call moves main.
THEOREM ViewIsStable == Spec => StableView
<1> DEFINE Stable == \A t, u \in Tasks :
      L!Exclusive(L!GroupScope(Group)) \in held[t] /\ Moves(u) => u = t \/ Pull(u)
<1>1. RouteInv => [Stable]_vars
  <2> SUFFICES ASSUME RouteInv, NEW t \in Tasks, NEW u \in Tasks,
                      L!Exclusive(L!GroupScope(Group)) \in held[t], Moves(u), ~Pull(u)
               PROVE  u = t
    BY DEF Stable
  <2>1. Locked(u)
    BY MoversAreLocked DEF Moves
  <2> QED
    BY <2>1, ExclusiveIsAlone
<1> QED
  BY <1>1, ToolInvariance, PTL DEF StableView

-----------------------------------------------------------------------------
(* Commits.                                                                *)

\* No step rewrites a commit.
LEMMA CommitsStay ==
  ASSUME RepoInv, [RepoNext]_repoVars
  PROVE  /\ CommitIds \subseteq CommitIds'
         /\ \A c \in CommitIds : /\ commits'[c] = commits[c]
                                 /\ Hist(c)' = Hist(c) /\ Tree(c)' = Tree(c)
<1>1. CASE commits' = commits
  BY <1>1 DEF CommitIds, Hist, Tree
<1>2. CASE commits' # commits
  <2>1. PICK b \in CommitIds, e \in Edits, a \in Tasks \union {Peer} :
          commits' = Append(commits, Child(b, e, a))
    BY <1>2 DEF RepoNext, Edits, FindParent, WriteObject, FindTarget, FindLocal, Refind, SwapMain, Fetch,
       repoVars, RepoInv, RepoShape, LookupsAreCommits
  <2>2. commits \in Seq(Commit)
    BY DEF RepoInv, RepoShape
  <2>3. Child(b, e, a) \in Commit
    BY <2>2, ChildIsCommit
  <2>4. CommitIds \subseteq CommitIds' /\ \A c \in CommitIds : commits'[c] = commits[c]
    BY <2>1, <2>2, <2>3, AppendKeepsHistory
  <2> QED
    BY <2>4 DEF Hist, Tree
<1> QED
  BY <1>1, <1>2

\* A look at the repository, or a refusal, changes nothing but the place, the
\* path, the text and the result of its call, which has no result yet and does not get a good one.
LEMMA LooksAreQuiet ==
  ASSUME RepoInv, RouteInv, NEW t \in Tasks,
         Resolve(t) \/ ResolveFails(t) \/ Probe(t) \/ Read(t) \/ CommitIsRefused(t)
  PROVE  /\ UNCHANGED <<repoVars, held, call>>
         /\ ~Pull(t) /\ at[t] <= End(t) - 1 /\ at'[t] > at[t]
         /\ at[t] = End(t) - 1 => path' = path
         /\ phase[t] = "none" /\ result[t] = "none" /\ result'[t] # "ok"
         /\ \A u \in Tasks \ {t} : /\ at'[u] = at[u] /\ path'[u] = path[u]
                                   /\ text'[u] = text[u] /\ result'[u] = result[u]
<1>1. UNCHANGED <<repoVars, held, call>>
  BY DEF Resolve, ResolveFails, Probe, Read, CommitIsRefused
<1>2. /\ ~Pull(t) /\ at[t] <= End(t) - 1 /\ End(t) \in 1..6 /\ at[t] \in 1..7
      /\ at[t] = End(t) - 1 => CommitIsRefused(t)
  <2>1. \/ CommitIsRefused(t) /\ ~Pull(t) /\ at[t] = End(t) - 1
        \/ Leaf(t) /\ at[t] = 1
        \/ call[t].tool = "move" /\ at[t] \in {2, 3, 4}
        \/ call[t].tool = "write" /\ at[t] = 2
        \/ call[t].tool = "edit" /\ at[t] = 2
    BY StepsOfRoutes DEF RouteInv, Resolve, ResolveFails, Probe, Read, CommitIsRefused
  <2>2. /\ call[t].tool \in {"write", "delete"} => End(t) = 4
        /\ call[t].tool = "edit" => End(t) = 5
        /\ call[t].tool = "move" => End(t) = 6
    BY StepsOfRoutes DEF RouteInv
  <2>3. End(t) \in 1..6 /\ at[t] \in 1..7
    BY StepsOfRoutes DEF RouteInv, ToolTypeOK
  <2> QED
    BY <2>1, <2>2, <2>3 DEF Leaf, Pull
<1>3. RouteFollows(t)
  BY DEF RouteInv
<1>4. result[t] = "none"
  BY <1>2, <1>3 DEF RouteFollows, ResultFollows
<1>5. phase[t] = "none"
  <2>1. phase[t] \in {"none", "based", "written", "aimed", "ancestor", "refound"}
    BY DEF RepoInv, RepoShape
  <2>2. CASE at[t] = End(t) - 1
    BY <1>2, <2>2 DEF CommitIsRefused
  <2>3. CASE at[t] # End(t) - 1
    BY <1>2, <1>3, <2>1, <2>3 DEF RouteFollows, BackendFollows
  <2> QED
    BY <2>2, <2>3
<1>6. Advance(t) \/ \E r \in Results \ {"ok"} : Reply(t, r)
  BY DEF Resolve, ResolveFails, Probe, Read, CommitIsRefused, Results
<1>7. /\ at'[t] > at[t] /\ result'[t] # "ok"
      /\ \A u \in Tasks \ {t} : at'[u] = at[u] /\ result'[u] = result[u]
  BY <1>2, <1>4, <1>6, AdvanceByOne, ReplyAtEnd DEF RouteInv
<1>8. \A u \in Tasks \ {t} : path'[u] = path[u] /\ text'[u] = text[u]
  BY DEF Resolve, ResolveFails, Probe, Read, CommitIsRefused, RouteInv, ToolTypeOK
<1>9. at[t] = End(t) - 1 => path' = path
  BY <1>2 DEF CommitIsRefused
<1> QED
  BY <1>1, <1>2, <1>4, <1>5, <1>7, <1>8, <1>9
\* Taking or giving back locks changes nothing but the locks and the place.
LEMMA LocksAreQuiet ==
  ASSUME RouteInv, NEW t \in Tasks, Lock(t) \/ Unlock(t)
  PROVE  /\ UNCHANGED <<repoVars, call, path, text, result>>
         /\ at'[t] = at[t] + 1
         /\ \A u \in Tasks \ {t} : at'[u] = at[u]
<1>1. UNCHANGED <<repoVars, call, path, text, result>>
  BY DEF Lock, Unlock, Advance
<1>2. at' = [at EXCEPT ![t] = @ + 1]
  BY DEF Lock, Unlock, Advance
<1> QED
  BY <1>1, <1>2 DEF RouteInv, ToolTypeOK

\* The end of write_commit: main is the new commit, or the call lost a race.
LEMMA CommitEndsSo ==
  ASSUME RepoInv, RouteInv, NEW t \in Tasks, CommitEnds(t)
  PROVE  /\ UNCHANGED <<commits, tracking, base, expected, goal, held, call, path, text>>
         /\ Locked(t) /\ ~Pull(t) /\ phase[t] = "written" /\ result[t] = "none"
         /\ at[t] = End(t) - 1 /\ at'[t] = End(t)
         /\ phase'[t] = "none"
         /\ \/ main = expected[t] /\ main' = goal[t] /\ result'[t] = "ok"
            \/ main' = main /\ result'[t] # "ok"
         /\ \A u \in Tasks \ {t} : /\ at'[u] = at[u] /\ phase'[u] = phase[u]
                                   /\ result'[u] = result[u]
<1>1. ~Pull(t) /\ at[t] = End(t) - 1 /\ phase[t] \in {"written", "refound"}
  BY StepsOfRoutes DEF CommitEnds, SwapMain, RouteInv
<1>2. Locked(t) /\ phase[t] = "written"
  BY <1>1, MoversAreLocked
<1>3. End(t) \in 1..6 /\ (Leaf(t) => MemoryOf(t) \in Ids) /\ result[t] = "none"
  BY <1>1, RouteNumbers DEF RouteInv, RouteFollows, PathFollows, ResultFollows, IsResolved
<1>4. held[t] # {}
  BY <1>2, <1>3, LinksOfAreLinks DEF RouteInv, RouteFollows, LinksFollow
<1>5. /\ UNCHANGED <<commits, tracking, base, expected, goal, held, call, path, text>>
      /\ phase' = [phase EXCEPT ![t] = "none"]
      /\ \/ main = expected[t] /\ main' = goal[t] /\ Reply(t, "ok")
         \/ main' = main /\ Reply(t, "race")
  BY DEF CommitEnds, SwapMain, CanSwap
<1>6. phase'[t] = "none" /\ \A u \in Tasks \ {t} : phase'[u] = phase[u]
  BY <1>5 DEF RepoInv, RepoShape
<1>7. "ok" \in Results /\ "race" \in Results
  BY DEF Results
<1>8. /\ at'[t] = End(t) /\ \A u \in Tasks \ {t} : at'[u] = at[u] /\ result'[u] = result[u]
      /\ \/ main = expected[t] /\ main' = goal[t] /\ result'[t] = "ok"
         \/ main' = main /\ result'[t] # "ok"
  BY <1>3, <1>4, <1>5, <1>7, ReplyAtEnd DEF RouteInv
<1> QED
  BY <1>1, <1>2, <1>3, <1>5, <1>6, <1>8

\* A step of a pull.
LEMMA PullStepsSo ==
  ASSUME RepoInv, RouteInv, NEW t \in Tasks,
         \/ PullBegins(t) \/ PullRefinds(t) \/ PullCompares(t) \/ PullEnds(t)
  PROVE  /\ Pull(t) /\ UNCHANGED <<commits, tracking, held, call, path, text>>
         /\ phase[t] \notin {"based", "written"} /\ phase'[t] \notin {"based", "written"}
         /\ at'[t] >= at[t]
         /\ main' # main => result'[t] = "ok"
         /\ result[t] = "none"
         /\ \A u \in Tasks \ {t} :
              /\ at'[u] = at[u] /\ phase'[u] = phase[u] /\ result'[u] = result[u]
              /\ base'[u] = base[u] /\ expected'[u] = expected[u] /\ goal'[u] = goal[u]
<1>1. /\ Pull(t) /\ at[t] = 1 /\ UNCHANGED <<commits, tracking, held, call, path, text>>
  BY StepsOfRoutes
     DEF RouteInv, PullBegins, PullRefinds, PullCompares, PullEnds, FindTarget, Refind, FindLocal,
         SwapMain, toolVars
<1>2. phase[t] \notin {"based", "written"} /\ result[t] = "none"
  BY <1>1 DEF RouteInv, RouteFollows, BackendFollows, ResultFollows
<1>3. /\ phase'[t] \notin {"based", "written"}
      /\ \A u \in Tasks \ {t} : /\ phase'[u] = phase[u] /\ base'[u] = base[u]
                                /\ expected'[u] = expected[u] /\ goal'[u] = goal[u]
  BY DEF PullBegins, PullRefinds, PullCompares, PullEnds, FindTarget, Refind, FindLocal, SwapMain,
         RepoInv, RepoShape
<1>4. \/ UNCHANGED <<main, at, result>>
      \/ main' = main /\ \E r \in Results : Reply(t, r)
      \/ Reply(t, "ok")
  BY DEF PullBegins, PullRefinds, PullCompares, PullEnds, FindTarget, Refind, FindLocal, SwapMain,
         CanSwap, toolVars, Results
<1>5. "ok" \in Results /\ End(t) = 1
  BY <1>1, StepsOfRoutes DEF Results, RouteInv, Pull
<1>6. /\ at'[t] >= at[t]
      /\ main' # main => result'[t] = "ok"
      /\ \A u \in Tasks \ {t} : at'[u] = at[u] /\ result'[u] = result[u]
  BY <1>1, <1>4, <1>5, ReplyAtEnd DEF RouteInv
<1> QED
  BY <1>1, <1>2, <1>3, <1>6
\* Calls only go on along their routes, and stay what they are.
LEMMA CallsGoOn ==
  ASSUME RepoInv, RouteInv, [Next]_vars
  PROVE  call' = call /\ \A u \in Tasks : at'[u] >= at[u]
<1>0. \A u \in Tasks : at[u] \in Int /\ at'[u] \in Int
  BY NextKeepsRoute DEF RepoInv, RouteInv, ToolTypeOK
<1>1. CASE UNCHANGED vars
  BY <1>0, <1>1 DEF vars, toolVars
<1>2. ASSUME NEW t \in Tasks, Lock(t) \/ Unlock(t)
      PROVE  call' = call /\ \A u \in Tasks : at'[u] >= at[u]
  BY <1>0, <1>2, LocksAreQuiet
<1>3. ASSUME NEW t \in Tasks, Resolve(t) \/ ResolveFails(t) \/ Probe(t) \/ Read(t) \/ CommitIsRefused(t)
      PROVE  call' = call /\ \A u \in Tasks : at'[u] >= at[u]
  BY <1>0, <1>3, LooksAreQuiet
<1>4. ASSUME NEW t \in Tasks,
             CommitBegins(t) \/ CommitIsWritten(t) \/ \E e \in RemoteEdits : PullFetches(t, e)
      PROVE  call' = call /\ \A u \in Tasks : at'[u] >= at[u]
  <2>1. UNCHANGED toolVars
    BY <1>4 DEF CommitBegins, CommitIsWritten, PullFetches
  <2> QED
    BY <1>0, <2>1 DEF toolVars
<1>5. ASSUME NEW t \in Tasks, CommitEnds(t)
      PROVE  call' = call /\ \A u \in Tasks : at'[u] >= at[u]
  <2>1. End(t) \in Int
    BY RouteNumbers DEF RouteInv
  <2> QED
    BY <1>0, <1>5, <2>1, CommitEndsSo
<1>6. ASSUME NEW t \in Tasks,
             PullBegins(t) \/ PullRefinds(t) \/ PullCompares(t) \/ PullEnds(t)
      PROVE  call' = call /\ \A u \in Tasks : at'[u] >= at[u]
  BY <1>0, <1>6, PullStepsSo
<1> QED
  BY <1>1, <1>2, <1>3, <1>4, <1>5, <1>6 DEF Next

\* A commit that a step adds is the commit a call writes, or a peer's.
LEMMA NewCommits ==
  ASSUME RepoInv, RouteInv, [Next]_vars, NEW c \in CommitIds', c \notin CommitIds
  PROVE  \E b \in CommitIds, a \in Tasks \union {Peer} :
           /\ c = Len(commits) + 1 /\ b < c
           /\ Hist(c)' = Hist(b) \union {c}
           /\ commits'[c].by = a
           /\ a \in Tasks => ~Pull(a) /\ at[a] = End(a) - 1
<1> DEFINE n == Len(commits) + 1
<1>1. PICK b \in CommitIds, e \in Edits, a \in Tasks \union {Peer} :
        /\ commits' = Append(commits, Child(b, e, a))
        /\ a \in Tasks => ~Pull(a) /\ at[a] = End(a) - 1
  <2>1. commits' # commits
    BY DEF CommitIds
  <2>2. CASE \E t \in Tasks : CommitIsWritten(t)
    <3>1. PICK t \in Tasks : CommitIsWritten(t)
      BY <2>2
    <3>2. ~Pull(t) /\ at[t] = End(t) - 1
      BY <3>1, StepsOfRoutes DEF CommitIsWritten, RouteInv
    <3>3. EditsOf(t) \in Edits
      BY <3>2, EditsOfAreEdits
    <3>4. base[t] \in CommitIds
      BY <3>1 DEF CommitIsWritten, WriteObject, RepoInv, LookupsAreCommits
    <3>5. commits' = Append(commits, Child(base[t], EditsOf(t), t))
      BY <3>1 DEF CommitIsWritten, WriteObject
    <3> QED
      BY <3>2, <3>3, <3>4, <3>5
  <2>3. CASE \E t \in Tasks, e \in RemoteEdits : PullFetches(t, e)
    <3>1. PICK e \in Edits : Fetch(e)
      BY <2>3, RemoteEditsAreEdits DEF PullFetches
    <3>2. tracking \in CommitIds /\ Peer \notin Tasks
      BY PeerAssumption DEF RepoInv, RepoShape
    <3> QED
      BY <3>1, <3>2 DEF Fetch
  <2> QED
    BY <2>1, <2>2, <2>3 DEF Next, vars, repoVars, Lock, Unlock, Resolve, ResolveFails, Probe, Read, CommitIsRefused,
       CommitBegins, FindParent, CommitEnds, SwapMain, PullBegins, FindTarget, PullCompares,
       FindLocal, PullRefinds, Refind, PullEnds
<1>2. commits \in Seq(Commit)
  BY DEF RepoInv, RepoShape
<1>3. Child(b, e, a) \in Commit /\ Child(b, e, a).hist = Hist(b) \union {n}
  BY <1>2, ChildIsCommit
<1>4. /\ CommitIds' = CommitIds \union {n} /\ commits'[n] = Child(b, e, a)
  BY <1>1, <1>2, <1>3, AppendKeepsHistory
<1>5. c = n
  BY <1>4
<1>6. b < n
  BY <1>2, LenProperties DEF CommitIds
<1>7. Child(b, e, a).by = a
  BY DEF Child, CommitRecord
<1>8. Hist(c)' = Hist(b) \union {c} /\ commits'[c].by = a
  BY <1>3, <1>4, <1>5, <1>7 DEF Hist
<1> QED
  BY <1>1, <1>5, <1>6, <1>8
\* Commits stay dated.
LEMMA NextKeepsDates ==
  ASSUME RepoInv, RouteInv, CommitsAreDated, [Next]_vars
  PROVE  CommitsAreDated'
<1>1. /\ CommitIds \subseteq CommitIds'
      /\ \A c \in CommitIds : commits'[c] = commits[c] /\ Hist(c)' = Hist(c)
  BY ToolStepIsRepoStep, CommitsStay
<1>2. \A u \in Tasks : /\ at'[u] >= at[u] /\ at[u] \in Int /\ at'[u] \in Int
                       /\ End(u)' = End(u) /\ End(u) \in Int /\ Pull(u)' = Pull(u)
  BY CallsGoOn, SameCall, RouteNumbers, NextKeepsRoute DEF RepoInv, RouteInv, ToolTypeOK
<1>3. ASSUME NEW c \in CommitIds
      PROVE  CommitIsDated(c)'
  BY <1>1, <1>2 DEF CommitsAreDated, CommitIsDated
<1>4. ASSUME NEW c \in CommitIds', c \notin CommitIds
      PROVE  CommitIsDated(c)'
  <2>1. PICK b \in CommitIds, a \in Tasks \union {Peer} :
           /\ c = Len(commits) + 1 /\ b < c
           /\ Hist(c)' = Hist(b) \union {c}
           /\ commits'[c].by = a
           /\ a \in Tasks => ~Pull(a) /\ at[a] = End(a) - 1
    BY <1>4, NewCommits
  <2>2. b \in Int /\ c \in Int /\ \A d \in Hist(b) : d \in Int /\ d <= b
    <3>1. commits \in Seq(Commit)
      BY DEF RepoInv, RepoShape
    <3>2. Hist(b) \subseteq CommitIds /\ \A d \in Hist(b) : d <= b
      BY DEF RepoInv, HistoriesAreClosed, CommitsAreDated, CommitIsDated
    <3> QED
      BY <2>1, <3>1, <3>2, LenProperties DEF CommitIds
  <2>3. \A d \in Hist(c)' : d <= c
    BY <2>1, <2>2
  <2>4. a \in Tasks => Pull(a)' = FALSE /\ at'[a] >= End(a)' - 1
    BY <1>2, <2>1
  <2> QED
    BY <2>1, <2>3, <2>4 DEF CommitIsDated, Pull, End, Steps
<1> QED
  BY <1>3, <1>4 DEF CommitsAreDated

\* A commit a call has written stays its own as long as the call does not move.
LEMMA OwnCommitStays ==
  ASSUME RepoInv, [RepoNext]_repoVars, NEW t \in Tasks, CommitIsOwn(t), call' = call,
         path'[t] = path[t], text'[t] = text[t],
         base'[t] = base[t], goal'[t] = goal[t], expected'[t] = expected[t]
  PROVE  CommitIsOwn(t)'
<1>1. /\ CommitIds \subseteq CommitIds'
      /\ \A c \in CommitIds : /\ commits'[c] = commits[c]
                              /\ Hist(c)' = Hist(c) /\ Tree(c)' = Tree(c)
  BY CommitsStay
<1>2. EditsOf(t)' = EditsOf(t)
  BY DEF EditsOf, PutsOf, Destination, MemoryOf
<1>3. /\ Hist(goal[t])' = Hist(goal[t]) /\ Hist(base[t])' = Hist(base[t])
      /\ Tree(goal[t])' = Tree(goal[t]) /\ Tree(base[t])' = Tree(base[t])
  BY <1>1 DEF CommitIsOwn, Hist, Tree
<1> QED
  BY <1>1, <1>2, <1>3 DEF CommitIsOwn, Overlay, Hist, Tree
\* What write_commit writes is the call's own.
LEMMA WrittenIsOwn ==
  ASSUME RepoInv, RouteInv, NEW t \in Tasks, CommitIsWritten(t)
  PROVE  CommitIsOwn(t)'
<1> DEFINE n == Len(commits) + 1
           x == Child(base[t], EditsOf(t), t)
<1>1. /\ commits' = Append(commits, x) /\ goal' = [goal EXCEPT ![t] = n]
      /\ expected' = [expected EXCEPT ![t] = main] /\ base' = base
      /\ base[t] \in CommitIds
      /\ call' = call /\ path' = path /\ text' = text
  BY DEF CommitIsWritten, WriteObject, toolVars, RepoInv, LookupsAreCommits
<1>2. EditsOf(t) \in Edits
  BY StepsOfRoutes, EditsOfAreEdits DEF CommitIsWritten, RouteInv
<1>3. commits \in Seq(Commit) /\ main \in CommitIds
  BY DEF RepoInv, RepoShape
<1>4. x \in Commit /\ x.hist = Hist(base[t]) \union {n}
  BY <1>1, <1>2, <1>3, ChildIsCommit
<1>5. /\ CommitIds' = CommitIds \union {n} /\ commits'[n] = x
      /\ \A c \in CommitIds : commits'[c] = commits[c]
  BY <1>1, <1>3, <1>4, AppendKeepsHistory
<1>6. goal'[t] = n /\ expected'[t] = main /\ base'[t] = base[t]
  BY <1>1 DEF RepoInv, RepoShape
<1>7. x.by = t /\ x.tree = Overlay(Tree(base[t]), EditsOf(t))
  BY DEF Child, CommitRecord
<1>8. EditsOf(t)' = EditsOf(t)
  BY <1>1 DEF EditsOf, PutsOf, Destination, MemoryOf
<1>9. main < n
  BY <1>3, LenProperties DEF CommitIds
<1> HIDE DEF n, x
<1>10. /\ Hist(base[t])' = Hist(base[t]) /\ Tree(base[t])' = Tree(base[t])
       /\ Hist(goal[t])' = Hist(base[t]) \union {n}
       /\ Tree(goal[t])' = Overlay(Tree(base[t]), EditsOf(t))
  BY <1>1, <1>4, <1>5, <1>6, <1>7 DEF Hist, Tree
<1>11. (Tree(goal[t]) = Overlay(Tree(base[t]), EditsOf(t)))'
  BY <1>8, <1>10
<1>12. (Hist(goal[t]) = Hist(base[t]) \union {goal[t]})'
  BY <1>6, <1>10
<1>13. (commits[goal[t]].by = t)'
  BY <1>5, <1>6, <1>7
<1>14. (base[t] \in CommitIds /\ goal[t] \in CommitIds /\ expected[t] \in CommitIds
        /\ expected[t] < goal[t])'
  BY <1>1, <1>3, <1>5, <1>6, <1>9
<1> QED
  BY <1>11, <1>12, <1>13, <1>14 DEF CommitIsOwn

\* Commits stay their calls' own.
LEMMA NextKeepsOwn ==
  ASSUME RepoInv, RouteInv, CommitsAreOwn, [Next]_vars
  PROVE  CommitsAreOwn'
<1> SUFFICES ASSUME NEW u \in Tasks, ~Pull(u)', Written(u)'
             PROVE  CommitIsOwn(u)'
  BY DEF CommitsAreOwn
<1>1. call' = call /\ ~Pull(u)
  BY CallsGoOn DEF Pull
<1>2. [RepoNext]_repoVars
  BY ToolStepIsRepoStep
<1> DEFINE Same == /\ path'[u] = path[u] /\ text'[u] = text[u] /\ base'[u] = base[u]
                   /\ goal'[u] = goal[u] /\ expected'[u] = expected[u] /\ Written(u)
<1>3. ASSUME Same
      PROVE  CommitIsOwn(u)'
  BY <1>1, <1>2, <1>3, OwnCommitStays DEF CommitsAreOwn
<1>4. CASE UNCHANGED vars
  BY <1>3, <1>4 DEF vars, toolVars, repoVars, Written
<1>5. ASSUME NEW t \in Tasks, Lock(t) \/ Unlock(t)
      PROVE  CommitIsOwn(u)'
  BY <1>3, <1>5, LocksAreQuiet DEF repoVars, Written
<1>6. ASSUME NEW t \in Tasks, Resolve(t) \/ ResolveFails(t) \/ Probe(t) \/ Read(t) \/ CommitIsRefused(t)
      PROVE  CommitIsOwn(u)'
  BY <1>3, <1>6, LooksAreQuiet DEF repoVars, Written
<1>7. ASSUME NEW t \in Tasks, CommitBegins(t)
      PROVE  CommitIsOwn(u)'
  <2>1. result[t] # "ok"
    BY <1>7, StepsOfRoutes, RouteNumbers
       DEF CommitBegins, RouteInv, RouteFollows, ResultFollows
  <2>2. /\ UNCHANGED <<path, text, result, goal, expected>>
        /\ phase'[t] = "based"
        /\ \A v \in Tasks \ {t} : phase'[v] = phase[v] /\ base'[v] = base[v]
    BY <1>7 DEF CommitBegins, FindParent, toolVars, RepoInv, RepoShape
  <2> QED
    BY <1>3, <2>1, <2>2 DEF Written
<1>8. ASSUME NEW t \in Tasks, CommitIsWritten(t)
      PROVE  CommitIsOwn(u)'
  <2>1. /\ UNCHANGED <<path, text, result, base>>
        /\ \A v \in Tasks \ {t} : /\ phase'[v] = phase[v]
                                  /\ goal'[v] = goal[v] /\ expected'[v] = expected[v]
    BY <1>8 DEF CommitIsWritten, WriteObject, toolVars, RepoInv, RepoShape
  <2> QED
    BY <1>3, <1>8, <2>1, WrittenIsOwn DEF Written
<1>9. ASSUME NEW t \in Tasks, CommitEnds(t)
      PROVE  CommitIsOwn(u)'
  BY <1>3, <1>9, CommitEndsSo DEF Written
<1>10. ASSUME NEW t \in Tasks,
              PullBegins(t) \/ PullRefinds(t) \/ PullCompares(t) \/ PullEnds(t)
       PROVE  CommitIsOwn(u)'
  BY <1>1, <1>3, <1>10, PullStepsSo DEF Written
<1>11. ASSUME NEW t \in Tasks, NEW e \in RemoteEdits, PullFetches(t, e)
       PROVE  CommitIsOwn(u)'
  BY <1>3, <1>11 DEF PullFetches, Fetch, toolVars, Written
<1> QED
  BY <1>4, <1>5, <1>6, <1>7, <1>8, <1>9, <1>10, <1>11 DEF Next
\* Commits are dated and their calls' own, in every behaviour.
THEOREM CommitInvariance == Spec => []CommitInv
<1>1. Init => CommitInv
  <2> SUFFICES ASSUME Init
               PROVE  CommitInv
    OBVIOUS
  <2>1. /\ CommitIds = {1} /\ Hist(1) = {1} /\ commits[1].by \notin Tasks
        /\ \A t \in Tasks : ~Written(t)
    BY PeerAssumption DEF Init, RepoInit, CommitIds, CommitRecord, Hist, Written
  <2> QED
    BY <2>1 DEF CommitInv, CommitsAreDated, CommitIsDated, CommitsAreOwn
<1>2. RepoInv /\ RouteInv /\ CommitInv /\ [Next]_vars => CommitInv'
  BY NextKeepsDates, NextKeepsOwn DEF CommitInv
<1> QED
  BY <1>1, <1>2, ToolInvariance, PTL DEF Spec

-----------------------------------------------------------------------------
(* What a create or a move saw is what it commits on.                      *)

\* The calls that rely on what they saw: writes and moves under their locks, or
\* past their commit.
Relies(t) ==
  /\ call[t].tool \in {"write", "move"}
  /\ phase[t] = "based" \/ Committing(t) \/ (call[t].tool = "move" /\ at[t] = 4)

\* The commit below the call of a create or a move is a commit.
LEMMA BelowIsCommit ==
  ASSUME RepoInv, RouteInv, CommitInv, NEW t \in Tasks, call[t].tool \in {"write", "move"}
  PROVE  Below(t) \in CommitIds /\ main \in CommitIds
<1>1. ~Pull(t)
  BY DEF Pull
<1>2. phase[t] \in {"none", "based", "written"}
  BY <1>1 DEF RepoInv, RepoShape, RouteInv, RouteFollows, BackendFollows
<1>3. phase[t] # "none" => base[t] \in CommitIds
  BY <1>2 DEF RepoInv, LookupsAreCommits
<1>4. result[t] = "ok" => base[t] \in CommitIds
  BY <1>1 DEF CommitInv, CommitsAreOwn, CommitIsOwn, Written
<1> QED
  BY <1>3, <1>4 DEF Below, RepoInv, RepoShape

\* While a create or a move relies on main, no other tool call moves it.
LEMMA MainStaysForOthers ==
  ASSUME RepoInv, RouteInv, Alone, NEW t \in Tasks, NEW s \in Tasks \ {t}, CommitEnds(s),
         Relies(t), result[t] # "ok"
  PROVE  FALSE
<1>1. Locked(s) /\ ~Pull(t)
  BY CommitEndsSo DEF Relies, Pull
<1>2. Locked(t)
  <2>1. LockStep(t) = 1 /\ End(t) \in 4..6 /\ (call[t].tool = "move" => End(t) = 6)
    BY StepsOfRoutes, RouteNumbers DEF Relies, Leaf, RouteInv
  <2>2. at[t] = End(t) - 1 \/ (call[t].tool = "move" /\ at[t] = 4)
    BY <1>1, MoversAreLocked DEF Relies, Committing
  <2> QED
    BY <1>1, <2>1, <2>2 DEF Locked
<1>3. Leaf(t)
  BY <1>1, <1>2, LockedTogether
<1> QED
  BY <1>3 DEF Relies, Leaf

\* The commit below a call keeps its files.
LEMMA BelowKeepsFiles ==
  ASSUME RepoInv, RouteInv, CommitInv, [Next]_vars, NEW t \in Tasks, Relies(t),
         Below(t)' = Below(t)
  PROVE  Tree(Below(t))' = Tree(Below(t))
<1>1. Below(t) \in CommitIds
  BY BelowIsCommit DEF Relies
<1>2. commits'[Below(t)] = commits[Below(t)]
  BY <1>1, ToolStepIsRepoStep, CommitsStay
<1> QED
  BY <1>2 DEF Tree

\* So what a call saw holds as long as it does not move itself.
LEMMA ViewOfOthersHolds ==
  ASSUME RepoInv, RouteInv, CommitInv, [Next]_vars, NEW t \in Tasks, ViewHolds(t), call' = call,
         path'[t] = path[t], text'[t] = text[t], at'[t] = at[t], base'[t] = base[t],
         phase'[t] = phase[t], result'[t] = result[t],
         Relies(t) /\ result[t] # "ok" => main' = main
  PROVE  ViewHolds(t)'
<1>1. Relies(t)' = Relies(t) /\ Committing(t)' = Committing(t) /\ Destination(t)' = Destination(t)
  BY DEF Relies, Committing, Destination, MemoryOf, End, Steps
<1>2. CASE ~Relies(t)
  BY <1>1, <1>2 DEF ViewHolds, Relies
<1>3. CASE Relies(t)
  <2>1. Below(t)' = Below(t)
    BY <1>3 DEF Below
  <2>2. Tree(Below(t))' = Tree(Below(t))
    BY <1>3, <2>1, BelowKeepsFiles
  <2>3. phase[t] = "based" => result[t] # "ok"
    <3>1. ~Pull(t)
      BY <1>3 DEF Relies, Pull
    <3> QED
      BY <3>1, RouteNumbers
         DEF RouteInv, RouteFollows, BackendFollows, ResultFollows
  <2> QED
    BY <1>1, <1>3, <2>2, <2>3 DEF ViewHolds
<1> QED
  BY <1>2, <1>3
\* A create or a move that is through, or not yet to its look, relies on nothing.
LEMMA NoRelianceNoView ==
  ASSUME NEW t \in Tasks, ~Relies(t)
  PROVE  ViewHolds(t)
BY DEF Relies, ViewHolds

\* Resolve, probe and read: the call looks at main itself.
LEMMA LookKeepsOwnView ==
  ASSUME RepoInv, RouteInv, NEW t \in Tasks, ViewHolds(t),
         Resolve(t) \/ ResolveFails(t) \/ Probe(t) \/ Read(t) \/ CommitIsRefused(t)
  PROVE  ViewHolds(t)'
<1>1. /\ commits' = commits /\ main' = main /\ phase' = phase /\ call' = call
      /\ phase[t] = "none" /\ result[t] # "ok" /\ result'[t] # "ok"
  BY LooksAreQuiet DEF repoVars
<1>2. /\ End(t)' = End(t)
      /\ call[t].tool = "write" => End(t) = 4
      /\ call[t].tool = "move" => End(t) = 6 /\ call[t].sure = FALSE
  BY <1>1, SameCall, StepsOfRoutes, CallShape DEF RouteInv
<1>3. Tree(Below(t))' = Tip /\ Tree(Below(t)) = Tip
  BY <1>1 DEF Below, Tree, Tip
<1>4. CASE Resolve(t) \/ ResolveFails(t)
  <2>1. /\ Leaf(t) \/ (call[t].tool = "move" /\ at[t] = 2)
        /\ Advance(t) \/ \E r \in Results : Reply(t, r)
    BY <1>4, StepsOfRoutes DEF Resolve, ResolveFails, Results, RouteInv
  <2>2. Leaf(t) \/ (call[t].tool = "move" /\ at'[t] \in {3, 6, 7})
    BY <1>2, <2>1, AdvanceByOne, ReplyAtEnd DEF RouteInv
  <2> QED
    BY <1>1, <1>2, <2>2, NoRelianceNoView DEF Relies, Committing, Leaf, ViewHolds
<1>5. CASE Probe(t)
  <2>1. /\ UNCHANGED <<path, text>>
        /\ \/ Advance(t) /\ (Destination(t) \notin DOMAIN Tip \/ call[t].sure)
           \/ Reply(t, "exists")
    BY <1>5 DEF Probe
  <2>2. \/ call[t].tool = "write" /\ at[t] = 2
        \/ call[t].tool = "move" /\ at[t] = 3
    BY <1>5, StepsOfRoutes DEF Probe, RouteInv
  <2>3. \/ at'[t] = at[t] + 1 /\ (Destination(t) \notin DOMAIN Tip \/ call[t].sure)
        \/ at'[t] \in {End(t), End(t) + 1}
    BY <1>2, <2>1, <2>2, AdvanceByOne, ReplyAtEnd DEF RouteInv, Results
  <2>4. Destination(t)' = Destination(t)
    BY <1>1, <2>1 DEF Destination, MemoryOf
  <2> QED
    BY <1>1, <1>2, <1>3, <2>2, <2>3, <2>4 DEF ViewHolds, Committing
<1>6. CASE Read(t)
  <2>1. /\ UNCHANGED path
        /\ \/ Advance(t) /\ path[t] \in DOMAIN Tip /\ text' = [text EXCEPT ![t] = Tip[path[t]]]
           \/ Reply(t, "not_found")
    BY <1>6 DEF Read
  <2>2. \/ call[t].tool = "edit" /\ at[t] = 2
        \/ call[t].tool = "move" /\ at[t] = 4
    BY <1>6, StepsOfRoutes DEF Read, RouteInv
  <2>3. call[t].tool = "move" =>
          \/ at'[t] = 5 /\ path[t] \in DOMAIN Tip /\ text'[t] = Tip[path[t]]
          \/ at'[t] \in {6, 7}
    BY <1>2, <2>1, <2>2, AdvanceByOne, ReplyAtEnd DEF RouteInv, Results, ToolTypeOK
  <2>4. Destination(t)' = Destination(t)
    BY <1>1, <2>1 DEF Destination, MemoryOf
  <2> QED
    BY <1>1, <1>2, <1>3, <2>1, <2>2, <2>3, <2>4 DEF ViewHolds, Committing
<1>7. CASE CommitIsRefused(t)
  <2>1. call[t].tool = "edit"
    BY <1>7 DEF CommitIsRefused, Refused
  <2> QED
    BY <1>1, <2>1 DEF ViewHolds
<1> QED
  BY <1>4, <1>5, <1>6, <1>7

\* Locks, and the steps of the commit, keep what the call saw below it.
LEMMA CommitKeepsOwnView ==
  ASSUME RepoInv, RouteInv, CommitInv, [Next]_vars, NEW t \in Tasks, ViewHolds(t),
         \/ Lock(t) \/ Unlock(t)
         \/ CommitBegins(t) \/ CommitIsWritten(t) \/ CommitEnds(t)
  PROVE  ViewHolds(t)'
<1>1. call' = call /\ path' = path /\ text' = text
  BY DEF Lock, Unlock, CommitBegins, CommitIsWritten, CommitEnds, toolVars
<1>2. CASE call[t].tool \notin {"write", "move"}
  BY <1>1, <1>2 DEF ViewHolds
<1>3. CASE call[t].tool \in {"write", "move"}
  <2>1. /\ End(t)' = End(t) /\ LockStep(t) = 1 /\ ~Pull(t)
        /\ call[t].tool = "write" => End(t) = 4
        /\ call[t].tool = "move" => End(t) = 6
    BY <1>1, <1>3, SameCall, StepsOfRoutes, RouteNumbers DEF RouteInv, Leaf, Pull
  <2>2. Destination(t)' = Destination(t)
    BY <1>1 DEF Destination, MemoryOf
  <2>3. RouteFollows(t)
    BY DEF RouteInv
  <2>4. CASE Lock(t)
    <3>1. at[t] = 1 /\ at'[t] = 2 /\ UNCHANGED <<repoVars, result>>
      BY <2>1, <2>4, StepsOfRoutes, LocksAreQuiet DEF Lock, RouteInv
    <3>2. phase[t] # "based" /\ result[t] # "ok"
      BY <2>1, <2>3, <3>1, <1>3 DEF RouteFollows, BackendFollows, ResultFollows
    <3> QED
      BY <1>1, <2>1, <3>1, <3>2, <1>3 DEF ViewHolds, Committing, repoVars
  <2>5. CASE Unlock(t)
    <3>1. at[t] = End(t) /\ at'[t] = End(t) + 1 /\ UNCHANGED <<repoVars, result>>
      BY <2>5, StepsOfRoutes, LocksAreQuiet DEF Unlock, RouteInv
    <3>2. Below(t)' = Below(t) /\ (Relies(t)' => Relies(t))
      BY <1>1, <1>3, <2>1, <3>1 DEF Below, Relies, Committing, repoVars
    <3>3. Tree(Below(t))' = Tree(Below(t))
      BY <3>1, <3>2 DEF Tree, repoVars
    <3> QED
      BY <1>1, <1>3, <2>1, <2>2, <3>1, <3>3 DEF ViewHolds, Committing, repoVars
  <2>6. CASE CommitBegins(t) \/ CommitIsWritten(t) \/ CommitEnds(t)
    <3>1. at[t] = End(t) - 1 /\ result[t] # "ok" /\ Relies(t)
      BY <1>3, <2>1, <2>3, <2>6, StepsOfRoutes
         DEF CommitBegins, CommitIsWritten, CommitEnds, RouteInv, RouteFollows, ResultFollows,
             Relies, Committing
    <3>2. /\ Relies(t)' => Below(t)' = Below(t)
          /\ phase'[t] = "based" => base'[t] = main'
          /\ Committing(t)' => at[t] = End(t) - 1
          /\ ~(call[t].tool = "move" /\ at'[t] = 4)
      <4>1. CASE CommitBegins(t)
        BY <2>1, <3>1, <4>1
           DEF CommitBegins, FindParent, toolVars, Below, Committing, RepoInv, RepoShape
      <4>2. CASE CommitIsWritten(t)
        BY <2>1, <3>1, <4>2
           DEF CommitIsWritten, WriteObject, toolVars, Below, Committing, RepoInv, RepoShape
      <4>3. CASE CommitEnds(t)
        <5>1. /\ phase[t] = "written" /\ phase'[t] = "none" /\ base' = base /\ at'[t] = End(t)
          BY <4>3, CommitEndsSo
        <5>2. Relies(t)' => result'[t] = "ok"
          BY <1>1, <1>3, <2>1, <5>1 DEF Relies, Committing
        <5> QED
          BY <2>1, <3>1, <5>1, <5>2 DEF Below, Committing
      <4> QED
        BY <2>6, <4>1, <4>2, <4>3
    <3>3. CASE ~Relies(t)'
      BY <3>3 DEF Relies, ViewHolds
    <3>4. CASE Relies(t)'
      <4>1. Tree(Below(t))' = Tree(Below(t))
        BY <3>1, <3>2, <3>4, BelowKeepsFiles
      <4> QED
        BY <1>1, <1>3, <2>2, <3>1, <3>2, <4>1 DEF ViewHolds, Committing
    <3> QED
      BY <3>3, <3>4
  <2> QED
    BY <2>4, <2>5, <2>6
<1> QED
  BY <1>2, <1>3
\* Every step of the tools, no pull being among them, keeps what they saw.
LEMMA NextKeepsView ==
  ASSUME RepoInv, RouteInv, CommitInv, ViewInv, [Next]_vars
  PROVE  ViewInv'
<1> SUFFICES ASSUME Alone', NEW u \in Tasks
             PROVE  ViewHolds(u)'
  BY DEF ViewInv
<1>1. call' = call /\ Alone /\ ViewHolds(u)
  BY CallsGoOn DEF Alone, Pull, ViewInv
<1>2. CASE UNCHANGED vars
  BY <1>1, <1>2, ViewOfOthersHolds DEF vars, toolVars, repoVars
<1>3. ASSUME NEW t \in Tasks, Lock(t) \/ Unlock(t)
      PROVE  ViewHolds(u)'
  <2>1. CASE t = u
    BY <1>1, <1>3, <2>1, CommitKeepsOwnView
  <2>2. CASE t # u
    BY <1>1, <1>3, <2>2, LocksAreQuiet, ViewOfOthersHolds DEF repoVars
  <2> QED
    BY <2>1, <2>2
<1>4. ASSUME NEW t \in Tasks, Resolve(t) \/ ResolveFails(t) \/ Probe(t) \/ Read(t) \/ CommitIsRefused(t)
      PROVE  ViewHolds(u)'
  <2>1. CASE t = u
    BY <1>1, <1>4, <2>1, LookKeepsOwnView
  <2>2. CASE t # u
    BY <1>1, <1>4, <2>2, LooksAreQuiet, ViewOfOthersHolds DEF repoVars
  <2> QED
    BY <2>1, <2>2
<1>5. ASSUME NEW t \in Tasks, CommitBegins(t) \/ CommitIsWritten(t)
      PROVE  ViewHolds(u)'
  <2>1. CASE t = u
    BY <1>1, <1>5, <2>1, CommitKeepsOwnView
  <2>2. CASE t # u
    <3>1. main' = main /\ base'[u] = base[u] /\ phase'[u] = phase[u]
      BY <1>5, <2>2
         DEF CommitBegins, FindParent, CommitIsWritten, WriteObject, RepoInv, RepoShape
    <3>2. UNCHANGED toolVars
      BY <1>5 DEF CommitBegins, CommitIsWritten
    <3> QED
      BY <1>1, <3>1, <3>2, ViewOfOthersHolds DEF toolVars
  <2> QED
    BY <2>1, <2>2
<1>6. ASSUME NEW t \in Tasks, CommitEnds(t)
      PROVE  ViewHolds(u)'
  <2>1. CASE t = u
    BY <1>1, <1>6, <2>1, CommitKeepsOwnView
  <2>2. CASE t # u
    <3>1. ~(Relies(u) /\ result[u] # "ok")
      BY <1>1, <1>6, <2>2, MainStaysForOthers
    <3> QED
      BY <1>1, <1>6, <2>2, <3>1, CommitEndsSo, ViewOfOthersHolds
  <2> QED
    BY <2>1, <2>2
<1>7. ASSUME NEW t \in Tasks,
             \/ PullBegins(t) \/ PullRefinds(t) \/ PullCompares(t) \/ PullEnds(t)
             \/ \E e \in RemoteEdits : PullFetches(t, e)
      PROVE  FALSE
  <2>1. In(t, "forward")
    BY <1>7 DEF PullBegins, PullRefinds, PullCompares, PullEnds, PullFetches
  <2> QED
    BY <1>1, <2>1, StepsOfRoutes DEF Alone, RouteInv
<1> QED
  BY <1>2, <1>3, <1>4, <1>5, <1>6, <1>7 DEF Next

\* Without a pull, what a create or a move saw is what its commit is put on.
THEOREM ViewInvariance == Spec => []ViewInv
<1>1. Init => ViewInv
  <2> SUFFICES ASSUME Init, NEW t \in Tasks
               PROVE  ViewHolds(t)
    BY DEF ViewInv
  <2>1. RouteInv /\ at[t] = 1 /\ phase[t] = "none" /\ result[t] = "none"
    BY InitFollowsRoutes DEF Init, RepoInit
  <2>2. call[t].tool = "write" => End(t) = 4
    BY <2>1, StepsOfRoutes DEF RouteInv
  <2>3. call[t].tool = "move" => End(t) = 6
    BY <2>1, StepsOfRoutes DEF RouteInv
  <2> QED
    BY <2>1, <2>2, <2>3, NoRelianceNoView DEF Relies, Committing
<1>2. RepoInv /\ RouteInv /\ CommitInv /\ ViewInv /\ [Next]_vars => ViewInv'
  BY NextKeepsView
<1> QED
  BY <1>1, <1>2, ToolInvariance, CommitInvariance, PTL DEF Spec

\* A create or a move that is about to swap, or did, was committed on what it saw.
LEMMA WrittenOnView ==
  ASSUME RouteInv, NEW t \in Tasks, Written(t), ~Pull(t)
  PROVE  Committing(t) /\ Below(t) = base[t]
BY DEF RouteInv, RouteFollows, BackendFollows, Written, Committing, Below

\* A create that went through found no file where it put its own, on the very
\* commit it was applied to, however many calls there are.
THEOREM CreatesNeverOverwrite == Spec => []CreateNeverOverwrites
<1>1. RouteInv /\ ViewInv => CreateNeverOverwrites
  <2> SUFFICES ASSUME RouteInv, ViewInv, Alone, NEW t \in Tasks,
                      call[t].tool = "write", ~call[t].sure, Written(t)
               PROVE  Destination(t) \notin DOMAIN Tree(base[t])
    BY DEF CreateNeverOverwrites
  <2>1. Committing(t) /\ Below(t) = base[t]
    BY WrittenOnView DEF Pull
  <2> QED
    BY <2>1 DEF ViewInv, ViewHolds
<1> QED
  BY <1>1, ToolInvariance, ViewInvariance, PTL

\* A move carries the content of its parent commit to a place that was free
\* there, and takes it away from the old one.
THEOREM MovesCarryContent == Spec => []MoveCarriesContent
<1>1. RouteInv /\ CommitInv /\ ViewInv => MoveCarriesContent
  <2> SUFFICES ASSUME RouteInv, CommitInv, ViewInv, Alone, NEW t \in Tasks,
                      call[t].tool = "move", Written(t)
               PROVE  /\ Destination(t) \notin DOMAIN Tree(base[t])
                      /\ path[t] \in DOMAIN Tree(base[t])
                      /\ Tree(goal[t])[Destination(t)] = Tree(base[t])[path[t]]
                      /\ path[t] \notin DOMAIN Tree(goal[t])
    BY DEF MoveCarriesContent
  <2>1. Committing(t) /\ Below(t) = base[t] /\ ~Pull(t)
    BY WrittenOnView DEF Pull
  <2>2. /\ Destination(t) \notin DOMAIN Tree(base[t])
        /\ path[t] \in DOMAIN Tree(base[t])
        /\ text[t] = Tree(base[t])[path[t]]
    BY <2>1 DEF ViewInv, ViewHolds
  <2>3. Tree(goal[t]) = Overlay(Tree(base[t]), EditsOf(t))
    BY <2>1 DEF CommitInv, CommitsAreOwn, CommitIsOwn
  <2>4. EditsOf(t).put = [p \in {Destination(t)} |-> text[t]] /\ EditsOf(t).drop = {path[t]}
    BY DEF EditsOf, PutsOf
  <2>5. /\ Tree(goal[t])[Destination(t)] = text[t]
        /\ path[t] \notin DOMAIN Tree(goal[t])
    BY <2>2, <2>3, <2>4 DEF Overlay
  <2> QED
    BY <2>2, <2>5
<1> QED
  BY <1>1, ToolInvariance, CommitInvariance, ViewInvariance, PTL
-----------------------------------------------------------------------------
(* What may be dropped from main.                                          *)

\* A call that has its good result keeps it, its path and its commit.
LEMMA DoneStays ==
  ASSUME RepoInv, RouteInv, [Next]_vars, NEW u \in Tasks, result[u] = "ok"
  PROVE  result'[u] = "ok" /\ path'[u] = path[u] /\ goal'[u] = goal[u]
<1> DEFINE Kept == result'[u] = "ok" /\ path'[u] = path[u] /\ goal'[u] = goal[u]
<1>1. CASE UNCHANGED vars
  BY <1>1 DEF vars, toolVars, repoVars
<1>2. ASSUME NEW t \in Tasks, Lock(t) \/ Unlock(t)
      PROVE  Kept
  BY <1>2, LocksAreQuiet DEF repoVars
<1>3. ASSUME NEW t \in Tasks, Resolve(t) \/ ResolveFails(t) \/ Probe(t) \/ Read(t) \/ CommitIsRefused(t)
      PROVE  Kept
  BY <1>3, LooksAreQuiet DEF repoVars
<1>4. ASSUME NEW t \in Tasks,
             CommitBegins(t) \/ \E e \in RemoteEdits : PullFetches(t, e)
      PROVE  Kept
  BY <1>4 DEF CommitBegins, FindParent, PullFetches, Fetch, toolVars
<1>5. ASSUME NEW t \in Tasks, CommitIsWritten(t)
      PROVE  Kept
  <2>1. ~Pull(t) /\ at[t] = End(t) - 1 /\ End(t) \in 1..6
    BY <1>5, StepsOfRoutes DEF CommitIsWritten, RouteInv
  <2>2. result[t] # "ok"
    BY <2>1 DEF RouteInv, RouteFollows, ResultFollows
  <2> QED
    BY <1>5, <2>2 DEF CommitIsWritten, WriteObject, toolVars, RepoInv, RepoShape
<1>6. ASSUME NEW t \in Tasks, CommitEnds(t)
      PROVE  Kept
  BY <1>6, CommitEndsSo
<1>7. ASSUME NEW t \in Tasks,
             PullBegins(t) \/ PullRefinds(t) \/ PullCompares(t) \/ PullEnds(t)
      PROVE  Kept
  BY <1>7, PullStepsSo
<1> QED
  BY <1>1, <1>2, <1>3, <1>4, <1>5, <1>6, <1>7 DEF Next

\* The path of a call at its commit, or past it, does not change.
LEMMA PathStays ==
  ASSUME RepoInv, RouteInv, [Next]_vars, NEW u \in Tasks, ~Pull(u), at[u] >= End(u) - 1
  PROVE  path'[u] = path[u]
<1>0. End(u) \in Int /\ at[u] \in Int
  BY StepsOfRoutes DEF RouteInv, ToolTypeOK
<1>1. ASSUME NEW t \in Tasks, Resolve(t) \/ ResolveFails(t) \/ Probe(t) \/ Read(t) \/ CommitIsRefused(t)
      PROVE  path'[u] = path[u]
  BY <1>0, <1>1, LooksAreQuiet
<1> QED
  BY <1>1 DEF Next, vars, toolVars, Lock, Unlock, CommitBegins, CommitIsWritten, CommitEnds,
     PullFetches, PullBegins, PullCompares, PullRefinds, PullEnds

\* What is known of a commit stays known.
LEMMA LossFactsStay ==
  ASSUME RepoInv, RouteInv, CommitInv, [Next]_vars, NEW c \in CommitIds, OfLeaf(c)
  PROVE  /\ OfLeaf(c)' /\ MemoryIn(c)' = MemoryIn(c)
         /\ LostBefore(c, MemoryIn(c)) => LostBefore(c, MemoryIn(c))'
<1> DEFINE a == commits[c].by
<1>1. call' = call /\ commits'[c] = commits[c]
  BY CallsGoOn, ToolStepIsRepoStep, CommitsStay
<1>2. a \in Tasks /\ ~Pull(a) /\ at[a] >= End(a) - 1
  BY DEF OfLeaf, Leaf, Pull, CommitInv, CommitsAreDated, CommitIsDated
<1>3. path'[a] = path[a]
  BY <1>2, PathStays
<1>4. OfLeaf(c)' /\ MemoryIn(c)' = MemoryIn(c)
  BY <1>1, <1>3 DEF OfLeaf, Leaf, MemoryIn, MemoryOf
<1>5. ASSUME LostBefore(c, MemoryIn(c))
      PROVE  LostBefore(c, MemoryIn(c))'
  <2>1. PICK t \in Tasks : /\ Leaf(t) /\ result[t] = "ok" /\ MemoryOf(t) # MemoryIn(c)
                           /\ c < goal[t] /\ c \notin Hist(goal[t])
    BY <1>5 DEF LostBefore
  <2>2. result'[t] = "ok" /\ path'[t] = path[t] /\ goal'[t] = goal[t]
    BY <2>1, DoneStays
  <2>3. goal[t] \in CommitIds
    BY <2>1 DEF CommitInv, CommitsAreOwn, CommitIsOwn, Written, Leaf, Pull
  <2>4. Hist(goal[t])' = Hist(goal[t])
    BY <2>2, <2>3, ToolStepIsRepoStep, CommitsStay DEF Hist
  <2>5. Leaf(t)' /\ MemoryOf(t)' = MemoryOf(t)
    BY <1>1, <2>1, <2>2 DEF Leaf, MemoryOf
  <2> QED
    BY <1>1, <1>4, <2>1, <2>2, <2>4, <2>5 DEF LostBefore
<1> QED
  BY <1>4, <1>5
\* A call at its commit keeps its losses as long as main stays.
LEMMA QuietKeepsLoss ==
  ASSUME RepoInv, RouteInv, CommitInv, [Next]_vars, NEW u \in Tasks, LossIsOfSiblings(u),
         main' = main, base'[u] = base[u], phase[u] \in {"based", "written"}
  PROVE  LossIsOfSiblings(u)'
<1>1. main \in CommitIds /\ base[u] \in CommitIds
  BY DEF RepoInv, RepoShape, LookupsAreCommits
<1>2. Hist(main)' = Hist(main) /\ Hist(base[u])' = Hist(base[u])
  BY <1>1, ToolStepIsRepoStep, CommitsStay DEF Hist
<1>3. Hist(main) \subseteq CommitIds /\ Hist(base[u]) \subseteq CommitIds
  BY <1>1 DEF RepoInv, HistoriesAreClosed
<1>4. MemoryOf(u)' = MemoryOf(u) /\ (Leaf(u) => Leaf(u)')
  <2>1. ~Pull(u) /\ at[u] = End(u) - 1 /\ End(u) \in 1..6
    BY StepsOfRoutes DEF RouteInv, RouteFollows, BackendFollows
  <2> QED
    BY <2>1, PathStays, CallsGoOn DEF Leaf, MemoryOf
<1>5. \A c \in Hist(main) \ Hist(base[u]) :
        /\ OfLeaf(c)' /\ Leaf(u)'
        /\ (MemoryIn(c) = MemoryOf(u) => LostBefore(c, MemoryIn(c)))'
  <2> SUFFICES ASSUME NEW c \in Hist(main) \ Hist(base[u])
               PROVE  /\ OfLeaf(c)' /\ Leaf(u)'
                      /\ (MemoryIn(c) = MemoryOf(u) => LostBefore(c, MemoryIn(c)))'
    OBVIOUS
  <2>1. /\ OfLeaf(c) /\ Leaf(u)
        /\ MemoryIn(c) = MemoryOf(u) => LostBefore(c, MemoryIn(c))
    BY DEF LossIsOfSiblings
  <2>2. /\ OfLeaf(c)' /\ MemoryIn(c)' = MemoryIn(c)
        /\ LostBefore(c, MemoryIn(c)) => LostBefore(c, MemoryIn(c))'
    BY <1>3, <2>1, LossFactsStay
  <2> QED
    BY <1>4, <2>1, <2>2
<1>6. \A c \in Hist(base[u]) \ Hist(main) : OfLeaf(c)' /\ LostBefore(c, MemoryIn(c))'
  BY <1>3, LossFactsStay DEF LossIsOfSiblings
<1> QED
  BY <1>2, <1>5, <1>6 DEF LossIsOfSiblings

\* When another call's commit gets in, what it drops is of a sibling, and so
\* is what it brings back.
LEMMA CommitKeepsLoss ==
  ASSUME RepoInv, RouteInv, CommitInv, [Next]_vars, NEW u \in Tasks, NEW t \in Tasks \ {u},
         LossIsOfSiblings(u), LossIsOfSiblings(t), phase[u] \in {"based", "written"},
         CommitEnds(t), main' = goal[t], result'[t] = "ok", main = expected[t]
  PROVE  LossIsOfSiblings(u)'
<1>1. Locked(t) /\ phase[t] = "written" /\ UNCHANGED <<commits, base, goal, call, path>>
  BY CommitEndsSo
<1>2. Leaf(t) /\ Leaf(u) /\ MemoryOf(t) # MemoryOf(u)
  <2>1. ~Pull(u)
    BY DEF RouteInv, RouteFollows, BackendFollows
  <2> QED
    BY <1>1, <2>1, MoversAreLocked, LockedTogether
<1>3. CommitIsOwn(t)
  BY <1>1, <1>2 DEF CommitInv, CommitsAreOwn, Written, Leaf, Pull
<1>4. Hist(main)' = Hist(base[t]) \union {goal[t]} /\ Hist(base[u])' = Hist(base[u])
  BY <1>1, <1>3 DEF CommitIsOwn, Hist
<1>5. main \in CommitIds /\ base[u] \in CommitIds
  BY DEF RepoInv, RepoShape, LookupsAreCommits
<1>6. /\ Hist(main) \subseteq CommitIds /\ Hist(base[u]) \subseteq CommitIds
      /\ Hist(base[t]) \subseteq CommitIds
  BY <1>3, <1>5 DEF RepoInv, HistoriesAreClosed, CommitIsOwn
<1>7. /\ Leaf(u)' /\ Leaf(t)' /\ goal'[t] = goal[t]
      /\ MemoryOf(u)' = MemoryOf(u) /\ MemoryOf(t)' = MemoryOf(t)
  BY <1>1, <1>2 DEF Leaf, MemoryOf
<1>8. ASSUME NEW c \in Hist(base[t]) \union {goal[t]}, c \notin Hist(base[u])
      PROVE  /\ OfLeaf(c)' /\ Leaf(u)'
             /\ (MemoryIn(c) = MemoryOf(u) => LostBefore(c, MemoryIn(c)))'
  <2>1. CASE c = goal[t]
    <3>1. commits'[c].by = t /\ commits[c].by = t
      BY <1>1, <1>3, <2>1 DEF CommitIsOwn
    <3>2. OfLeaf(c)'
      BY <1>7, <3>1 DEF OfLeaf
    <3>3. MemoryIn(c)' = MemoryOf(t)
      BY <1>7, <3>1 DEF MemoryIn
    <3> QED
      BY <1>2, <1>7, <3>2, <3>3
  <2>2. CASE c \in Hist(base[t]) /\ c \in Hist(main)
    <3>1. /\ OfLeaf(c)
          /\ MemoryIn(c) = MemoryOf(u) => LostBefore(c, MemoryIn(c))
      BY <1>8, <2>2 DEF LossIsOfSiblings
    <3> QED
      BY <1>6, <1>7, <2>2, <3>1, LossFactsStay
  <2>3. CASE c \in Hist(base[t]) /\ c \notin Hist(main)
    <3>1. OfLeaf(c) /\ LostBefore(c, MemoryIn(c))
      BY <1>1, <2>3 DEF LossIsOfSiblings
    <3> QED
      BY <1>6, <1>7, <2>3, <3>1, LossFactsStay
  <2> QED
    BY <1>8, <2>1, <2>2, <2>3
<1>9. ASSUME NEW c \in Hist(base[u]), c \notin Hist(base[t]), c # goal[t]
      PROVE  OfLeaf(c)' /\ LostBefore(c, MemoryIn(c))'
  <2>1. CASE c \notin Hist(main)
    <3>1. OfLeaf(c) /\ LostBefore(c, MemoryIn(c))
      BY <1>9, <2>1 DEF LossIsOfSiblings
    <3> QED
      BY <1>6, <1>9, <3>1, LossFactsStay
  <2>2. CASE c \in Hist(main)
    <3>1. /\ OfLeaf(c)
          /\ MemoryIn(c) = MemoryOf(t) => LostBefore(c, MemoryIn(c))
      BY <1>1, <1>9, <2>2 DEF LossIsOfSiblings
    <3>2. /\ OfLeaf(c)' /\ MemoryIn(c)' = MemoryIn(c)
          /\ LostBefore(c, MemoryIn(c)) => LostBefore(c, MemoryIn(c))'
      BY <1>6, <2>2, <3>1, LossFactsStay
    <3>3. ASSUME MemoryIn(c) # MemoryOf(t)
          PROVE  LostBefore(c, MemoryIn(c))'
      <4>1. c < goal[t]
        <5>1. c <= main
          BY <1>5, <2>2 DEF CommitInv, CommitsAreDated, CommitIsDated
        <5>2. main < goal[t]
          BY <1>3 DEF CommitIsOwn
        <5>3. c \in Int /\ main \in Int /\ goal[t] \in Int
          BY <1>3, <1>5, <1>6, <2>2, LenProperties
             DEF CommitIsOwn, CommitIds, RepoInv, RepoShape
        <5> QED
          BY <5>1, <5>2, <5>3
      <4>2. c \notin Hist(goal[t])'
        BY <1>1, <1>3, <1>9 DEF CommitIsOwn, Hist
      <4> QED
        BY <1>7, <3>2, <3>3, <4>1, <4>2 DEF LostBefore
    <3> QED
      BY <3>1, <3>2, <3>3
  <2> QED
    BY <2>1, <2>2
<1> QED
  BY <1>4, <1>8, <1>9 DEF LossIsOfSiblings

\* Every step of the tools keeps the losses within the edits and deletes.
LEMMA NextKeepsLoss ==
  ASSUME RepoInv, RouteInv, CommitInv, LossInv, [Next]_vars
  PROVE  LossInv'
<1> SUFFICES ASSUME ~PullLanded', NEW u \in Tasks, phase'[u] \in {"based", "written"}
             PROVE  LossIsOfSiblings(u)'
  BY DEF LossInv, LossIsOfSiblings
<1>1. ~PullLanded
  BY DoneStays, CallsGoOn DEF PullLanded, Pull
<1>2. \A t \in Tasks : LossIsOfSiblings(t)
  BY <1>1 DEF LossInv
<1>3. ASSUME main' = main, base'[u] = base[u], phase[u] \in {"based", "written"}
      PROVE  LossIsOfSiblings(u)'
  BY <1>2, <1>3, QuietKeepsLoss
<1>4. CASE UNCHANGED vars
  BY <1>3, <1>4 DEF vars, repoVars
<1>5. ASSUME NEW t \in Tasks, Lock(t) \/ Unlock(t)
      PROVE  LossIsOfSiblings(u)'
  BY <1>3, <1>5, LocksAreQuiet DEF repoVars
<1>6. ASSUME NEW t \in Tasks, Resolve(t) \/ ResolveFails(t) \/ Probe(t) \/ Read(t) \/ CommitIsRefused(t)
      PROVE  LossIsOfSiblings(u)'
  BY <1>3, <1>6, LooksAreQuiet DEF repoVars
<1>7. ASSUME NEW t \in Tasks, CommitBegins(t)
      PROVE  LossIsOfSiblings(u)'
  <2>1. CASE t = u
    <3>1. base'[u] = main' /\ main' = main
      BY <1>7, <2>1 DEF CommitBegins, FindParent, RepoInv, RepoShape
    <3>2. Hist(main)' = Hist(base[u])'
      BY <3>1 DEF Hist
    <3> QED
      BY <3>2 DEF LossIsOfSiblings
  <2>2. CASE t # u
    BY <1>3, <1>7, <2>2 DEF CommitBegins, FindParent, RepoInv, RepoShape
  <2> QED
    BY <2>1, <2>2
<1>8. ASSUME NEW t \in Tasks, CommitIsWritten(t)
      PROVE  LossIsOfSiblings(u)'
  <2>1. phase[u] \in {"based", "written"}
    BY <1>8 DEF CommitIsWritten, WriteObject, RepoInv, RepoShape
  <2> QED
    BY <1>3, <1>8, <2>1 DEF CommitIsWritten, WriteObject
<1>9. ASSUME NEW t \in Tasks, CommitEnds(t)
      PROVE  LossIsOfSiblings(u)'
  <2>1. t # u /\ phase[u] \in {"based", "written"} /\ base'[u] = base[u]
    BY <1>9, CommitEndsSo
  <2>2. \/ main = expected[t] /\ main' = goal[t] /\ result'[t] = "ok"
        \/ main' = main
    BY <1>9, CommitEndsSo
  <2> QED
    BY <1>2, <1>3, <1>9, <2>1, <2>2, CommitKeepsLoss
<1>10. ASSUME NEW t \in Tasks, \E e \in RemoteEdits : PullFetches(t, e)
       PROVE  LossIsOfSiblings(u)'
  BY <1>3, <1>10 DEF PullFetches, Fetch
<1>11. ASSUME NEW t \in Tasks,
              \/ PullBegins(t) \/ PullRefinds(t) \/ PullCompares(t) \/ PullEnds(t)
       PROVE  LossIsOfSiblings(u)'
  <2>1. t # u /\ phase[u] \in {"based", "written"} /\ base'[u] = base[u]
    BY <1>11, PullStepsSo
  <2>2. main' = main
    BY <1>11, PullStepsSo DEF PullLanded, Pull
  <2> QED
    BY <1>3, <2>1, <2>2
<1> QED
  BY <1>4, <1>5, <1>6, <1>7, <1>8, <1>9, <1>10, <1>11 DEF Next

\* Until a pull moves main, what separates it from what a call saw are commits
\* of edits and deletes, of other memories unless one of that memory was lost
\* before.
THEOREM LossInvariance == Spec => []LossInv
<1>1. Init => LossInv
  BY DEF Init, RepoInit, LossInv, LossIsOfSiblings
<1>2. RepoInv /\ RouteInv /\ CommitInv /\ LossInv /\ [Next]_vars => LossInv'
  BY NextKeepsLoss
<1> QED
  BY <1>1, <1>2, ToolInvariance, CommitInvariance, PTL DEF Spec
\* The step in which a call that is no pull moves main ends its commit.
LEMMA MoverEndsItsCommit ==
  ASSUME RepoInv, RouteInv, CommitInv, [Next]_vars, NEW u \in Tasks, ~Pull(u), Moves(u)
  PROVE  /\ CommitEnds(u) /\ phase[u] = "written"
         /\ Hist(main)' = Hist(base[u]) \union {goal[u]}
<1>1. phase[u] = "written" /\ phase'[u] = "none" /\ main' # main
  BY MoversAreLocked DEF Moves
<1>2. ASSUME NEW t \in Tasks, CommitEnds(t)
      PROVE  t = u
  BY <1>1, <1>2, CommitEndsSo
<1>3. ASSUME NEW t \in Tasks,
             \/ PullBegins(t) \/ PullRefinds(t) \/ PullCompares(t) \/ PullEnds(t)
      PROVE  FALSE
  BY <1>1, <1>3, PullStepsSo
<1>4. CommitEnds(u)
  BY <1>1, <1>2, <1>3 DEF Next, vars, repoVars, Lock, Unlock, Resolve, ResolveFails, Probe, Read, CommitIsRefused,
     CommitBegins, FindParent, CommitIsWritten, WriteObject, PullFetches, Fetch
<1>5. CommitIsOwn(u)
  BY <1>1 DEF CommitInv, CommitsAreOwn, Written
<1>6. main' = goal[u] /\ commits' = commits
  BY <1>1, <1>4, CommitEndsSo
<1> QED
  BY <1>1, <1>4, <1>5, <1>6 DEF CommitIsOwn, Hist

\* Until a pull moves main, it is moved by a call that is no pull.
LEMMA MainHasMover ==
  ASSUME RepoInv, RouteInv, [Next]_vars, main' # main, ~PullLanded'
  PROVE  \E u \in Tasks : Moves(u) /\ ~Pull(u)
<1>1. ASSUME NEW t \in Tasks, CommitEnds(t)
      PROVE  Moves(t) /\ ~Pull(t)
  BY <1>1, CommitEndsSo DEF Moves
<1>2. ASSUME NEW t \in Tasks,
             \/ PullBegins(t) \/ PullRefinds(t) \/ PullCompares(t) \/ PullEnds(t)
      PROVE  FALSE
  BY <1>2, PullStepsSo DEF PullLanded, Pull
<1> QED
  BY <1>1, <1>2 DEF Next, vars, repoVars, Lock, Unlock, Resolve, ResolveFails, Probe, Read, CommitIsRefused,
     CommitBegins, FindParent, CommitIsWritten, WriteObject, PullFetches, Fetch

\* A call that is no pull gets its good result where it moves main to its commit.
LEMMA OkIsOfMover ==
  ASSUME RepoInv, RouteInv, [Next]_vars, NEW t \in Tasks, ~Pull(t),
         result[t] # "ok", result'[t] = "ok"
  PROVE  CommitEnds(t) /\ main' = goal[t] /\ goal'[t] = goal[t]
<1>1. ASSUME NEW s \in Tasks, CommitEnds(s)
      PROVE  s = t
  BY <1>1, CommitEndsSo
<1>2. ASSUME NEW s \in Tasks,
             \/ PullBegins(s) \/ PullRefinds(s) \/ PullCompares(s) \/ PullEnds(s)
      PROVE  FALSE
  BY <1>2, PullStepsSo
<1>3. ASSUME NEW s \in Tasks, Resolve(s) \/ ResolveFails(s) \/ Probe(s) \/ Read(s) \/ CommitIsRefused(s)
      PROVE  FALSE
  BY <1>3, LooksAreQuiet
<1>4. ASSUME NEW s \in Tasks, Lock(s) \/ Unlock(s)
      PROVE  FALSE
  BY <1>4, LocksAreQuiet
<1>5. CommitEnds(t)
  BY <1>1, <1>2, <1>3, <1>4 DEF Next, vars, toolVars, CommitBegins, CommitIsWritten, PullFetches
<1> QED
  BY <1>5, CommitEndsSo

\* However many calls there are: until a pull moves main, a commit is dropped
\* from it only if it is an edit's or a delete's, by an edit or a delete, and
\* of another memory unless one of that had been dropped before; a memory is what
\* a call was answered and locks, so a drifted file counts as two.
THEOREM OnlySiblingsAreLost == Spec => OnlySiblingCommitsAreLost
<1> DEFINE Lost(u) == \A c \in Hist(main) \ Hist(main)' :
             LET t == commits[c].by IN
             \/ PullLanded \/ Pull(u)
             \/ /\ t \in Tasks /\ Leaf(t) /\ Leaf(u)
                /\ MemoryOf(t) = MemoryOf(u) => LostBefore(c, MemoryOf(t))
<1>1. RepoInv /\ RouteInv /\ CommitInv /\ LossInv /\ [Next]_vars =>
        [\A u \in Tasks : Moves(u) => Lost(u)]_vars
  <2> SUFFICES ASSUME RepoInv, RouteInv, CommitInv, LossInv, [Next]_vars,
                      NEW u \in Tasks, Moves(u), ~PullLanded, ~Pull(u),
                      NEW c \in Hist(main), c \notin Hist(main)'
               PROVE  /\ commits[c].by \in Tasks /\ Leaf(commits[c].by) /\ Leaf(u)
                      /\ MemoryOf(commits[c].by) = MemoryOf(u) =>
                           LostBefore(c, MemoryOf(commits[c].by))
    OBVIOUS
  <2>1. phase[u] = "written" /\ c \notin Hist(base[u])
    BY MoverEndsItsCommit
  <2>2. LossIsOfSiblings(u)
    BY DEF LossInv
  <2> QED
    BY <2>1, <2>2 DEF LossIsOfSiblings, OfLeaf, MemoryIn, MemoryOf
<1> QED
  BY <1>1, ToolInvariance, CommitInvariance, LossInvariance, PTL
     DEF Spec, OnlySiblingCommitsAreLost

\* The part of "the commit is applied on top of the current tip" that holds:
\* what write_memory and move_memory were told is committed stays in main's
\* history, until a pull moves main.
THEOREM CreatesAndMovesAreKept == Spec => []CreatesAndMovesStay
<1>1. Init => CreatesAndMovesStay
  BY DEF Init, CreatesAndMovesStay
<1>2. RepoInv /\ RouteInv /\ CommitInv /\ LossInv /\ CreatesAndMovesStay /\ [Next]_vars
        => CreatesAndMovesStay'
  <2> SUFFICES ASSUME RepoInv, RouteInv, CommitInv, LossInv, CreatesAndMovesStay,
                      [Next]_vars, ~PullLanded', NEW t \in Tasks, call'[t].tool \in {"write", "move"},
                      result'[t] = "ok"
               PROVE  goal'[t] \in Hist(main)'
    BY DEF CreatesAndMovesStay
  <2>1. ~PullLanded /\ call' = call /\ ~Pull(t) /\ ~Leaf(t)
    BY DoneStays, CallsGoOn DEF PullLanded, Pull, Leaf
  <2>2. CASE result[t] = "ok"
    <3>1. goal'[t] = goal[t] /\ goal[t] \in Hist(main)
      BY <2>1, <2>2, DoneStays DEF CreatesAndMovesStay
    <3>2. goal[t] \in CommitIds /\ commits[goal[t]].by = t
      BY <2>1, <2>2 DEF CommitInv, CommitsAreOwn, CommitIsOwn, Written
    <3>3. CASE main' = main
      <4>1. Hist(main)' = Hist(main)
        BY <3>3, ToolStepIsRepoStep, CommitsStay DEF RepoInv, RepoShape, Hist
      <4> QED
        BY <3>1, <4>1
    <3>4. CASE main' # main
      <4>1. PICK u \in Tasks : Moves(u) /\ ~Pull(u)
        BY <3>4, MainHasMover
      <4>2. goal[t] \in Hist(base[u]) \/ OfLeaf(goal[t])
        BY <2>1, <3>1, <4>1, MoverEndsItsCommit DEF LossInv, LossIsOfSiblings
      <4> QED
        BY <2>1, <3>1, <3>2, <4>1, <4>2, MoverEndsItsCommit DEF OfLeaf
    <3> QED
      BY <3>3, <3>4
  <2>3. CASE result[t] # "ok"
    <3>1. CommitEnds(t) /\ main' = goal[t] /\ goal'[t] = goal[t]
      BY <2>1, <2>3, OkIsOfMover
    <3>2. main' \in Hist(main)'
      BY ToolStepIsRepoStep, RepoNextInv DEF RepoInv, RepoShape, HistoriesAreClosed
    <3> QED
      BY <3>1, <3>2
  <2> QED
    BY <2>2, <2>3
<1> QED
  BY <1>1, <1>2, ToolInvariance, CommitInvariance, LossInvariance, PTL DEF Spec
=============================================================================
