---------------------------- MODULE GroupRepoProofs ----------------------------
(***************************************************************************)
(* What the window of write_commit and fast_forward guarantees, for every  *)
(* set of tasks, files and contents.                                       *)
(*                                                                         *)
(* The argument: histories are closed under ancestry, a call past its      *)
(* first lookup aims at a descendant of what it saw, and commits are never *)
(* rewritten; so a call that moves main moves it to a descendant of what   *)
(* the call saw.                                                           *)
(***************************************************************************)
EXTENDS GroupRepo, SequenceTheorems, TLAPS

\* A commit's history has the commit and is closed under ancestry.
HistoriesAreClosed ==
  \A c \in CommitIds :
    /\ c \in Hist(c)
    /\ Hist(c) \subseteq CommitIds
    /\ \A d \in Hist(c) : Hist(d) \subseteq Hist(c)

\* What a call has looked up and what it aims at are commits.
LookupsAreCommits ==
  \A t \in Tasks :
    /\ phase[t] \notin {"none", "aimed"} => base[t] \in CommitIds
    /\ phase[t] \notin {"none", "based"} => goal[t] \in CommitIds

\* A call that can still move main aims at a descendant of what it saw.
GoalsDescend ==
  \A t \in Tasks :
    phase[t] \in {"written", "ancestor", "refound"} => Hist(base[t]) \subseteq Hist(goal[t])

\* RepoTypeOK, with what is finite and what is not in sets of their own.
Trees == TreesOver(Paths)
Edits == EditsOver(Paths)
Commit == [hist : SUBSET Nat, tree : Trees, by : Tasks \union {Peer}]

RepoShape ==
  /\ commits \in Seq(Commit)
  /\ main \in CommitIds
  /\ tracking \in CommitIds
  /\ phase \in [Tasks -> {"none", "based", "written", "aimed", "ancestor", "refound"}]
  /\ base \in [Tasks -> Nat]
  /\ expected \in [Tasks -> Nat]
  /\ goal \in [Tasks -> Nat]

RepoInv == RepoShape /\ HistoriesAreClosed /\ LookupsAreCommits /\ GoalsDescend

-----------------------------------------------------------------------------
(* Appending a commit.                                                     *)

\* build_tree makes a tree of a tree.
LEMMA OverlayIsTree ==
  ASSUME NEW tr \in Trees, NEW e \in Edits
  PROVE  Overlay(tr, e) \in Trees
<1> DEFINE D == (DOMAIN tr \ e.drop) \union DOMAIN e.put
<1>1. PICK P \in SUBSET Paths : tr \in [P -> Contents]
  BY DEF Trees, TreesOver
<1>2. PICK Q \in SUBSET Paths : e.put \in [Q -> Contents]
  BY DEF Trees, TreesOver, Edits, EditsOver
<1>3. D \in SUBSET Paths
  BY <1>1, <1>2
<1>4. \A p \in D : (IF p \in DOMAIN e.put THEN e.put[p] ELSE tr[p]) \in Contents
  BY <1>1, <1>2
<1>5. Overlay(tr, e) \in [D -> Contents]
  BY <1>4 DEF Overlay
<1> QED
  BY <1>3, <1>5 DEF Trees, TreesOver

\* A child of a commit is a commit whose history is its parent's and itself.
LEMMA ChildIsCommit ==
  ASSUME commits \in Seq(Commit), NEW b \in CommitIds, NEW e \in Edits,
         NEW a \in Tasks \union {Peer}
  PROVE  /\ Child(b, e, a) \in Commit
         /\ Child(b, e, a).hist = Hist(b) \union {Len(commits) + 1}
<1>1. commits[b] \in Commit
  BY DEF CommitIds
<1>2. Tree(b) \in Trees /\ Hist(b) \subseteq Nat
  BY <1>1 DEF Commit, Tree, Hist
<1>3. Overlay(Tree(b), e) \in Trees
  BY <1>2, OverlayIsTree
<1>4. Len(commits) + 1 \in Nat
  BY LenProperties DEF CommitIds
<1> QED
  BY <1>2, <1>3, <1>4 DEF Child, CommitRecord, Commit

\* Appending a commit leaves the earlier ones and their histories as they are.
LEMMA AppendKeepsHistory ==
  ASSUME commits \in Seq(Commit), NEW x \in Commit, commits' = Append(commits, x)
  PROVE  /\ commits' \in Seq(Commit)
         /\ CommitIds' = CommitIds \union {Len(commits) + 1}
         /\ Len(commits) + 1 \notin CommitIds
         /\ \A c \in CommitIds : commits'[c] = commits[c]
         /\ commits'[Len(commits) + 1] = x
<1>1. Len(commits) \in Nat /\ DOMAIN commits = 1..Len(commits)
  BY LenProperties
<1>2. /\ commits' \in Seq(Commit)
      /\ Len(commits') = Len(commits) + 1
      /\ \A i \in 1..Len(commits) : commits'[i] = commits[i]
      /\ commits'[Len(commits) + 1] = x
  BY AppendProperties
<1>3. DOMAIN commits' = 1..(Len(commits) + 1)
  BY <1>2, LenProperties
<1> QED
  BY <1>1, <1>2, <1>3 DEF CommitIds

\* So the histories stay closed when the new commit's is its parent's and itself.
LEMMA ChildKeepsClosure ==
  ASSUME RepoShape, HistoriesAreClosed, NEW b \in CommitIds, NEW e \in Edits,
         NEW a \in Tasks \union {Peer}, commits' = Append(commits, Child(b, e, a)),
         NEW n, n = Len(commits) + 1
  PROVE  /\ commits' \in Seq(Commit)
         /\ HistoriesAreClosed'
         /\ CommitIds \subseteq CommitIds'
         /\ n \in CommitIds'
         /\ \A c \in CommitIds : Hist(c)' = Hist(c)
         /\ Hist(n)' = Hist(b) \union {n}
<1>1. commits \in Seq(Commit)
  BY DEF RepoShape
<1>2. Child(b, e, a) \in Commit /\ Child(b, e, a).hist = Hist(b) \union {n}
  BY <1>1, ChildIsCommit
<1>3. /\ commits' \in Seq(Commit)
      /\ CommitIds' = CommitIds \union {n}
      /\ n \notin CommitIds
      /\ \A c \in CommitIds : commits'[c] = commits[c]
      /\ commits'[n] = Child(b, e, a)
  BY <1>1, <1>2, AppendKeepsHistory
<1>4. \A c \in CommitIds : Hist(c)' = Hist(c)
  BY <1>3 DEF Hist
<1>5. Hist(n)' = Hist(b) \union {n}
  BY <1>2, <1>3 DEF Hist
<1>6. HistoriesAreClosed'
  <2> SUFFICES ASSUME NEW c \in CommitIds'
               PROVE  /\ c \in Hist(c)'
                      /\ Hist(c)' \subseteq CommitIds'
                      /\ \A d \in Hist(c)' : Hist(d)' \subseteq Hist(c)'
    BY DEF HistoriesAreClosed, CommitIds, Hist
  <2>1. CASE c \in CommitIds
    BY <2>1, <1>3, <1>4 DEF HistoriesAreClosed
  <2>2. CASE c = n
    <3>1. Hist(c)' = Hist(b) \union {n}
      BY <2>2, <1>5
    <3>2. Hist(b) \subseteq CommitIds /\ \A d \in Hist(b) : Hist(d) \subseteq Hist(b)
      BY DEF HistoriesAreClosed
    <3>3. \A d \in Hist(b) : Hist(d)' = Hist(d)
      BY <1>4, <3>2
    <3>4. \A d \in Hist(c)' : Hist(d)' \subseteq Hist(c)'
      BY <2>2, <3>1, <3>2, <3>3
    <3> QED
      BY <2>2, <1>3, <3>1, <3>2, <3>4
  <2> QED
    BY <1>3, <2>1, <2>2
<1> QED
  BY <1>3, <1>4, <1>5, <1>6

-----------------------------------------------------------------------------
(* The steps.                                                              *)

\* The one commit of a fresh repository satisfies the invariant.
LEMMA RepoInitInv ==
  ASSUME NEW seed \in Trees, RepoInit(seed)
  PROVE  RepoInv
<1>1. Len(commits) = 1 /\ commits[1] = CommitRecord({1}, seed, Peer) /\ CommitIds = {1}
  BY DEF RepoInit, CommitIds
<1>2. commits[1] \in Commit
  BY <1>1 DEF CommitRecord, Commit
<1>3. commits \in Seq(Commit)
  BY <1>2 DEF RepoInit
<1>4. RepoShape
  BY <1>1, <1>3 DEF RepoInit, RepoShape
<1>5. HistoriesAreClosed
  BY <1>1 DEF HistoriesAreClosed, Hist, CommitRecord
<1>6. LookupsAreCommits /\ GoalsDescend
  BY DEF RepoInit, LookupsAreCommits, GoalsDescend
<1> QED
  BY <1>4, <1>5, <1>6 DEF RepoInv

\* A step that adds no commit keeps the histories.
LEMMA SameCommitsSameHistory ==
  ASSUME UNCHANGED commits, HistoriesAreClosed
  PROVE  HistoriesAreClosed' /\ CommitIds' = CommitIds /\ (\A c : Hist(c)' = Hist(c))
BY DEF HistoriesAreClosed, CommitIds, Hist

\* The first lookup of write_commit records a commit that exists.
LEMMA FindParentInv ==
  ASSUME RepoInv, NEW t \in Tasks, FindParent(t)
  PROVE  RepoInv'
<1>1. HistoriesAreClosed' /\ CommitIds' = CommitIds /\ \A c : Hist(c)' = Hist(c)
  BY SameCommitsSameHistory DEF FindParent, RepoInv
<1>2. CommitIds \subseteq Nat
  BY LenProperties DEF RepoInv, RepoShape, CommitIds
<1>3. RepoShape'
  BY <1>1, <1>2 DEF RepoInv, RepoShape, FindParent
<1>4. /\ phase'[t] = "based" /\ base'[t] = main /\ goal' = goal
      /\ \A u \in Tasks \ {t} : phase'[u] = phase[u] /\ base'[u] = base[u]
  BY DEF RepoInv, RepoShape, FindParent
<1>5. main \in CommitIds
  BY DEF RepoInv, RepoShape
<1>6. LookupsAreCommits'
  BY <1>1, <1>4, <1>5 DEF RepoInv, LookupsAreCommits
<1>7. GoalsDescend'
  BY <1>1, <1>4 DEF RepoInv, GoalsDescend
<1> QED
  BY <1>1, <1>3, <1>6, <1>7 DEF RepoInv

\* The new commit descends from the one the call looked up first.
LEMMA WriteObjectInv ==
  ASSUME RepoInv, NEW t \in Tasks, NEW e \in Edits, WriteObject(t, e)
  PROVE  RepoInv'
<1>1. PICK n : n = Len(commits) + 1
  OBVIOUS
<1>2. /\ phase[t] = "based" /\ base[t] \in CommitIds
      /\ commits' = Append(commits, Child(base[t], e, t))
  BY DEF WriteObject, RepoInv, LookupsAreCommits
<1>3. /\ commits' \in Seq(Commit)
      /\ HistoriesAreClosed'
      /\ CommitIds \subseteq CommitIds'
      /\ n \in CommitIds'
      /\ \A c \in CommitIds : Hist(c)' = Hist(c)
      /\ Hist(n)' = Hist(base[t]) \union {n}
  BY <1>1, <1>2, ChildKeepsClosure DEF RepoInv
<1>4. n \in Nat
  BY <1>1, LenProperties DEF RepoInv, RepoShape
<1>5. CommitIds \subseteq Nat
  BY LenProperties DEF RepoInv, RepoShape, CommitIds
<1>6. /\ phase' = [phase EXCEPT ![t] = "written"]
      /\ goal' = [goal EXCEPT ![t] = n]
      /\ expected' = [expected EXCEPT ![t] = main]
      /\ main' = main /\ tracking' = tracking /\ base' = base
  BY <1>1 DEF WriteObject
<1>7. RepoShape'
  BY <1>3, <1>4, <1>5, <1>6 DEF RepoInv, RepoShape
<1>8. /\ phase'[t] = "written" /\ goal'[t] = n
      /\ \A u \in Tasks \ {t} : phase'[u] = phase[u] /\ goal'[u] = goal[u]
  BY <1>6 DEF RepoInv, RepoShape
<1>9. LookupsAreCommits'
  BY <1>2, <1>3, <1>6, <1>8 DEF RepoInv, LookupsAreCommits
<1>10. GoalsDescend'
  <2> SUFFICES ASSUME NEW u \in Tasks, phase'[u] \in {"written", "ancestor", "refound"},
                      NEW b, b = base'[u], NEW g, g = goal'[u]
               PROVE  Hist(b)' \subseteq Hist(g)'
    BY DEF GoalsDescend, Hist
  <2>1. CASE u = t
    BY <2>1, <1>2, <1>3, <1>6, <1>8
  <2>2. CASE u # t
    <3>1. b = base[u] /\ g = goal[u] /\ b \in CommitIds /\ g \in CommitIds
      BY <2>2, <1>6, <1>8 DEF RepoInv, LookupsAreCommits
    <3>2. Hist(b) \subseteq Hist(g)
      BY <2>2, <3>1, <1>8 DEF RepoInv, GoalsDescend
    <3> QED
      BY <3>1, <3>2, <1>3
  <2> QED
    BY <2>1, <2>2
<1> QED
  BY <1>3, <1>7, <1>9, <1>10 DEF RepoInv

\* The tracking ref is a commit.
LEMMA FindTargetInv ==
  ASSUME RepoInv, NEW t \in Tasks, FindTarget(t)
  PROVE  RepoInv'
<1>1. HistoriesAreClosed' /\ CommitIds' = CommitIds /\ \A c : Hist(c)' = Hist(c)
  BY SameCommitsSameHistory DEF FindTarget, RepoInv
<1>2. CommitIds \subseteq Nat
  BY LenProperties DEF RepoInv, RepoShape, CommitIds
<1>3. RepoShape'
  BY <1>1, <1>2 DEF RepoInv, RepoShape, FindTarget
<1>4. /\ phase'[t] = "aimed" /\ goal'[t] = tracking /\ base' = base
      /\ \A u \in Tasks \ {t} : phase'[u] = phase[u] /\ goal'[u] = goal[u]
  BY DEF RepoInv, RepoShape, FindTarget
<1>5. tracking \in CommitIds
  BY DEF RepoInv, RepoShape
<1>6. LookupsAreCommits'
  BY <1>1, <1>4, <1>5 DEF RepoInv, LookupsAreCommits
<1>7. GoalsDescend'
  BY <1>1, <1>4 DEF RepoInv, GoalsDescend
<1> QED
  BY <1>1, <1>3, <1>6, <1>7 DEF RepoInv

\* A fast-forward goes on only towards a descendant of main.
LEMMA FindLocalInv ==
  ASSUME RepoInv, NEW t \in Tasks, FindLocal(t)
  PROVE  RepoInv'
<1>1. HistoriesAreClosed' /\ CommitIds' = CommitIds /\ \A c : Hist(c)' = Hist(c)
  BY SameCommitsSameHistory DEF FindLocal, RepoInv
<1>2. CommitIds \subseteq Nat
  BY LenProperties DEF RepoInv, RepoShape, CommitIds
<1>3. RepoShape'
  BY <1>1, <1>2 DEF RepoInv, RepoShape, FindLocal
<1>4. /\ phase[t] = "aimed" /\ base'[t] = main /\ goal' = goal
      /\ phase'[t] \in {"none", "ancestor"}
      /\ phase'[t] = "ancestor" => main \in Hist(goal[t])
      /\ \A u \in Tasks \ {t} : phase'[u] = phase[u] /\ base'[u] = base[u]
  BY DEF RepoInv, RepoShape, FindLocal
<1>5. main \in CommitIds /\ goal[t] \in CommitIds
  BY <1>4 DEF RepoInv, RepoShape, LookupsAreCommits
<1>6. LookupsAreCommits'
  BY <1>1, <1>4, <1>5 DEF RepoInv, LookupsAreCommits
<1>7. phase'[t] = "ancestor" => Hist(main) \subseteq Hist(goal[t])
  BY <1>4, <1>5 DEF RepoInv, HistoriesAreClosed
<1>8. GoalsDescend'
  BY <1>1, <1>4, <1>7 DEF RepoInv, GoalsDescend
<1> QED
  BY <1>1, <1>3, <1>6, <1>8 DEF RepoInv

\* The second lookup of fast_forward changes neither its target nor its base.
LEMMA RefindInv ==
  ASSUME RepoInv, NEW t \in Tasks, Refind(t)
  PROVE  RepoInv'
<1>1. HistoriesAreClosed' /\ CommitIds' = CommitIds /\ \A c : Hist(c)' = Hist(c)
  BY SameCommitsSameHistory DEF Refind, RepoInv
<1>2. CommitIds \subseteq Nat
  BY LenProperties DEF RepoInv, RepoShape, CommitIds
<1>3. RepoShape'
  BY <1>1, <1>2 DEF RepoInv, RepoShape, Refind
<1>4. /\ phase[t] = "ancestor" /\ phase'[t] = "refound" /\ base' = base /\ goal' = goal
      /\ \A u \in Tasks \ {t} : phase'[u] = phase[u]
  BY DEF RepoInv, RepoShape, Refind
<1>5. LookupsAreCommits'
  BY <1>1, <1>4 DEF RepoInv, LookupsAreCommits
<1>6. GoalsDescend'
  BY <1>1, <1>4 DEF RepoInv, GoalsDescend
<1> QED
  BY <1>1, <1>3, <1>5, <1>6 DEF RepoInv

\* main moves to a commit that exists.
LEMMA SwapMainInv ==
  ASSUME RepoInv, NEW t \in Tasks, SwapMain(t)
  PROVE  RepoInv'
<1>1. HistoriesAreClosed' /\ CommitIds' = CommitIds /\ \A c : Hist(c)' = Hist(c)
  BY SameCommitsSameHistory DEF SwapMain, RepoInv
<1>2. /\ phase[t] \in {"written", "refound"} /\ phase'[t] = "none"
      /\ base' = base /\ goal' = goal
      /\ \A u \in Tasks \ {t} : phase'[u] = phase[u]
  BY DEF RepoInv, RepoShape, SwapMain
<1>3. main' \in CommitIds
  BY <1>2 DEF RepoInv, RepoShape, LookupsAreCommits, SwapMain
<1>4. RepoShape'
  BY <1>1, <1>3 DEF RepoInv, RepoShape, SwapMain
<1>5. LookupsAreCommits'
  BY <1>1, <1>2 DEF RepoInv, LookupsAreCommits
<1>6. GoalsDescend'
  BY <1>1, <1>2 DEF RepoInv, GoalsDescend
<1> QED
  BY <1>1, <1>4, <1>5, <1>6 DEF RepoInv

\* A fetched commit descends from the tracking ref.
LEMMA FetchInv ==
  ASSUME RepoInv, NEW e \in Edits, Fetch(e)
  PROVE  RepoInv'
<1>1. PICK n : n = Len(commits) + 1
  OBVIOUS
<1>2. tracking \in CommitIds /\ commits' = Append(commits, Child(tracking, e, Peer))
  BY DEF Fetch, RepoInv, RepoShape
<1>3. /\ commits' \in Seq(Commit)
      /\ HistoriesAreClosed'
      /\ CommitIds \subseteq CommitIds'
      /\ n \in CommitIds'
      /\ \A c \in CommitIds : Hist(c)' = Hist(c)
  BY <1>1, <1>2, ChildKeepsClosure DEF RepoInv
<1>4. /\ tracking' = n /\ main' = main
      /\ phase' = phase /\ base' = base /\ expected' = expected /\ goal' = goal
  BY <1>1 DEF Fetch
<1>5. RepoShape'
  BY <1>3, <1>4 DEF RepoInv, RepoShape
<1>6. LookupsAreCommits'
  BY <1>3, <1>4 DEF RepoInv, LookupsAreCommits
<1>7. GoalsDescend'
  <2> SUFFICES ASSUME NEW u \in Tasks, phase[u] \in {"written", "ancestor", "refound"},
                      NEW b, b = base[u], NEW g, g = goal[u]
               PROVE  Hist(b)' \subseteq Hist(g)'
    BY <1>4 DEF GoalsDescend, Hist
  <2>1. b \in CommitIds /\ g \in CommitIds /\ Hist(b) \subseteq Hist(g)
    BY DEF RepoInv, LookupsAreCommits, GoalsDescend
  <2> QED
    BY <2>1, <1>3
<1> QED
  BY <1>3, <1>5, <1>6, <1>7 DEF RepoInv

\* Every step keeps the invariant.
LEMMA RepoNextInv ==
  ASSUME RepoInv, [RepoNext]_repoVars
  PROVE  RepoInv'
<1>1. ASSUME NEW t \in Tasks, FindParent(t)
      PROVE  RepoInv'
  BY <1>1, FindParentInv
<1>2. ASSUME NEW t \in Tasks, NEW e \in Edits, WriteObject(t, e)
      PROVE  RepoInv'
  BY <1>2, WriteObjectInv
<1>3. ASSUME NEW t \in Tasks, FindTarget(t)
      PROVE  RepoInv'
  BY <1>3, FindTargetInv
<1>4. ASSUME NEW t \in Tasks, FindLocal(t)
      PROVE  RepoInv'
  BY <1>4, FindLocalInv
<1>5. ASSUME NEW t \in Tasks, Refind(t)
      PROVE  RepoInv'
  BY <1>5, RefindInv
<1>6. ASSUME NEW t \in Tasks, SwapMain(t)
      PROVE  RepoInv'
  BY <1>6, SwapMainInv
<1>7. ASSUME NEW e \in Edits, Fetch(e)
      PROVE  RepoInv'
  BY <1>7, FetchInv
<1>8. CASE UNCHANGED repoVars
  <2>1. HistoriesAreClosed' /\ CommitIds' = CommitIds /\ \A c : Hist(c)' = Hist(c)
    BY <1>8, SameCommitsSameHistory DEF repoVars, RepoInv
  <2> QED
    BY <1>8, <2>1 DEF repoVars, RepoInv, RepoShape, LookupsAreCommits, GoalsDescend
<1> QED
  BY <1>1, <1>2, <1>3, <1>4, <1>5, <1>6, <1>7, <1>8 DEF RepoNext, Edits

\* And what satisfies the invariant has the types of the repository.
LEMMA RepoInvIsTyped ==
  ASSUME RepoInv
  PROVE  RepoTypeOK
<1>1. ASSUME NEW c \in CommitIds
      PROVE  /\ Hist(c) \subseteq CommitIds
             /\ IsTree(Tree(c))
             /\ commits[c].by \in Tasks \union {Peer}
  <2>1. commits[c] \in Commit
    BY DEF RepoInv, RepoShape, CommitIds
  <2>2. Tree(c) \in Trees /\ commits[c].by \in Tasks \union {Peer}
    BY <2>1 DEF Commit, Tree
  <2>3. IsTree(Tree(c))
    BY <2>2 DEF Trees, TreesOver, IsTree
  <2> QED
    BY <2>2, <2>3 DEF RepoInv, HistoriesAreClosed
<1> QED
  BY <1>1 DEF RepoInv, RepoShape, RepoTypeOK

-----------------------------------------------------------------------------
\* Histories stay closed and every call aims at a descendant of what it saw.
THEOREM RepoInvariance == RepoSpec => []RepoInv
<1>1. (\E seed \in TreesOver(Paths) : RepoInit(seed)) => RepoInv
  BY RepoInitInv DEF Trees
<1>2. RepoInv /\ [RepoNext]_repoVars => RepoInv'
  BY RepoNextInv
<1> QED
  BY <1>1, <1>2, PTL DEF RepoSpec

\* Only the swap at the end of a call moves main.
LEMMA OnlySwapMovesMain ==
  ASSUME RepoInv, RepoNext, main' # main
  PROVE  \E t \in Tasks : SwapMain(t)
BY DEF RepoNext, Edits, FindParent, WriteObject, FindTarget, FindLocal, Refind, Fetch

\* Whatever moves main, write_commit or fast_forward, keeps every commit that
\* was on main when the call made its first lookup.
THEOREM WindowKeepsHistory == RepoSpec => NothingSeenIsDropped
<1> DEFINE Kept ==
      main' # main =>
        \E t \in Tasks : /\ phase[t] \in {"written", "refound"}
                         /\ phase'[t] = "none"
                         /\ Hist(base[t]) \subseteq Hist(main)'
<1>1. RepoInv /\ [RepoNext]_repoVars => [Kept]_repoVars
  <2> SUFFICES ASSUME RepoInv, RepoNext, main' # main
               PROVE  \E t \in Tasks : /\ phase[t] \in {"written", "refound"}
                                       /\ phase'[t] = "none"
                                       /\ Hist(base[t]) \subseteq Hist(main)'
    OBVIOUS
  <2>1. PICK t \in Tasks : SwapMain(t)
    BY OnlySwapMovesMain
  <2>2. /\ phase[t] \in {"written", "refound"} /\ phase'[t] = "none"
        /\ main' = goal[t] /\ commits' = commits
    BY <2>1 DEF RepoInv, RepoShape, SwapMain
  <2>3. Hist(base[t]) \subseteq Hist(goal[t])
    BY <2>2 DEF RepoInv, GoalsDescend
  <2>4. Hist(main)' = Hist(goal[t])
    BY <2>2 DEF Hist
  <2> QED
    BY <2>2, <2>3, <2>4
<1> QED
  BY <1>1, RepoInvariance, PTL DEF RepoSpec, NothingSeenIsDropped
=============================================================================
