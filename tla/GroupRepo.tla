------------------------------ MODULE GroupRepo ------------------------------
(***************************************************************************)
(* The bare git repository of one group: its commits, the branch main, and *)
(* the tracking ref of its remote (crates/mmcp-git/src/native).            *)
(*                                                                         *)
(* Two backend calls move main: write_commit and fast_forward.  Each is    *)
(* split here where the code looks a reference up, because calls run on    *)
(* different threads of the blocking pool and nothing in the backend keeps *)
(* two of them apart.  gix, which is not under src/, updates a reference   *)
(* by compare-and-swap against the value the last lookup returned.         *)
(***************************************************************************)
EXTENDS Integers, Sequences

CONSTANTS
  Tasks,     \* the operations that may be in a backend call
  Peer,      \* author of the commits that come from elsewhere
  Paths,     \* where a memory file may be
  Contents   \* what a file may hold

ASSUME PeerAssumption == Peer \notin Tasks

\* A tree has files at some of the paths.
IsTree(tree) == DOMAIN tree \subseteq Paths /\ tree \in [DOMAIN tree -> Contents]
TreesOver(paths) == UNION {[P -> Contents] : P \in SUBSET paths}

\* The files of a CommitSpec: those it puts, those it deletes.
EditsOver(paths) == [put : TreesOver(paths), drop : SUBSET paths]

VARIABLES
  commits,    \* commits[c]: the commit written c-th; hist holds its ancestors and c
  main,       \* refs/heads/main
  tracking,   \* refs/remotes/<name>/main
  phase,      \* phase[t]: how far t is in its backend call
  base,       \* base[t]: main at the first lookup of the call
  expected,   \* expected[t]: main at the second lookup
  goal        \* goal[t]: the commit the call wants main to be

repoVars == <<commits, main, tracking, phase, base, expected, goal>>

CommitIds == DOMAIN commits
CommitRecord(h, tr, a) == [hist |-> h, tree |-> tr, by |-> a]

Hist(c) == commits[c].hist
Tree(c) == commits[c].tree
Tip == Tree(main)

RepoTypeOK ==
  /\ \A c \in CommitIds :
       Hist(c) \subseteq CommitIds /\ IsTree(Tree(c)) /\ commits[c].by \in Tasks \union {Peer}
  /\ main \in CommitIds
  /\ tracking \in CommitIds
  /\ phase \in [Tasks -> {"none", "based", "written", "aimed", "ancestor", "refound"}]
  /\ base \in [Tasks -> Nat]
  /\ expected \in [Tasks -> Nat]
  /\ goal \in [Tasks -> Nat]

\* create_group has committed the manifest; the seed tree is anything a peer
\* or an earlier session left, and the tracking ref agrees with main.
RepoInit(seed) ==
  /\ commits = <<CommitRecord({1}, seed, Peer)>>
  /\ main = 1
  /\ tracking = 1
  /\ phase = [t \in Tasks |-> "none"]
  /\ base = [t \in Tasks |-> 0]
  /\ expected = [t \in Tasks |-> 0]
  /\ goal = [t \in Tasks |-> 0]

\* build_tree: the edits of the call laid over a tree; deleting an absent
\* path is no error.
Overlay(tree, e) ==
  [p \in (DOMAIN tree \ e.drop) \union DOMAIN e.put |->
     IF p \in DOMAIN e.put THEN e.put[p] ELSE tree[p]]

\* The commit that applies e on top of commit b.
Child(b, e, author) ==
  CommitRecord(Hist(b) \union {Len(commits) + 1}, Overlay(Tree(b), e), author)

-----------------------------------------------------------------------------
(* write_commit                                                            *)

\* First lookup of the branch: the parent of the new commit.
FindParent(t) ==
  /\ phase[t] = "none"
  /\ phase' = [phase EXCEPT ![t] = "based"]
  /\ base' = [base EXCEPT ![t] = main]
  /\ UNCHANGED <<commits, main, tracking, expected, goal>>

\* The tree and the commit are written; then the branch is looked up again.
WriteObject(t, e) ==
  /\ phase[t] = "based"
  /\ commits' = Append(commits, Child(base[t], e, t))
  /\ goal' = [goal EXCEPT ![t] = Len(commits) + 1]
  /\ expected' = [expected EXCEPT ![t] = main]
  /\ phase' = [phase EXCEPT ![t] = "written"]
  /\ UNCHANGED <<main, tracking, base>>

-----------------------------------------------------------------------------
(* fast_forward of main to the tracking ref                                *)

FindTarget(t) ==
  /\ phase[t] = "none"
  /\ phase' = [phase EXCEPT ![t] = "aimed"]
  /\ goal' = [goal EXCEPT ![t] = tracking]
  /\ UNCHANGED <<commits, main, tracking, base, expected>>

\* Faulty variant: nobody asks whether main is an ancestor of the target.
FindLocalUnchecked(t) ==
  /\ phase[t] = "aimed"
  /\ base' = [base EXCEPT ![t] = main]
  /\ phase' = [phase EXCEPT ![t] = IF main = goal[t] THEN "none" ELSE "ancestor"]
  /\ UNCHANGED <<commits, main, tracking, expected, goal>>

\* AlreadyAt and NotFastForward end the call; an ancestor goes on.
FindLocal(t) ==
  /\ phase[t] = "aimed"
  /\ base' = [base EXCEPT ![t] = main]
  /\ phase' = [phase EXCEPT ![t] =
                 IF main # goal[t] /\ main \in Hist(goal[t]) THEN "ancestor" ELSE "none"]
  /\ UNCHANGED <<commits, main, tracking, expected, goal>>

Refind(t) ==
  /\ phase[t] = "ancestor"
  /\ phase' = [phase EXCEPT ![t] = "refound"]
  /\ expected' = [expected EXCEPT ![t] = main]
  /\ UNCHANGED <<commits, main, tracking, base, goal>>

-----------------------------------------------------------------------------
\* set_target_id: main becomes the goal if it still is what the second lookup
\* saw; otherwise the call fails and leaves main alone.
CanSwap(t) == main = expected[t]

SwapMain(t) ==
  /\ phase[t] \in {"written", "refound"}
  /\ main' = IF CanSwap(t) THEN goal[t] ELSE main
  /\ phase' = [phase EXCEPT ![t] = "none"]
  /\ UNCHANGED <<commits, tracking, base, expected, goal>>

\* A fetch brings a commit some peer made on top of the remote's main.
Fetch(e) ==
  /\ commits' = Append(commits, Child(tracking, e, Peer))
  /\ tracking' = Len(commits) + 1
  /\ UNCHANGED <<main, phase, base, expected, goal>>

RepoNext ==
  \/ \E t \in Tasks :
       \/ FindParent(t)
       \/ \E e \in EditsOver(Paths) : WriteObject(t, e)
       \/ FindTarget(t)
       \/ FindLocal(t)
       \/ Refind(t)
       \/ SwapMain(t)
  \/ \E e \in EditsOver(Paths) : Fetch(e)

RepoSpec == (\E seed \in TreesOver(Paths) : RepoInit(seed)) /\ [][RepoNext]_repoVars

-----------------------------------------------------------------------------
\* The window of the protocol, and no more: whatever moves main, a commit or a
\* fast-forward, keeps every commit that was on main when the call made its
\* first lookup.  (What landed in between may be dropped; see MemoryTools.)
NothingSeenIsDropped ==
  [][main' # main =>
       \E t \in Tasks : /\ phase[t] \in {"written", "refound"}
                        /\ phase'[t] = "none"
                        /\ Hist(base[t]) \subseteq Hist(main)']_repoVars
=============================================================================
