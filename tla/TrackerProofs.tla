----------------------------- MODULE TrackerProofs -----------------------------
(***************************************************************************)
(* What the trackers guarantee, for every number of calls, whatever they   *)
(* ask for, and every set of tickets.                                      *)
(*                                                                         *)
(* The argument has five layers.  Where a call is in its route says which  *)
(* links it holds, and guards never conflict (RouteInv): so the trackers   *)
(* only do to the repository what GroupRepo allows.  What a call has       *)
(* written is its files on top of what it saw (CommitInv).  A ticket with  *)
(* a back link is superseded, whoever wrote it (LinkInv).  Where no pull   *)
(* runs, all that happens to the group between two exclusive calls is that *)
(* updates and deletes edit, each with the leaf lock, what the first of    *)
(* the two has left: a commit can be dropped in between, but no ticket can *)
(* come, move or be reopened (GroupInv).  And a commit that an update      *)
(* makes is the parent of nothing before it is on main (UpdateInv).        *)
(***************************************************************************)
EXTENDS Tracker, GroupRepoProofs, WellFoundedInduction

\* The steps of a route are numbered; the last one, for all but pull, is the
\* unlock.
End(t) == Len(Steps(t))

\* Calls that lock the group; calls that lock a leaf under it; pulls.
Grouped(t) == call[t].op \in {"add", "supersede", "rename"}
Leaf(t) == call[t].op \in {"update", "delete"}
Pull(t) == call[t].op = "pull"

\* Between its first lock and its unlock.
Locked(t) == ~Pull(t) /\ 1 < at[t] /\ at[t] <= End(t)

GroupLinks == L!LinkSet(L!ExclusiveGroupChain(Group))
AncestorLinks == {L!Shared(L!ProcessScope), L!Shared(L!GroupScope(Group))}
LeafLink(t) == L!Exclusive(L!MemoryScope(path[t][2]))

\* The steps that commit.
Committing(t) ==
  \/ call[t].op \in {"add", "rename"} /\ at[t] = 3
  \/ call[t].op = "supersede" /\ at[t] \in {4, 6}
  \/ Leaf(t) /\ at[t] = 5

\* A call that locks the group has its links from its first step to its last;
\* an update or a delete adds that of the leaf to those of the ancestors, or
\* ends before it does.
LinksFollow(t) ==
  /\ ~Locked(t) => held[t] = {}
  /\ Locked(t) /\ Grouped(t) => held[t] = GroupLinks
  /\ Locked(t) /\ Leaf(t) /\ at[t] <= 3 => held[t] = AncestorLinks
  /\ Locked(t) /\ Leaf(t) /\ 3 < at[t] /\ at[t] < End(t) =>
       held[t] = AncestorLinks \union {LeafLink(t)}
  /\ Locked(t) /\ Leaf(t) => AncestorLinks \subseteq held[t]

\* The slug is resolved once resolve, or target, is behind.
PathFollows(t) ==
  (Leaf(t) \/ call[t].op = "supersede") /\ 2 < at[t] /\ at[t] < End(t) => path[t] \in Paths

\* A call is in the backend only at its commits, or its pull.
BackendFollows(t) ==
  /\ phase[t] \in {"based", "written"} => Committing(t)
  /\ phase[t] \in {"aimed", "ancestor", "refound"} => Pull(t) /\ at[t] = 1

\* A call that has its result has only the unlock left.
ResultFollows(t) == result[t] # "none" => at[t] >= IF Pull(t) THEN 2 ELSE End(t)

RouteFollows(t) ==
  at[t] <= End(t) + 1 /\ LinksFollow(t) /\ PathFollows(t) /\ BackendFollows(t) /\ ResultFollows(t)

TrackerTypeOK ==
  /\ held \in [Tasks -> SUBSET L!Links]
  /\ call \in [Tasks -> Calls]
  /\ at \in [Tasks -> 1..8]
  /\ path \in [Tasks -> Paths \union {NoPath}]
  /\ files \in [Tasks -> Edits]
  /\ result \in [Tasks -> Results]

RouteInv ==
  /\ TrackerTypeOK
  /\ \A t \in Tasks : RouteFollows(t)
  /\ L!NoConflictingGuards

-----------------------------------------------------------------------------
(* Commits.                                                                *)

\* A history has no later commit.
CommitsAreDated == \A c \in CommitIds : \A d \in Hist(c) : d <= c

\* What a call has written is its files on top of what it saw, newer than the
\* main it will compare with.
CommitIsOwn(t) ==
  /\ base[t] \in CommitIds /\ goal[t] \in CommitIds
  /\ commits[goal[t]].by = t
  /\ Hist(goal[t]) = Hist(base[t]) \union {goal[t]}
  /\ Tree(goal[t]) = Overlay(Tree(base[t]), files[t])
  /\ expected[t] < goal[t]

CommitInv ==
  /\ CommitsAreDated
  /\ \A t \in Tasks : phase[t] = "written" => CommitIsOwn(t)

\* A ticket with a back link is superseded, in every commit and in what is about
\* to be committed.
LinkCloses(ticket) == ticket.successor # NoId => ticket.status = "superseded"

LinkInv ==
  /\ \A c \in CommitIds : \A p \in DOMAIN Tree(c) : LinkCloses(Tree(c)[p])
  /\ \A t \in Tasks : \A p \in DOMAIN files[t].put : LinkCloses(files[t].put[p])

\* Where every ticket is added open, its status and its back link agree.
PairInv ==
  /\ LinksArePaired
  /\ \A t \in Tasks : \A p \in DOMAIN files[t].put : Paired(files[t].put[p])

-----------------------------------------------------------------------------
(* The group between two exclusive calls.                                  *)

\* x is y, or what updates have made of it.
Grows(x, y) ==
  /\ x.kind = y.kind /\ x.number = y.number
  /\ y.successor # NoId => x.successor # NoId
  /\ x.successor \in Tasks => x.successor = y.successor

\* Commit c is commit r with updates and deletes on top; a slug that has several
\* files in r is out of their reach.
EditedFrom(c, r) ==
  /\ Hist(r) \subseteq Hist(c)
  /\ DOMAIN Tree(c) \subseteq DOMAIN Tree(r)
  /\ \A p \in DOMAIN Tree(c) : Grows(Tree(c)[p], Tree(r)[p])
  /\ \A p, q \in DOMAIN Tree(r) : p[1] = q[1] /\ p # q => p \in DOMAIN Tree(c)

\* What an exclusive call leaves: numbers differ, a ticket has one file, and the
\* tickets that supersede calls have taken are closed.
Sound(c) ==
  /\ Distinct(Tree(c))
  /\ \A p, q \in DOMAIN Tree(c) : p[2] = q[2] => p = q
  /\ \A u \in Superseding : \A p \in DOMAIN Tree(c) :
       p[2] = path[u][2] => Tree(c)[p].successor # NoId

\* The file of an update or a delete is the only one of its slug; what it writes
\* there is what updates make of the ticket.
LeafPath(t, r) ==
  /\ path[t] \in DOMAIN Tree(r)
  /\ path[t][1] = call[t].slug
  /\ \A p \in DOMAIN Tree(r) : p[1] = call[t].slug => p = path[t]

LeafFiles(t, r) ==
  \/ /\ call[t].op = "update"
     /\ files[t].drop = {} /\ DOMAIN files[t].put = {path[t]}
     /\ Grows(files[t].put[path[t]], Tree(r)[path[t]])
     /\ t \in files[t].put[path[t]].applied
  \/ /\ call[t].op = "delete"
     /\ files[t].drop = {path[t]} /\ DOMAIN files[t].put = {}

LeafFollows(t, r) ==
  /\ 2 < at[t] /\ at[t] < End(t) => LeafPath(t, r)
  /\ at[t] = 5 => LeafFiles(t, r)
  /\ phase[t] \in {"based", "written"} => EditedFrom(base[t], r)
  /\ phase[t] = "written" => EditedFrom(goal[t], r)

\* The calls that have changed a ticket and replied ok.
Settled == {t \in Tasks : call[t].op \in {"supersede", "update"} /\ result[t] = "ok"}

\* The files of an add, of the first commit of a supersede; of its second; of a
\* rename: each is right for the main it will be put on.
DraftFiles(t) ==
  /\ files[t].drop = {} /\ DOMAIN files[t].put = {<<call[t].slug, t>>}
  /\ \A q \in DOMAIN files[t].put :
       LET x == files[t].put[q] IN
       /\ x.successor = NoId
       /\ x.kind # "milestone" => x.number # 0
       /\ x.number # 0 => \A p \in DOMAIN Tip : Tip[p].number # x.number
  /\ \A p \in DOMAIN Tip : p[2] # t
  /\ \A u \in Settled : path[u][2] # t

BackLinkFiles(t) ==
  /\ files[t].drop = {} /\ DOMAIN files[t].put = {path[t]}
  /\ files[t].put[path[t]] = [Tip[path[t]] EXCEPT !.status = "superseded", !.successor = t]

RenameFiles(t) ==
  /\ call[t].slug # call[t].to
  /\ files[t].drop = Under(call[t].slug)
  /\ DOMAIN files[t].put = {<<call[t].to, p[2]>> : p \in Under(call[t].slug)}
  /\ \A q \in DOMAIN files[t].put : files[t].put[q] = Tip[<<call[t].slug, q[2]>>]

Drafting(t) ==
  \/ call[t].op = "add" /\ at[t] = 3
  \/ call[t].op = "supersede" /\ at[t] = 4

\* The ticket a supersede has picked, which no other supersede has taken.
TargetHolds(t) ==
  /\ path[t] \in DOMAIN Tip
  /\ path[t][1] = call[t].to
  /\ \A u \in Superseding : path[u][2] # path[t][2]

GroupFollows(t) ==
  /\ phase[t] \in {"based", "written"} => base[t] = main
  /\ phase[t] = "written" => expected[t] = main
  /\ call[t].op = "supersede" /\ 2 < at[t] /\ at[t] < End(t) => TargetHolds(t)
  /\ call[t].op = "supersede" /\ at[t] \in {5, 6} => t \in Known(main)
  /\ Drafting(t) => DraftFiles(t)
  /\ call[t].op = "supersede" /\ at[t] = 6 => BackLinkFiles(t)
  /\ call[t].op = "rename" /\ at[t] = 3 => RenameFiles(t)

\* r is what the last exclusive call has left, and all that runs follows from it.
LeftBy(r) ==
  /\ Sound(r)
  /\ EditedFrom(main, r)
  /\ \A t \in Tasks : Leaf(t) => LeafFollows(t, r)
  /\ \A t \in Tasks : Grouped(t) => GroupFollows(t)

\* t has written the ticket it mints, whose id is t.
Minted(t) ==
  \/ call[t].op = "add" /\ (at[t] > 3 \/ (at[t] = 3 /\ phase[t] = "written"))
  \/ call[t].op = "supersede" /\ (at[t] > 4 \/ (at[t] = 4 /\ phase[t] = "written"))

IdsAreFresh == \A c \in CommitIds : \A p \in DOMAIN Tree(c) : p[2] \in Tasks => Minted(p[2])

LinksAreKnown ==
  \A c \in CommitIds : \A p \in DOMAIN Tree(c) :
    Tree(c)[p].successor \in Tasks => Tree(c)[p].successor \in Known(c)

\* A supersede that replied ok.
SupersedeHolds(t) ==
  /\ goal[t] \in CommitIds
  /\ path[t] \in DOMAIN Tree(goal[t])
  /\ Tree(goal[t])[path[t]].successor = t
  /\ t \in Known(goal[t])
  /\ \A u \in Superseding \ {t} : path[u][2] # path[t][2]

GroupInv ==
  /\ \E r \in CommitIds : LeftBy(r)
  /\ IdsAreFresh
  /\ LinksAreKnown
  /\ \A t \in Superseding : SupersedeHolds(t)

-----------------------------------------------------------------------------
(* Updates.                                                                *)

\* Nothing is built on what t has written until it is main.
Unseen(t) ==
  /\ \A c \in CommitIds : goal[t] \in Hist(c) => c = goal[t]
  /\ main # goal[t]
  /\ \A u \in Tasks : phase[u] \in {"based", "written"} => base[u] # goal[t]

\* No commit up to c, from goal[t] on, drops what t has done.
KeptTo(t, c) == \A d \in goal[t]..c : goal[t] \in Hist(d)

\* Then its ticket, wherever it is in c, has t's update in it.
CarriedTo(t, c) ==
  goal[t] <= c /\ KeptTo(t, c) =>
    \A q \in DOMAIN Tree(c) : q[2] = path[t][2] => t \in Tree(c)[q].applied

UpdateHolds(t) ==
  /\ goal[t] \in CommitIds /\ goal[t] <= main
  /\ path[t] \in DOMAIN Tree(goal[t])
  /\ t \in Tree(goal[t])[path[t]].applied
  /\ \A c \in CommitIds : CarriedTo(t, c)

\* And the update that u is about to commit has it too.
DraftCarries(t, u) ==
  path[t][2] = path[u][2] /\ KeptTo(t, Len(commits)) =>
    \A q \in DOMAIN files[u].put : t \in files[u].put[q].applied

UpdateInv ==
  /\ \A t \in Tasks : phase[t] = "written" => Unseen(t)
  /\ \A t \in Tasks : Updating(t) => UpdateHolds(t)
  /\ \A t, u \in Tasks : Updating(t) /\ Leaf(u) /\ at[u] = 5 => DraftCarries(t, u)

AloneInv == Alone => GroupInv /\ UpdateInv
TracedInv == RouteInv /\ CommitInv /\ LinkInv /\ AloneInv

-----------------------------------------------------------------------------
(* Calls, routes and links.                                                *)

\* The largest of a set of numbers with a bound is one of them.
LEMMA TopOfBounded ==
  ASSUME NEW N \in Nat, NEW S \in SUBSET (0..N), S # {}
  PROVE  Max(S) \in S /\ \A n \in S : n <= Max(S)
<1> DEFINE T == {n \in Nat : \A s \in S : s <= n}
           R == OpToRel(<, Nat)
<1>1. IsWellFoundedOn(R, Nat)
  BY NatLessThanWellFounded
<1>2. T \subseteq Nat /\ N \in T
  OBVIOUS
<1>3. PICK x \in T : \A y \in T : ~(<<y, x>> \in R)
  <2> HIDE DEF T, R
  <2> QED
    BY <1>1, <1>2, WFMin
<1>4. \A y \in T : ~(y < x)
  <2>1. \A y \in Nat : y < x => <<y, x>> \in R
    BY DEF OpToRel
  <2> QED
    BY <1>2, <1>3, <2>1
<1>5. x \in S
  <2> SUFFICES ASSUME x \notin S PROVE FALSE
    OBVIOUS
  <2>1. PICK s \in S : TRUE
    OBVIOUS
  <2>2. x > 0 /\ x - 1 \in T
    BY <2>1
  <2> QED
    BY <1>4, <2>2
<1>6. \E m \in S : \A n \in S : m >= n
  BY <1>5
<1> QED
  BY <1>6 DEF Max

\* What the arguments of a call are.
IsCall(c) ==
  /\ c.op \in {"add", "supersede", "update", "rename", "delete", "pull"}
  /\ c.kind \in Kinds
  /\ c.op # "pull" => c.slug \in Slugs
  /\ c.op \in {"add", "supersede"} => c.status \in Statuses
  /\ c.op \in {"supersede", "rename"} => c.to \in Slugs
  /\ c.op \in {"supersede", "rename", "delete"} => c.kind # "milestone"
  /\ c.op = "update" => /\ c.status \in Statuses \union {"keep"}
                        /\ c.link \in (Ids \ Tasks) \union {NoId}
  /\ c.op = "update" /\ c.kind = "milestone" => c.status = "keep" /\ c.link = NoId

\* The calls that may be asked for have the arguments their operation takes.
LEMMA CallsAreCalls == \A c \in Calls : IsCall(c)
<1>1. ASSUME NEW k \in {"feature", "issue"}, NEW c \in TicketCalls(k)
      PROVE  IsCall(c)
  <2>1. CASE \E s \in Slugs, old \in Slugs \union {NoSlug}, st \in Statuses : c = AddCall(k, s, old, st)
    BY <2>1, IdsAssumption DEF AddCall, Kinds, IsCall
  <2>2. CASE \E s \in Slugs, st \in Statuses \union {"keep"}, l \in (Ids \ Tasks) \union {NoId} :
               c = UpdateCall(k, s, st, l)
    BY <2>2 DEF UpdateCall, Kinds, IsCall
  <2>3. CASE \E s, to \in Slugs : c = RenameCall(k, s, to)
    BY <2>3 DEF RenameCall, Kinds, IsCall
  <2>4. CASE \E s \in Slugs : c = DeleteCall(k, s)
    BY <2>4 DEF DeleteCall, Kinds, IsCall
  <2> QED
    BY <1>1, <2>1, <2>2, <2>3, <2>4 DEF TicketCalls
<1>2. ASSUME NEW c \in MilestoneCalls
      PROVE  IsCall(c)
  BY <1>2 DEF MilestoneCalls, AddCall, UpdateCall, Kinds, Statuses, IsCall
<1>3. IsCall(PullCall)
  BY DEF PullCall, Kinds, IsCall
<1> QED
  BY <1>1, <1>2, <1>3 DEF Calls

\* So has the call of every task.
LEMMA CallShape ==
  ASSUME TrackerTypeOK, NEW t \in Tasks
  PROVE  IsCall(call[t])
BY CallsAreCalls DEF TrackerTypeOK

\* Every call is one of the three.
LEMMA CallsAreOfAKind ==
  ASSUME TrackerTypeOK, NEW t \in Tasks
  PROVE  /\ Grouped(t) \/ Leaf(t) \/ Pull(t)
         /\ ~(Grouped(t) /\ Leaf(t)) /\ ~(Grouped(t) /\ Pull(t)) /\ ~(Leaf(t) /\ Pull(t))
BY CallShape DEF IsCall, Grouped, Leaf, Pull

\* Where the steps of a route are.
LEMMA StepsOfRoutes ==
  ASSUME TrackerTypeOK, NEW t \in Tasks
  PROVE  /\ End(t) \in 1..7
         /\ call[t].op = "add" => End(t) = 4
         /\ call[t].op = "supersede" => End(t) = 7
         /\ call[t].op = "rename" => End(t) = 5
         /\ Leaf(t) => End(t) = 6
         /\ Pull(t) => End(t) = 1
         /\ In(t, "lock") => Grouped(t) /\ at[t] = 1
         /\ In(t, "ancestors") => Leaf(t) /\ at[t] = 1
         /\ In(t, "resolve") => Leaf(t) /\ at[t] = 2
         /\ In(t, "leaf") => Leaf(t) /\ at[t] = 3
         /\ In(t, "unlock") => ~Pull(t) /\ at[t] = End(t)
         /\ In(t, "target") => call[t].op = "supersede" /\ at[t] = 2
         /\ In(t, "mint") => \/ call[t].op = "add" /\ at[t] = 2
                             \/ call[t].op = "supersede" /\ at[t] = 3
         /\ In(t, "backlink") => call[t].op = "supersede" /\ at[t] = 5
         /\ In(t, "compose") => call[t].op = "update" /\ at[t] = 4
         /\ In(t, "remove") => call[t].op = "delete" /\ at[t] = 4
         /\ In(t, "plan") => call[t].op = "rename" /\ at[t] = 2
         /\ In(t, "list") => call[t].op = "rename" /\ at[t] = 4
         /\ In(t, "commit") => Committing(t)
         /\ In(t, "forward") => Pull(t) /\ at[t] = 1
         /\ Committing(t) => /\ ~Pull(t) /\ 1 < at[t] /\ at[t] < End(t)
                             /\ LastCommit(t) <=> /\ call[t].op # "rename"
                                                  /\ call[t].op = "supersede" => at[t] = 6
<1>1. call[t].op \in {"add", "supersede", "update", "rename", "delete", "pull"}
  BY CallShape DEF IsCall
<1>2. at[t] \in 1..8
  BY DEF TrackerTypeOK
<1>3. CASE call[t].op = "add"
  <2>1. Steps(t) = <<"lock", "mint", "commit", "unlock">>
    BY <1>3 DEF Steps, Route
  <2>2. /\ Len(Steps(t)) = 4 /\ DOMAIN Steps(t) = 1..4
        /\ Steps(t)[1] = "lock" /\ Steps(t)[2] = "mint" /\ Steps(t)[3] = "commit"
        /\ Steps(t)[4] = "unlock"
    BY <2>1
  <2> QED
    BY <1>2, <1>3, <2>2 DEF End, In, Grouped, Leaf, Pull, Committing, LastCommit
<1>4. CASE call[t].op = "supersede"
  <2>1. Steps(t) = <<"lock", "target", "mint", "commit", "backlink", "commit", "unlock">>
    BY <1>4 DEF Steps, Route
  <2>2. /\ Len(Steps(t)) = 7 /\ DOMAIN Steps(t) = 1..7
        /\ Steps(t)[1] = "lock" /\ Steps(t)[2] = "target" /\ Steps(t)[3] = "mint"
        /\ Steps(t)[4] = "commit" /\ Steps(t)[5] = "backlink" /\ Steps(t)[6] = "commit"
        /\ Steps(t)[7] = "unlock"
    BY <2>1
  <2> QED
    BY <1>2, <1>4, <2>2 DEF End, In, Grouped, Leaf, Pull, Committing, LastCommit
<1>5. CASE call[t].op = "update"
  <2>1. Steps(t) = <<"ancestors", "resolve", "leaf", "compose", "commit", "unlock">>
    BY <1>5 DEF Steps, Route
  <2>2. /\ Len(Steps(t)) = 6 /\ DOMAIN Steps(t) = 1..6
        /\ Steps(t)[1] = "ancestors" /\ Steps(t)[2] = "resolve" /\ Steps(t)[3] = "leaf"
        /\ Steps(t)[4] = "compose" /\ Steps(t)[5] = "commit" /\ Steps(t)[6] = "unlock"
    BY <2>1
  <2> QED
    BY <1>2, <1>5, <2>2 DEF End, In, Grouped, Leaf, Pull, Committing, LastCommit
<1>6. CASE call[t].op = "rename"
  <2>1. Steps(t) = <<"lock", "plan", "commit", "list", "unlock">>
    BY <1>6 DEF Steps, Route
  <2>2. /\ Len(Steps(t)) = 5 /\ DOMAIN Steps(t) = 1..5
        /\ Steps(t)[1] = "lock" /\ Steps(t)[2] = "plan" /\ Steps(t)[3] = "commit"
        /\ Steps(t)[4] = "list" /\ Steps(t)[5] = "unlock"
    BY <2>1
  <2> QED
    BY <1>2, <1>6, <2>2 DEF End, In, Grouped, Leaf, Pull, Committing, LastCommit
<1>7. CASE call[t].op = "delete"
  <2>1. Steps(t) = <<"ancestors", "resolve", "leaf", "remove", "commit", "unlock">>
    BY <1>7 DEF Steps, Route
  <2>2. /\ Len(Steps(t)) = 6 /\ DOMAIN Steps(t) = 1..6
        /\ Steps(t)[1] = "ancestors" /\ Steps(t)[2] = "resolve" /\ Steps(t)[3] = "leaf"
        /\ Steps(t)[4] = "remove" /\ Steps(t)[5] = "commit" /\ Steps(t)[6] = "unlock"
    BY <2>1
  <2> QED
    BY <1>2, <1>7, <2>2 DEF End, In, Grouped, Leaf, Pull, Committing, LastCommit
<1>8. CASE call[t].op = "pull"
  <2>1. Steps(t) = <<"forward">>
    BY <1>8 DEF Steps, Route
  <2>2. Len(Steps(t)) = 1 /\ DOMAIN Steps(t) = 1..1 /\ Steps(t)[1] = "forward"
    BY <2>1
  <2> QED
    BY <1>2, <1>8, <2>2 DEF End, In, Grouped, Leaf, Pull, Committing, LastCommit
<1> QED
  BY <1>1, <1>3, <1>4, <1>5, <1>6, <1>7, <1>8

\* The links calls take exist, and the exclusive one conflicts with all of them.
LEMMA LinksOfCalls ==
  ASSUME NEW t \in Tasks
  PROVE  /\ GroupLinks = {L!Shared(L!ProcessScope), L!Exclusive(L!GroupScope(Group))}
         /\ GroupLinks \subseteq L!Links /\ AncestorLinks \subseteq L!Links
         /\ path[t] \in Paths => LeafLink(t) \in L!Links
<1>1. GroupLinks = {L!Shared(L!ProcessScope), L!Exclusive(L!GroupScope(Group))}
  BY DEF GroupLinks, L!LinkSet, L!ExclusiveGroupChain, L!Shared, L!Exclusive
<1>2. path[t] \in Paths => path[t][2] \in Ids
  BY TicketPathsAssumption
<1> QED
  BY <1>1, <1>2 DEF AncestorLinks, LeafLink, L!Links, L!Scopes, L!Modes, L!Shared, L!Exclusive

\* Two calls between their locks are an update or a delete each; past their
\* leaf locks, of two tickets.
LEMMA LockedTogether ==
  ASSUME RouteInv, NEW t \in Tasks, NEW u \in Tasks, t # u, Locked(t), Locked(u)
  PROVE  /\ Leaf(t) /\ Leaf(u)
         /\ 3 < at[t] /\ at[t] < End(t) /\ 3 < at[u] /\ at[u] < End(u) => path[t][2] # path[u][2]
<1>1. \A l \in held[t], k \in held[u] : ~L!Conflict(l, k)
  BY DEF RouteInv, L!NoConflictingGuards
<1> DEFINE S == L!Shared(L!GroupScope(Group))
           X == L!Exclusive(L!GroupScope(Group))
<1>2. \A v \in Tasks : Locked(v) => Grouped(v) \/ Leaf(v)
  BY CallsAreOfAKind DEF RouteInv, Locked
<1>3. \A v \in Tasks : Locked(v) => /\ Grouped(v) => X \in held[v]
                                    /\ Leaf(v) => S \in held[v]
  BY LinksOfCalls DEF RouteInv, RouteFollows, LinksFollow, AncestorLinks
<1>4. \A v \in Tasks : Leaf(v) /\ Locked(v) /\ 3 < at[v] /\ at[v] < End(v) => LeafLink(v) \in held[v]
  BY DEF RouteInv, RouteFollows, LinksFollow
<1>5. /\ L!Conflict(X, S) /\ L!Conflict(S, X) /\ L!Conflict(X, X)
      /\ path[t][2] = path[u][2] => L!Conflict(LeafLink(t), LeafLink(u))
  BY DEF L!Conflict, L!Shared, L!Exclusive, LeafLink
<1> QED
  BY <1>1, <1>2, <1>3, <1>4, <1>5

-----------------------------------------------------------------------------
(* One call takes a step.                                                  *)

\* A call is what it was: so is its route.
LEMMA SameCall ==
  ASSUME call' = call, NEW t \in Tasks
  PROVE  /\ End(t)' = End(t) /\ Steps(t)' = Steps(t)
         /\ Grouped(t)' = Grouped(t) /\ Leaf(t)' = Leaf(t) /\ Pull(t)' = Pull(t)
         /\ at'[t] = at[t] => Committing(t)' = Committing(t) /\ Locked(t)' = Locked(t)
         /\ path'[t] = path[t] => LeafLink(t)' = LeafLink(t)
BY DEF End, Steps, Grouped, Leaf, Pull, Committing, Locked, LeafLink

\* The calls that do not move still follow their routes.
LEMMA OthersFollow ==
  ASSUME NEW u \in Tasks, RouteFollows(u), call' = call,
         at'[u] = at[u], held'[u] = held[u], path'[u] = path[u],
         phase'[u] = phase[u], result'[u] = result[u]
  PROVE  RouteFollows(u)'
<1>1. LinksFollow(u)'
  BY SameCall DEF RouteFollows, LinksFollow, GroupLinks, AncestorLinks
<1>2. PathFollows(u)' /\ BackendFollows(u)' /\ ResultFollows(u)'
  BY SameCall DEF RouteFollows, PathFollows, BackendFollows, ResultFollows
<1> QED
  BY <1>1, <1>2, SameCall DEF RouteFollows

\* So a step of t is good when t still follows its route after it and its guards
\* conflict with nobody's.
LEMMA OneCallSteps ==
  ASSUME RouteInv, NEW t \in Tasks, call' = call,
         TrackerTypeOK', RouteFollows(t)', L!NoConflictingGuards',
         \A u \in Tasks \ {t} :
           /\ at'[u] = at[u] /\ held'[u] = held[u] /\ path'[u] = path[u]
           /\ phase'[u] = phase[u] /\ result'[u] = result[u]
  PROVE  RouteInv'
<1>1. ASSUME NEW u \in Tasks \ {t}
      PROVE  RouteFollows(u)'
  BY <1>1, OthersFollow DEF RouteInv
<1> QED
  BY <1>1 DEF RouteInv

\* What Advance does to the place and the result of t.
LEMMA AdvanceByOne ==
  ASSUME TrackerTypeOK, NEW t \in Tasks, at[t] <= End(t), Advance(t)
  PROVE  /\ at' \in [Tasks -> 1..8]
         /\ at'[t] = at[t] + 1
         /\ \A u \in Tasks \ {t} : at'[u] = at[u]
         /\ result' = result
<1>1. End(t) \in 1..7 /\ at[t] \in 1..8
  BY StepsOfRoutes DEF TrackerTypeOK
<1> QED
  BY <1>1 DEF Advance, TrackerTypeOK

\* What Reply does to them.
LEMMA ReplyAtEnd ==
  ASSUME TrackerTypeOK, NEW t \in Tasks, NEW r \in Results, Reply(t, r)
  PROVE  /\ at' \in [Tasks -> 1..8]
         /\ at'[t] = IF held[t] = {} THEN End(t) + 1 ELSE End(t)
         /\ result' \in [Tasks -> Results]
         /\ result'[t] = r
         /\ \A u \in Tasks \ {t} : at'[u] = at[u] /\ result'[u] = result[u]
<1>1. End(t) \in 1..7
  BY StepsOfRoutes
<1>2. /\ at' = [at EXCEPT ![t] = IF held[t] = {} THEN End(t) + 1 ELSE End(t)]
      /\ result' = [result EXCEPT ![t] = r]
  BY DEF Reply, End
<1> QED
  BY <1>1, <1>2 DEF TrackerTypeOK

\* A call has guards exactly between its locks.
LEMMA LockedHolds ==
  ASSUME RouteInv, NEW t \in Tasks
  PROVE  held[t] = {} <=> ~Locked(t)
<1>1. Locked(t) => Grouped(t) \/ Leaf(t)
  BY CallsAreOfAKind DEF RouteInv, Locked
<1>2. GroupLinks # {} /\ AncestorLinks # {}
  BY LinksOfCalls DEF AncestorLinks
<1> QED
  BY <1>1, <1>2 DEF RouteInv, RouteFollows, LinksFollow

\* Taking links: those that are granted conflict with none that were had.
LEMMA TakeKeepsRoute ==
  ASSUME RouteInv, NEW t \in Tasks, NEW links \in SUBSET L!Links,
         L!Acquire(t, links), Advance(t), UNCHANGED <<phase, call, path, files>>,
         ~Pull(t), ~Committing(t), at[t] <= 3,
         at[t] = 1 => (Grouped(t) => links = GroupLinks) /\ (Leaf(t) => links = AncestorLinks),
         at[t] # 1 => Leaf(t) /\ at[t] = 3 /\ links = {LeafLink(t)}
  PROVE  RouteInv'
<1>1. /\ call' = call /\ path' = path /\ phase' = phase /\ files' = files
      /\ held' = [held EXCEPT ![t] = held[t] \union links]
      /\ L!Grantable(t, links)
  BY DEF L!Acquire
<1>2. /\ at[t] \in 1..8 /\ End(t) \in 4..7 /\ (Leaf(t) => End(t) = 6)
      /\ Grouped(t) \/ Leaf(t)
  BY StepsOfRoutes, CallsAreOfAKind, CallShape DEF RouteInv, TrackerTypeOK, IsCall, Grouped
<1>3. /\ at' \in [Tasks -> 1..8] /\ at'[t] = at[t] + 1 /\ result' = result
      /\ \A u \in Tasks \ {t} : at'[u] = at[u]
  BY <1>2, AdvanceByOne DEF RouteInv
<1>4. RouteFollows(t)
  BY DEF RouteInv
<1>5. /\ held' \in [Tasks -> SUBSET L!Links] /\ held'[t] = held[t] \union links
      /\ \A u \in Tasks \ {t} : held'[u] = held[u]
  BY <1>1 DEF RouteInv, TrackerTypeOK
<1>6. TrackerTypeOK'
  BY <1>1, <1>3, <1>5 DEF RouteInv, TrackerTypeOK
<1>7. LinksFollow(t)'
  <2>1. CASE at[t] = 1
    <3>1. held[t] = {}
      BY <2>1, LockedHolds DEF Locked
    <3> QED
      BY <1>1, <1>2, <1>3, <1>5, <2>1, <3>1, SameCall
         DEF LinksFollow, Locked, GroupLinks, AncestorLinks
  <2>2. CASE at[t] # 1
    <3>1. held[t] = AncestorLinks /\ Locked(t) /\ at[t] = 3
      BY <1>2, <1>4, <2>2 DEF RouteFollows, LinksFollow, Locked
    <3> QED
      BY <1>1, <1>2, <1>3, <1>5, <2>2, <3>1, SameCall, CallsAreOfAKind
         DEF LinksFollow, Locked, GroupLinks, AncestorLinks, RouteInv
  <2> QED
    BY <2>1, <2>2
<1>8. PathFollows(t)'
  BY <1>1, <1>2, <1>3, <1>4, SameCall, CallsAreOfAKind
     DEF RouteFollows, PathFollows, RouteInv, Grouped
<1>9. BackendFollows(t)' /\ ResultFollows(t)' /\ (at[t] <= End(t) + 1)'
  BY <1>1, <1>2, <1>3, <1>4, SameCall DEF RouteFollows, BackendFollows, ResultFollows
<1>10. L!NoConflictingGuards'
  BY <1>1, <1>5 DEF RouteInv, L!NoConflictingGuards, L!Grantable, L!Conflict
<1> QED
  BY <1>1, <1>3, <1>5, <1>6, <1>7, <1>8, <1>9, <1>10, OneCallSteps DEF RouteFollows

\* The three steps that lock, by TakeKeepsRoute.
LEMMA LocksKeepRoute ==
  ASSUME RouteInv, NEW t \in Tasks, LockGroup(t) \/ LockAncestors(t) \/ LockLeaf(t)
  PROVE  RouteInv'
<1>1. \A step \in {"lock", "ancestors", "leaf"} : In(t, step) => ~Committing(t)
  BY StepsOfRoutes DEF RouteInv, Committing, Grouped, Leaf
<1>2. CASE LockGroup(t)
  <2>1. Grouped(t) /\ at[t] = 1 /\ ~Leaf(t) /\ ~Pull(t) /\ ~Committing(t)
    BY <1>1, <1>2, StepsOfRoutes, CallsAreOfAKind DEF LockGroup, LockLinks, RouteInv
  <2>2. /\ L!Acquire(t, GroupLinks) /\ Advance(t) /\ UNCHANGED <<phase, call, path, files>>
    BY <1>2 DEF LockGroup, LockLinks, GroupLinks, repoVars
  <2> QED
    BY <2>1, <2>2, LinksOfCalls, TakeKeepsRoute
<1>3. CASE LockAncestors(t)
  <2>1. Leaf(t) /\ at[t] = 1 /\ ~Grouped(t) /\ ~Pull(t) /\ ~Committing(t)
    BY <1>1, <1>3, StepsOfRoutes, CallsAreOfAKind DEF LockAncestors, LockLinks, RouteInv
  <2>2. /\ L!Acquire(t, AncestorLinks) /\ Advance(t) /\ UNCHANGED <<phase, call, path, files>>
    BY <1>3 DEF LockAncestors, LockLinks, AncestorLinks, repoVars
  <2> QED
    BY <2>1, <2>2, LinksOfCalls, TakeKeepsRoute
<1>4. CASE LockLeaf(t)
  <2>1. Leaf(t) /\ at[t] = 3 /\ ~Grouped(t) /\ ~Pull(t) /\ ~Committing(t) /\ End(t) = 6
    BY <1>1, <1>4, StepsOfRoutes, CallsAreOfAKind DEF LockLeaf, LockLinks, RouteInv
  <2>2. /\ L!Acquire(t, {LeafLink(t)}) /\ Advance(t) /\ UNCHANGED <<phase, call, path, files>>
    BY <1>4 DEF LockLeaf, LockLinks, LeafLink, repoVars
  <2>3. LeafLink(t) \in L!Links
    BY <2>1, LinksOfCalls DEF RouteInv, RouteFollows, PathFollows
  <2> QED
    BY <2>1, <2>2, <2>3, TakeKeepsRoute
<1> QED
  BY <1>2, <1>3, <1>4

\* Giving the links back.
LEMMA UnlockKeepsRoute ==
  ASSUME RouteInv, NEW t \in Tasks, Unlock(t)
  PROVE  RouteInv'
<1>1. /\ ~Pull(t) /\ at[t] = End(t) /\ call' = call /\ path' = path /\ phase' = phase
      /\ files' = files
      /\ held' = [held EXCEPT ![t] = held[t] \ held[t]]
  BY StepsOfRoutes DEF Unlock, RouteInv, L!Release, repoVars
<1>2. End(t) \in 1..7 /\ ~Committing(t)
  BY <1>1, StepsOfRoutes DEF RouteInv
<1>3. /\ at' \in [Tasks -> 1..8] /\ at'[t] = at[t] + 1 /\ result' = result
      /\ \A u \in Tasks \ {t} : at'[u] = at[u]
  BY <1>1, <1>2, AdvanceByOne DEF Unlock, RouteInv
<1>4. RouteFollows(t)
  BY DEF RouteInv
<1>5. /\ held' \in [Tasks -> SUBSET L!Links] /\ held'[t] = {}
      /\ \A u \in Tasks \ {t} : held'[u] = held[u]
  BY <1>1 DEF RouteInv, TrackerTypeOK
<1>6. TrackerTypeOK'
  BY <1>1, <1>3, <1>5 DEF RouteInv, TrackerTypeOK
<1>7. RouteFollows(t)'
  BY <1>1, <1>2, <1>3, <1>4, <1>5, SameCall
     DEF RouteFollows, LinksFollow, PathFollows, BackendFollows, ResultFollows, Locked
<1>8. L!NoConflictingGuards'
  BY <1>5 DEF RouteInv, L!NoConflictingGuards
<1> QED
  BY <1>1, <1>3, <1>5, <1>6, <1>7, <1>8, OneCallSteps

\* A look at the repository under the locks: the call goes on, with its file where
\* it needs one, or ends.  A rename to the same slug skips its commit.
LEMMA LookKeepsRoute ==
  ASSUME RouteInv, NEW t \in Tasks, UNCHANGED <<held, call, phase>>,
         Locked(t), ~Committing(t), at[t] < End(t), Leaf(t) => at[t] # 3,
         files' \in [Tasks -> Edits],
         path' \in [Tasks -> Paths \union {NoPath}],
         \A u \in Tasks \ {t} : path'[u] = path[u],
         at[t] > 2 => path'[t] = path[t],
         \/ Advance(t) /\ (at[t] = 2 /\ call[t].op \in {"supersede", "update", "delete"} => path'[t] \in Paths)
         \/ \E r \in Results : Reply(t, r)
         \/ /\ call[t].op = "rename" /\ at[t] = 2
            /\ at' = [at EXCEPT ![t] = @ + 2] /\ result' = result
  PROVE  RouteInv'
<1>1. /\ at[t] \in 1..8 /\ End(t) \in 4..7 /\ 1 < at[t]
      /\ Leaf(t) => End(t) = 6
      /\ call[t].op = "rename" => End(t) = 5
      /\ Grouped(t) \/ Leaf(t)
  BY StepsOfRoutes, CallsAreOfAKind DEF RouteInv, TrackerTypeOK, Grouped, Locked
<1>2. RouteFollows(t)
  BY DEF RouteInv
<1>3. held' = held /\ call' = call /\ phase' = phase /\ held[t] # {}
  BY LockedHolds
<1>4. \/ at'[t] = at[t] + 1 /\ result'[t] = result[t]
         /\ (at[t] = 2 /\ call[t].op \in {"supersede", "update", "delete"} => path'[t] \in Paths)
      \/ at'[t] = End(t)
      \/ call[t].op = "rename" /\ at[t] = 2 /\ at'[t] = 4 /\ result'[t] = result[t]
  <2>1. CASE Advance(t) /\ (at[t] = 2 /\ call[t].op \in {"supersede", "update", "delete"} => path'[t] \in Paths)
    BY <1>1, <2>1, AdvanceByOne DEF RouteInv
  <2>2. CASE \E r \in Results : Reply(t, r)
    BY <1>1, <1>3, <2>2, ReplyAtEnd DEF RouteInv
  <2>3. CASE /\ call[t].op = "rename" /\ at[t] = 2
             /\ at' = [at EXCEPT ![t] = @ + 2] /\ result' = result
    BY <2>3 DEF RouteInv, TrackerTypeOK
  <2> QED
    BY <2>1, <2>2, <2>3
<1>5. /\ at' \in [Tasks -> 1..8] /\ result' \in [Tasks -> Results]
      /\ \A u \in Tasks \ {t} : at'[u] = at[u] /\ result'[u] = result[u]
  <2>1. CASE Advance(t)
    BY <1>1, <2>1, AdvanceByOne DEF RouteInv, TrackerTypeOK
  <2>2. CASE \E r \in Results : Reply(t, r)
    BY <2>2, ReplyAtEnd DEF RouteInv
  <2>3. CASE /\ call[t].op = "rename" /\ at[t] = 2
             /\ at' = [at EXCEPT ![t] = @ + 2] /\ result' = result
    BY <2>3 DEF RouteInv, TrackerTypeOK
  <2> QED
    BY <2>1, <2>2, <2>3
<1>6. TrackerTypeOK'
  BY <1>3, <1>5 DEF RouteInv, TrackerTypeOK
<1>7. LinksFollow(t)'
  <2>1. CASE Grouped(t)
    <3>1. held[t] = GroupLinks /\ ~Leaf(t) /\ ~Pull(t)
      BY <1>2, <2>1, CallsAreOfAKind DEF RouteInv, RouteFollows, LinksFollow
    <3> QED
      BY <1>1, <1>3, <1>4, <2>1, <3>1, SameCall DEF LinksFollow, Locked, GroupLinks
  <2>2. CASE Leaf(t)
    <3>1. ~Grouped(t) /\ ~Pull(t) /\ AncestorLinks \subseteq held[t] /\ call[t].op # "rename"
      BY <1>2, <2>2, CallsAreOfAKind DEF RouteInv, RouteFollows, LinksFollow, Leaf
    <3>2. CASE at[t] = 2
      <4>1. held[t] = AncestorLinks
        BY <1>2, <2>2, <3>2 DEF RouteFollows, LinksFollow
      <4> QED
        BY <1>1, <1>3, <1>4, <2>2, <3>1, <3>2, <4>1, SameCall DEF LinksFollow, Locked, AncestorLinks
    <3>3. CASE at[t] # 2
      <4>1. at[t] > 3 /\ held[t] = AncestorLinks \union {LeafLink(t)} /\ path'[t] = path[t]
        BY <1>1, <1>2, <2>2, <3>3 DEF RouteFollows, LinksFollow
      <4> QED
        BY <1>1, <1>3, <1>4, <2>2, <3>1, <3>3, <4>1, SameCall DEF LinksFollow, Locked, AncestorLinks
    <3> QED
      BY <3>2, <3>3
  <2> QED
    BY <1>1, <2>1, <2>2
<1>8. PathFollows(t)'
  <2>1. call[t].op = "rename" => ~Leaf(t)
    BY DEF Leaf
  <2> QED
    BY <1>1, <1>2, <1>3, <1>4, <2>1, SameCall DEF RouteFollows, PathFollows, Leaf
<1>9. BackendFollows(t)' /\ ResultFollows(t)' /\ (at[t] <= End(t) + 1)'
  BY <1>1, <1>2, <1>3, <1>4, SameCall DEF RouteFollows, BackendFollows, ResultFollows, Locked
<1>10. L!NoConflictingGuards'
  BY <1>3 DEF RouteInv, L!NoConflictingGuards
<1> QED
  BY <1>3, <1>5, <1>6, <1>7, <1>8, <1>9, <1>10, OneCallSteps DEF RouteFollows

\* A step inside the backend call of t.
LEMMA BackendKeepsRoute ==
  ASSUME RouteInv, NEW t \in Tasks, UNCHANGED trackerVars, BackendFollows(t)',
         \A u \in Tasks \ {t} : phase'[u] = phase[u]
  PROVE  RouteInv'
<1>1. /\ held' = held /\ call' = call /\ at' = at /\ path' = path /\ files' = files
      /\ result' = result
  BY DEF trackerVars
<1>2. TrackerTypeOK' /\ L!NoConflictingGuards'
  BY <1>1 DEF RouteInv, TrackerTypeOK, L!NoConflictingGuards
<1>3. RouteFollows(t)
  BY DEF RouteInv
<1>4. LinksFollow(t)'
  BY <1>1, <1>3, SameCall DEF RouteFollows, LinksFollow, GroupLinks, AncestorLinks
<1>5. PathFollows(t)' /\ ResultFollows(t)' /\ (at[t] <= End(t) + 1)'
  BY <1>1, <1>3, SameCall DEF RouteFollows, PathFollows, ResultFollows
<1> QED
  BY <1>1, <1>2, <1>4, <1>5, OneCallSteps DEF RouteFollows

\* The backend call of t returns; t goes on to its next step, or ends.
LEMMA EndKeepsRoute ==
  ASSUME RouteInv, NEW t \in Tasks, UNCHANGED <<held, call, path, files>>,
         phase'[t] = "none", \A u \in Tasks \ {t} : phase'[u] = phase[u],
         \/ (Committing(t) \/ (Pull(t) /\ at[t] = 1)) /\ \E r \in Results : Reply(t, r)
         \/ Committing(t) /\ ~LastCommit(t) /\ Advance(t)
  PROVE  RouteInv'
<1>1. /\ at[t] \in 1..8 /\ End(t) \in 1..7
      /\ Committing(t) => ~Pull(t) /\ 1 < at[t] /\ at[t] < End(t)
      /\ Pull(t) => End(t) = 1
      /\ Committing(t) /\ Leaf(t) => LastCommit(t)
  BY StepsOfRoutes DEF RouteInv, TrackerTypeOK, Leaf
<1>2. RouteFollows(t) /\ (held[t] = {} <=> ~Locked(t))
  BY LockedHolds DEF RouteInv
<1>3. held' = held /\ call' = call /\ path' = path /\ files' = files
  OBVIOUS
<1>4. /\ \/ Pull(t) /\ ~Locked(t) /\ at'[t] = 2
         \/ ~Pull(t) /\ Locked(t) /\ 1 < at[t] /\ at[t] < End(t) /\ at'[t] = End(t)
         \/ ~Pull(t) /\ Locked(t) /\ 1 < at[t] /\ at[t] < End(t) /\ at'[t] = at[t] + 1
            /\ ~Leaf(t) /\ result'[t] = result[t]
      /\ at' \in [Tasks -> 1..8] /\ result' \in [Tasks -> Results]
      /\ \A u \in Tasks \ {t} : at'[u] = at[u] /\ result'[u] = result[u]
  <2>1. CASE (Committing(t) \/ (Pull(t) /\ at[t] = 1)) /\ \E r \in Results : Reply(t, r)
    BY <1>1, <1>2, <2>1, ReplyAtEnd DEF RouteInv, Locked
  <2>2. CASE Committing(t) /\ ~LastCommit(t) /\ Advance(t)
    BY <1>1, <1>2, <2>2, AdvanceByOne DEF RouteInv, Locked, TrackerTypeOK
  <2> QED
    BY <2>1, <2>2
<1>5. TrackerTypeOK' /\ L!NoConflictingGuards'
  BY <1>3, <1>4 DEF RouteInv, TrackerTypeOK, L!NoConflictingGuards
<1>6. LinksFollow(t)'
  BY <1>1, <1>2, <1>3, <1>4, SameCall
     DEF RouteFollows, LinksFollow, Locked, GroupLinks, AncestorLinks
<1>7. PathFollows(t)'
  BY <1>1, <1>2, <1>3, <1>4, SameCall, CallsAreOfAKind
     DEF RouteFollows, PathFollows, Committing, RouteInv, Grouped, Leaf, Pull
<1>8. BackendFollows(t)' /\ ResultFollows(t)' /\ (at[t] <= End(t) + 1)'
  BY <1>1, <1>2, <1>3, <1>4, SameCall DEF RouteFollows, BackendFollows, ResultFollows
<1> QED
  BY <1>3, <1>4, <1>5, <1>6, <1>7, <1>8, OneCallSteps DEF RouteFollows

-----------------------------------------------------------------------------
(* What calls put in their CommitSpecs.                                    *)

\* A commit's files are at paths and hold tickets.
LEMMA TreesOfCommits ==
  ASSUME RepoShape, NEW c \in CommitIds
  PROVE  /\ DOMAIN Tree(c) \subseteq Paths
         /\ \A p \in DOMAIN Tree(c) : Tree(c)[p] \in Tickets
<1>1. commits[c] \in Commit
  BY DEF RepoShape, CommitIds
<1>2. Tree(c) \in Trees
  BY <1>1 DEF Commit, Tree
<1> QED
  BY <1>2, TicketsAssumption DEF Trees, TreesOver

\* The counter: no ticket of the commit has a larger number.
LEMMA TopIsLargest ==
  ASSUME RepoShape, NEW c \in CommitIds
  PROVE  /\ TopNumber(c) \in 0..MaxNumber
         /\ \A p \in DOMAIN Tree(c) : Tree(c)[p].number <= TopNumber(c)
<1> DEFINE S == {0} \union {Tree(c)[p].number : p \in DOMAIN Tree(c)}
<1>1. MaxNumber \in Nat
  BY MaxNumberAssumption
<1>2. \A p \in DOMAIN Tree(c) : Tree(c)[p].number \in 0..MaxNumber
  BY TreesOfCommits DEF Tickets
<1>3. S \in SUBSET (0..MaxNumber) /\ S # {}
  BY <1>1, <1>2
<1>4. Max(S) \in S /\ \A n \in S : n <= Max(S)
  BY <1>1, <1>3, TopOfBounded
<1>5. TopNumber(c) = Max(S)
  BY DEF TopNumber
<1> HIDE DEF S
<1>6. TopNumber(c) \in 0..MaxNumber
  BY <1>3, <1>4, <1>5
<1>7. \A p \in DOMAIN Tree(c) : Tree(c)[p].number \in S
  BY DEF S
<1> QED
  BY <1>4, <1>5, <1>6, <1>7

\* One ticket put somewhere, one file deleted.
LEMMA OnePutIsEdit ==
  ASSUME NEW q \in Paths, NEW x \in Tickets
  PROVE  [put |-> [p \in {q} |-> x], drop |-> {}] \in Edits
<1>1. [p \in {q} |-> x] \in [{q} -> Contents]
  BY TicketsAssumption
<1>2. [p \in {q} |-> x] \in Trees
  BY <1>1 DEF Trees, TreesOver
<1> QED
  BY <1>2 DEF Edits, EditsOver, Trees

\* A spec that only deletes a file is an edit.
LEMMA DropIsEdit ==
  ASSUME NEW D \in SUBSET Paths
  PROVE  [put |-> [p \in {} |-> {}], drop |-> D] \in Edits
<1>1. [p \in {} |-> {}] \in [{} -> Contents]
  OBVIOUS
<1>2. [p \in {} |-> {}] \in Trees
  BY <1>1 DEF Trees, TreesOver
<1> QED
  BY <1>2 DEF Edits, EditsOver, Trees

\* What add, update and the back link make are tickets.
LEMMA MadeTickets ==
  ASSUME TrackerTypeOK, NEW t \in Tasks
  PROVE  /\ \A n \in 0..MaxNumber : call[t].op \in {"add", "supersede"} => NewTicket(t, n) \in Tickets
         /\ \A x \in Tickets : call[t].op = "update" => Updated(t, x) \in Tickets
         /\ \A x \in Tickets : [x EXCEPT !.status = "superseded", !.successor = t] \in Tickets
<1>1. IsCall(call[t]) /\ t \in Ids
  BY CallShape, IdsAssumption
<1> USE DEF Tickets
<1>2. ASSUME NEW n \in 0..MaxNumber, call[t].op \in {"add", "supersede"}
      PROVE  NewTicket(t, n) \in Tickets
  BY <1>1, <1>2 DEF IsCall, NewTicket
<1>3. ASSUME NEW x \in Tickets, call[t].op = "update"
      PROVE  Updated(t, x) \in Tickets
  BY <1>1, <1>3 DEF IsCall, Updated, Statuses
<1>4. ASSUME NEW x \in Tickets
      PROVE  [x EXCEPT !.status = "superseded", !.successor = t] \in Tickets
  BY <1>1, <1>4 DEF Statuses
<1> QED
  BY <1>2, <1>3, <1>4

\* The files of a slug.
LEMMA UnderIsPaths ==
  ASSUME RepoShape, NEW s
  PROVE  /\ Under(s) \subseteq DOMAIN Tip /\ Under(s) \subseteq Paths
         /\ \A p \in Under(s) : Tip[p] \in Tickets /\ p[1] = s
         /\ Unresolved(s) = "none" => /\ FileOf(s) \in Under(s)
                                      /\ Under(s) = {FileOf(s)}
<1>1. main \in CommitIds
  BY DEF RepoShape
<1>2. \A p \in DOMAIN Tip : p \in Paths /\ Tip[p] \in Tickets
  BY <1>1, TreesOfCommits DEF Tip
<1>3. Under(s) # {} => FileOf(s) \in Under(s)
  BY DEF FileOf
<1>4. Unresolved(s) = "none" => Under(s) # {} /\ Under(s) = {FileOf(s)}
  BY DEF Unresolved
<1> QED
  BY <1>2, <1>3, <1>4 DEF Under

\* Why a look fails is a reply of the tool.
LEMMA WhyIsResult ==
  /\ \A s : Unresolved(s) \in Results
  /\ \A s, k : Unreadable(s, k) \in Results
  /\ \A s, k : Unreadable(s, k) = "none" => Unresolved(s) = "none" /\ Tip[FileOf(s)].kind = k
  /\ \A s, k : Unmovable(s, k) \in Results
  /\ \A s : \A why \in MilestoneReads(s) : why \in Results
<1>1. \A s : Unresolved(s) \in Results
  BY DEF Unresolved, Results
<1>2. \A s, k : Unreadable(s, k) \in Results
  BY <1>1 DEF Unreadable, Results
<1>3. \A s, k : Unreadable(s, k) = "none" => Unresolved(s) = "none" /\ Tip[FileOf(s)].kind = k
  BY DEF Unreadable
<1>4. \A s, k : Unmovable(s, k) \in Results
  BY DEF Unmovable, Results
<1>5. \A s : \A why \in MilestoneReads(s) : why \in Results
  BY <1>2 DEF MilestoneReads, Results
<1> QED
  BY <1>1, <1>2, <1>3, <1>4, <1>5

-----------------------------------------------------------------------------
(* The looks, one by one.                                                  *)

\* A look is taken under the locks, and changes nothing but what its call knows.
Looks(t) ==
  \/ Resolve(t) \/ PickTarget(t) \/ Mint(t) \/ DraftMilestone(t) \/ BackLink(t)
  \/ Compose(t) \/ ComposeMilestone(t) \/ Remove(t) \/ Plan(t) \/ List(t)

\* A look is taken under the locks and outside the backend, each at its step.
LEMMA LooksAreLocked ==
  ASSUME RouteInv, NEW t \in Tasks, Looks(t)
  PROVE  /\ UNCHANGED <<repoVars, held, call>>
         /\ Locked(t) /\ ~Committing(t) /\ at[t] < End(t) /\ (Leaf(t) => at[t] # 3)
         /\ Resolve(t) => Leaf(t) /\ at[t] = 2
         /\ PickTarget(t) => call[t].op = "supersede" /\ at[t] = 2
         /\ Mint(t) \/ DraftMilestone(t) => \/ call[t].op = "add" /\ at[t] = 2
                                            \/ call[t].op = "supersede" /\ at[t] = 3
         /\ BackLink(t) => call[t].op = "supersede" /\ at[t] = 5
         /\ Compose(t) \/ ComposeMilestone(t) => call[t].op = "update" /\ at[t] = 4
         /\ Remove(t) => call[t].op = "delete" /\ at[t] = 4
         /\ Plan(t) => call[t].op = "rename" /\ at[t] = 2
         /\ List(t) => call[t].op = "rename" /\ at[t] = 4
<1>1. UNCHANGED <<repoVars, held, call>>
  BY DEF Looks, Resolve, PickTarget, Mint, DraftMilestone, BackLink, Compose, ComposeMilestone,
         Remove, Plan, List
<1>2. /\ Resolve(t) => In(t, "resolve")
      /\ PickTarget(t) => In(t, "target")
      /\ Mint(t) \/ DraftMilestone(t) => In(t, "mint")
      /\ BackLink(t) => In(t, "backlink")
      /\ Compose(t) \/ ComposeMilestone(t) => In(t, "compose")
      /\ Remove(t) => In(t, "remove")
      /\ Plan(t) => In(t, "plan")
      /\ List(t) => In(t, "list")
  BY DEF Resolve, PickTarget, Mint, DraftMilestone, BackLink, Compose, ComposeMilestone,
         Remove, Plan, List
<1>3. /\ Resolve(t) => Leaf(t) /\ at[t] = 2
      /\ PickTarget(t) => call[t].op = "supersede" /\ at[t] = 2
      /\ Mint(t) \/ DraftMilestone(t) => \/ call[t].op = "add" /\ at[t] = 2
                                         \/ call[t].op = "supersede" /\ at[t] = 3
      /\ BackLink(t) => call[t].op = "supersede" /\ at[t] = 5
      /\ Compose(t) \/ ComposeMilestone(t) => call[t].op = "update" /\ at[t] = 4
      /\ Remove(t) => call[t].op = "delete" /\ at[t] = 4
      /\ Plan(t) => call[t].op = "rename" /\ at[t] = 2
      /\ List(t) => call[t].op = "rename" /\ at[t] = 4
  BY <1>2, StepsOfRoutes DEF RouteInv
<1>4. /\ call[t].op = "add" => End(t) = 4
      /\ call[t].op = "supersede" => End(t) = 7
      /\ call[t].op = "rename" => End(t) = 5
      /\ Leaf(t) => End(t) = 6
  BY StepsOfRoutes DEF RouteInv
<1>5. Locked(t) /\ ~Committing(t) /\ at[t] < End(t) /\ (Leaf(t) => at[t] # 3)
  BY <1>3, <1>4 DEF Looks, Locked, Committing, Leaf, Pull
<1> QED
  BY <1>1, <1>3, <1>5

\* The files of one call become those of an edit.
LEMMA FilesBecome ==
  ASSUME TrackerTypeOK, NEW t \in Tasks, NEW e \in Edits, files' = [files EXCEPT ![t] = e]
  PROVE  files' \in [Tasks -> Edits] /\ files'[t] = e /\ \A u \in Tasks \ {t} : files'[u] = files[u]
BY DEF TrackerTypeOK

\* resolve_memory and the choice of a target, by LookKeepsRoute.
LEMMA SlugLooksKeepRoute ==
  ASSUME RepoShape, RouteInv, NEW t \in Tasks, Resolve(t) \/ PickTarget(t)
  PROVE  RouteInv'
<1>1. /\ UNCHANGED <<repoVars, held, call>>
      /\ Locked(t) /\ ~Committing(t) /\ at[t] < End(t) /\ (Leaf(t) => at[t] # 3) /\ at[t] = 2
  BY LooksAreLocked DEF Looks
<1>2. \/ \E s : /\ Unresolved(s) = "none"
                /\ Advance(t) /\ path' = [path EXCEPT ![t] = FileOf(s)]
      \/ (\E r \in Results : Reply(t, r)) /\ path' = path
  <2>1. CASE Resolve(t)
    BY <2>1, WhyIsResult DEF Resolve
  <2>2. CASE PickTarget(t)
    <3> DEFINE old == call[t].to
               why == IF /\ Unreadable(old, call[t].kind) = "none"
                         /\ Tip[FileOf(old)].status = "superseded"
                        THEN "invalid" ELSE Unreadable(old, call[t].kind)
    <3>1. why \in Results /\ (why = "none" => Unresolved(old) = "none")
      BY WhyIsResult DEF Results
    <3>2. IF why = "none"
            THEN Advance(t) /\ path' = [path EXCEPT ![t] = FileOf(old)]
            ELSE Reply(t, why) /\ UNCHANGED path
      BY <2>2 DEF PickTarget
    <3> HIDE DEF why
    <3> QED
      BY <3>1, <3>2
  <2> QED
    BY <2>1, <2>2
<1>3. files' = files
  BY DEF Resolve, PickTarget
<1>4. CASE \E s : /\ Unresolved(s) = "none"
                  /\ Advance(t) /\ path' = [path EXCEPT ![t] = FileOf(s)]
  <2>1. PICK s : /\ Unresolved(s) = "none"
                 /\ Advance(t) /\ path' = [path EXCEPT ![t] = FileOf(s)]
    BY <1>4
  <2>2. FileOf(s) \in Paths
    BY <2>1, UnderIsPaths
  <2>3. /\ path' \in [Tasks -> Paths \union {NoPath}] /\ path'[t] \in Paths
        /\ \A u \in Tasks \ {t} : path'[u] = path[u]
    BY <2>1, <2>2 DEF RouteInv, TrackerTypeOK
  <2>4. phase' = phase /\ files' \in [Tasks -> Edits]
    BY <1>1, <1>3 DEF repoVars, RouteInv, TrackerTypeOK
  <2> QED
    BY <1>1, <2>1, <2>3, <2>4, LookKeepsRoute
<1>5. CASE (\E r \in Results : Reply(t, r)) /\ path' = path
  <2>1. phase' = phase /\ files' \in [Tasks -> Edits] /\ path' \in [Tasks -> Paths \union {NoPath}]
    BY <1>1, <1>3, <1>5 DEF repoVars, RouteInv, TrackerTypeOK
  <2> QED
    BY <1>1, <1>5, <2>1, LookKeepsRoute
<1> QED
  BY <1>2, <1>4, <1>5

\* The looks that make files ready: the call goes on with an edit, or ends.
LEMMA FileLooksReady ==
  ASSUME RepoShape, RouteInv, NEW t \in Tasks,
         \/ Mint(t) \/ DraftMilestone(t) \/ BackLink(t) \/ Compose(t) \/ ComposeMilestone(t)
         \/ Remove(t)
  PROVE  /\ path' = path
         /\ \/ (\E r \in Results : Reply(t, r)) /\ files' = files
            \/ \E e \in Edits : Advance(t) /\ files' = [files EXCEPT ![t] = e]
<1>1. main \in CommitIds
  BY DEF RepoShape
<1>2. TrackerTypeOK
  BY DEF RouteInv
<1>3. IsCall(call[t]) /\ t \in Ids
  BY <1>2, CallShape, IdsAssumption
<1>4. CASE Mint(t)
  <2>1. call[t].op \in {"add", "supersede"}
    BY <1>4, LooksAreLocked DEF Looks
  <2>2. <<call[t].slug, t>> \in Paths
    BY <1>3, <2>1, TicketPathsAssumption DEF IsCall
  <2>3. TopNumber(main) # MaxNumber => TopNumber(main) + 1 \in 0..MaxNumber
    BY <1>1, TopIsLargest, MaxNumberAssumption
  <2>4. TopNumber(main) # MaxNumber =>
          [put |-> [p \in {<<call[t].slug, t>>} |-> NewTicket(t, TopNumber(main) + 1)], drop |-> {}] \in Edits
    BY <1>2, <2>1, <2>2, <2>3, MadeTickets, OnePutIsEdit
  <2> QED
    BY <1>4, <2>4 DEF Mint, Results
<1>5. CASE DraftMilestone(t)
  <2>1. call[t].op \in {"add", "supersede"}
    BY <1>5, LooksAreLocked DEF Looks
  <2>2. <<call[t].slug, t>> \in Paths
    BY <1>3, <2>1, TicketPathsAssumption DEF IsCall
  <2>3. 0 \in 0..MaxNumber
    BY MaxNumberAssumption
  <2>4. NewTicket(t, 0) \in Tickets
    BY <1>2, <2>1, <2>3, MadeTickets
  <2> QED
    BY <1>5, <2>2, <2>4, OnePutIsEdit DEF DraftMilestone
<1>6. CASE BackLink(t)
  <2> DEFINE old == call[t].to
             why == Unreadable(old, call[t].kind)
  <2>1. why \in Results /\ (why = "none" => Unresolved(old) = "none")
    BY WhyIsResult
  <2>2. why = "none" => FileOf(old) \in Paths /\ Tip[FileOf(old)] \in Tickets
    BY <2>1, UnderIsPaths
  <2>3. why = "none" =>
          [put |-> [q \in {FileOf(old)} |-> [Tip[FileOf(old)] EXCEPT !.status = "superseded", !.successor = t]],
           drop |-> {}] \in Edits
    BY <1>2, <2>2, MadeTickets, OnePutIsEdit
  <2> QED
    BY <1>6, <2>1, <2>3 DEF BackLink
<1>7. CASE Compose(t)
  <2> DEFINE s == call[t].slug
             why == IF Unreadable(s, call[t].kind) = "none" /\ ~Accepts(Updated(t, Tip[FileOf(s)]))
                      THEN "invalid" ELSE Unreadable(s, call[t].kind)
             e == [put |-> [q \in {FileOf(s)} |-> Updated(t, Tip[FileOf(s)])], drop |-> {}]
  <2>1. why \in Results /\ (why = "none" => Unresolved(s) = "none")
    BY WhyIsResult DEF Results
  <2>2. why = "none" => FileOf(s) \in Paths /\ Tip[FileOf(s)] \in Tickets
    BY <2>1, UnderIsPaths
  <2>3. call[t].op = "update"
    BY <1>7, LooksAreLocked DEF Looks
  <2>4. why = "none" => e \in Edits
    BY <1>2, <2>2, <2>3, MadeTickets, OnePutIsEdit
  <2>5. /\ path' = path
        /\ IF why # "none" THEN Reply(t, why) /\ UNCHANGED files
                           ELSE Advance(t) /\ files' = [files EXCEPT ![t] = e]
    BY <1>7 DEF Compose
  <2> HIDE DEF why, e
  <2> QED
    BY <2>1, <2>4, <2>5
<1>8. CASE ComposeMilestone(t)
  <2>1. PICK why \in MilestoneReads(call[t].slug) :
          IF why # "none"
            THEN Reply(t, why) /\ UNCHANGED files
            ELSE /\ Advance(t)
                 /\ files' = [files EXCEPT ![t] =
                      [put |-> [q \in {path[t]} |-> Updated(t, Tip[FileOf(call[t].slug)])], drop |-> {}]]
    BY <1>8 DEF ComposeMilestone
  <2>2. why \in Results
    BY WhyIsResult
  <2>3. why = "none" => Unresolved(call[t].slug) = "none"
    BY <2>1, WhyIsResult DEF MilestoneReads
  <2>4. call[t].op = "update" /\ at[t] = 4 /\ Leaf(t) /\ End(t) = 6
    BY <1>8, LooksAreLocked, StepsOfRoutes DEF Looks, Leaf, RouteInv
  <2>5. path[t] \in Paths
    BY <2>4 DEF RouteInv, RouteFollows, PathFollows
  <2>6. why = "none" =>
          [put |-> [q \in {path[t]} |-> Updated(t, Tip[FileOf(call[t].slug)])], drop |-> {}] \in Edits
    BY <1>2, <2>3, <2>4, <2>5, UnderIsPaths, MadeTickets, OnePutIsEdit
  <2>7. path' = path
    BY <1>8 DEF ComposeMilestone
  <2> QED
    BY <2>1, <2>2, <2>6, <2>7
<1>9. CASE Remove(t)
  <2> DEFINE s == call[t].slug
             why == Unreadable(s, call[t].kind)
  <2>1. why \in Results /\ (why = "none" => FileOf(s) \in Paths)
    BY WhyIsResult, UnderIsPaths
  <2>2. why = "none" => [put |-> [p \in {} |-> {}], drop |-> {FileOf(s)}] \in Edits
    BY <2>1, DropIsEdit
  <2> QED
    BY <1>9, <2>1, <2>2 DEF Remove
<1> QED
  BY <1>4, <1>5, <1>6, <1>7, <1>8, <1>9

\* The looks that make a file ready, by LookKeepsRoute.
LEMMA FileLooksKeepRoute ==
  ASSUME RepoShape, RouteInv, NEW t \in Tasks,
         \/ Mint(t) \/ DraftMilestone(t) \/ BackLink(t) \/ Compose(t) \/ ComposeMilestone(t)
         \/ Remove(t)
  PROVE  RouteInv'
<1>1. /\ UNCHANGED <<repoVars, held, call>>
      /\ Locked(t) /\ ~Committing(t) /\ at[t] < End(t) /\ (Leaf(t) => at[t] # 3)
      /\ at[t] = 2 => call[t].op = "add"
  BY LooksAreLocked DEF Looks
<1>2. /\ path' = path
      /\ \/ (\E r \in Results : Reply(t, r)) /\ files' = files
         \/ \E e \in Edits : Advance(t) /\ files' = [files EXCEPT ![t] = e]
  BY FileLooksReady
<1>3. /\ phase' = phase /\ files' \in [Tasks -> Edits]
      /\ path' \in [Tasks -> Paths \union {NoPath}] /\ \A u \in Tasks : path'[u] = path[u]
  BY <1>1, <1>2 DEF repoVars, RouteInv, TrackerTypeOK
<1> QED
  BY <1>1, <1>2, <1>3, LookKeepsRoute

\* The files of a rename.
LEMMA RenameIsEdit ==
  ASSUME RepoShape, NEW s \in Slugs, NEW to \in Slugs
  PROVE  [put |-> [q \in {<<to, p[2]>> : p \in Under(s)} |-> Tip[<<s, q[2]>>]], drop |-> Under(s)] \in Edits
<1> DEFINE D == {<<to, p[2]>> : p \in Under(s)}
           f == [q \in D |-> Tip[<<s, q[2]>>]]
<1>1. \A p \in Under(s) : p \in Paths /\ p = <<s, p[2]>> /\ Tip[p] \in Tickets
  BY UnderIsPaths, TicketPathsAssumption
<1>2. D \subseteq Paths
  BY <1>1, TicketPathsAssumption
<1>3. \A q \in D : Tip[<<s, q[2]>>] \in Contents
  BY <1>1, TicketsAssumption
<1>4. f \in [D -> Contents]
  BY <1>3
<1>5. f \in Trees
  BY <1>2, <1>4 DEF Trees, TreesOver
<1>6. Under(s) \subseteq Paths
  BY <1>1
<1> HIDE DEF f, D
<1>7. [put |-> f, drop |-> Under(s)] \in Edits
  BY <1>5, <1>6 DEF Edits, EditsOver, Trees
<1> QED
  BY <1>7 DEF f, D

\* The plan of a rename and its listing, by LookKeepsRoute.
LEMMA RenameLooksKeepRoute ==
  ASSUME RepoShape, RouteInv, NEW t \in Tasks, Plan(t) \/ List(t)
  PROVE  RouteInv'
<1>1. /\ UNCHANGED <<repoVars, held, call>>
      /\ Locked(t) /\ ~Committing(t) /\ at[t] < End(t) /\ (Leaf(t) => at[t] # 3)
      /\ call[t].op = "rename" /\ (Plan(t) => at[t] = 2)
  BY LooksAreLocked DEF Looks
<1>2. phase' = phase /\ path' = path
  BY <1>1 DEF Plan, List, repoVars
<1>3. call[t].slug \in Slugs /\ call[t].to \in Slugs
  BY <1>1, CallShape DEF RouteInv, IsCall
<1>4. /\ files' \in [Tasks -> Edits]
      /\ \/ Advance(t) \/ \E r \in Results : Reply(t, r)
         \/ at[t] = 2 /\ at' = [at EXCEPT ![t] = @ + 2] /\ result' = result
  <2>1. CASE Plan(t)
    <3> DEFINE s == call[t].slug
               to == call[t].to
               why == Unmovable(s, call[t].kind)
               e == [put |-> [q \in {<<to, p[2]>> : p \in Under(s)} |-> Tip[<<s, q[2]>>]], drop |-> Under(s)]
    <3>1. why \in Results /\ e \in Edits
      BY <1>3, WhyIsResult, RenameIsEdit
    <3>2. IF s = to
            THEN at' = [at EXCEPT ![t] = @ + 2] /\ UNCHANGED <<result, files>>
            ELSE IF why # "none"
            THEN Reply(t, why) /\ UNCHANGED files
            ELSE Advance(t) /\ files' = [files EXCEPT ![t] = e]
      BY <2>1 DEF Plan
    <3> HIDE DEF e, why
    <3> QED
      BY <1>1, <2>1, <3>1, <3>2 DEF RouteInv, TrackerTypeOK
  <2>2. CASE List(t)
    <3>1. \A why \in Results : (IF why = "none" \/ Under(call[t].to) = {} THEN "ok" ELSE why) \in Results
      BY DEF Results
    <3> QED
      BY <2>2, <3>1, WhyIsResult DEF List, RouteInv, TrackerTypeOK
  <2> QED
    BY <2>1, <2>2
<1>5. path' \in [Tasks -> Paths \union {NoPath}] /\ \A u \in Tasks : path'[u] = path[u]
  BY <1>2 DEF RouteInv, TrackerTypeOK
<1> QED
  BY <1>1, <1>2, <1>4, <1>5, LookKeepsRoute

-----------------------------------------------------------------------------
(* Every step.                                                             *)

\* The steps of write_commit and of fast_forward that do not end the call.
LEMMA InsideKeepsRoute ==
  ASSUME RepoShape, RouteInv, NEW t \in Tasks,
         \/ CommitBegins(t) \/ CommitIsWritten(t)
         \/ PullBegins(t) \/ PullRefinds(t)
         \/ \E e \in RemoteEdits : PullFetches(t, e)
  PROVE  RouteInv'
<1>1. CASE CommitBegins(t) \/ CommitIsWritten(t)
  <2>1. Committing(t) /\ UNCHANGED trackerVars
    BY <1>1, StepsOfRoutes DEF CommitBegins, CommitIsWritten, RouteInv
  <2>2. /\ phase'[t] \in {"based", "written"}
        /\ \A u \in Tasks \ {t} : phase'[u] = phase[u]
    BY <1>1 DEF CommitBegins, CommitIsWritten, FindParent, WriteObject, RepoShape
  <2>3. BackendFollows(t)'
    BY <2>1, <2>2, SameCall DEF BackendFollows, trackerVars
  <2> QED
    BY <2>1, <2>2, <2>3, BackendKeepsRoute
<1>2. CASE PullBegins(t) \/ PullRefinds(t)
  <2>1. Pull(t) /\ at[t] = 1 /\ UNCHANGED trackerVars
    BY <1>2, StepsOfRoutes DEF PullBegins, PullRefinds, RouteInv
  <2>2. /\ phase'[t] \in {"aimed", "refound"}
        /\ \A u \in Tasks \ {t} : phase'[u] = phase[u]
    BY <1>2 DEF PullBegins, PullRefinds, FindTarget, Refind, RepoShape
  <2>3. BackendFollows(t)'
    BY <2>1, <2>2, SameCall DEF BackendFollows, trackerVars
  <2> QED
    BY <2>1, <2>2, <2>3, BackendKeepsRoute
<1>3. CASE \E e \in RemoteEdits : PullFetches(t, e)
  <2>1. UNCHANGED trackerVars /\ phase' = phase
    BY <1>3 DEF PullFetches, Fetch
  <2>2. BackendFollows(t)'
    BY <2>1, SameCall DEF RouteInv, RouteFollows, BackendFollows, trackerVars
  <2> QED
    BY <2>1, <2>2, BackendKeepsRoute
<1> QED
  BY <1>1, <1>2, <1>3

\* The end of write_commit.
LEMMA CommitEndsKeepsRoute ==
  ASSUME RepoShape, RouteInv, NEW t \in Tasks, CommitEnds(t)
  PROVE  RouteInv'
<1>1. (\E r \in Results : Reply(t, r)) \/ (~LastCommit(t) /\ Advance(t))
  BY DEF CommitEnds, Results
<1>2. phase'[t] = "none" /\ \A u \in Tasks \ {t} : phase'[u] = phase[u]
  BY DEF CommitEnds, SwapMain, RepoShape
<1>3. Committing(t) /\ UNCHANGED <<held, call, path, files>>
  BY StepsOfRoutes DEF CommitEnds, RouteInv
<1> QED
  BY <1>1, <1>2, <1>3, EndKeepsRoute

\* The comparison of fast_forward, which may end it, and its end.
LEMMA PullEndsKeepsRoute ==
  ASSUME RepoShape, RouteInv, NEW t \in Tasks, PullCompares(t) \/ PullEnds(t)
  PROVE  RouteInv'
<1>1. Pull(t) /\ at[t] = 1 /\ UNCHANGED <<held, call, path, files>>
  BY StepsOfRoutes DEF PullCompares, PullEnds, RouteInv
<1>2. \A u \in Tasks \ {t} : phase'[u] = phase[u]
  BY DEF PullCompares, FindLocal, PullEnds, SwapMain, RepoShape
<1>3. CASE phase'[t] = "ancestor"
  <2>1. UNCHANGED <<at, result>>
    BY <1>3 DEF PullCompares, PullEnds, SwapMain, RepoShape
  <2>2. UNCHANGED trackerVars
    BY <1>1, <2>1 DEF trackerVars
  <2>3. BackendFollows(t)'
    BY <1>1, <1>3, <2>1, SameCall DEF BackendFollows
  <2> QED
    BY <1>2, <2>2, <2>3, BackendKeepsRoute
<1>4. CASE phase'[t] # "ancestor"
  <2>1. phase'[t] = "none"
    BY <1>4 DEF PullCompares, FindLocal, PullEnds, SwapMain, RepoShape
  <2>2. \E r \in Results : Reply(t, r)
    BY <1>4 DEF PullCompares, PullEnds, Results
  <2> QED
    BY <1>1, <1>2, <2>1, <2>2, EndKeepsRoute
<1> QED
  BY <1>3, <1>4

\* Every step of the trackers keeps the calls on their routes.
LEMMA NextKeepsRoute ==
  ASSUME RepoShape, RouteInv, [Next]_vars
  PROVE  RouteInv'
<1>1. CASE UNCHANGED vars
  <2>1. /\ held' = held /\ call' = call /\ at' = at /\ path' = path /\ files' = files
        /\ result' = result /\ phase' = phase
    BY <1>1 DEF vars, trackerVars, repoVars
  <2>2. \A t \in Tasks : RouteFollows(t)'
    BY <2>1, OthersFollow DEF RouteInv
  <2> QED
    BY <2>1, <2>2 DEF RouteInv, TrackerTypeOK, L!NoConflictingGuards
<1>2. CASE Next
  BY <1>2, LocksKeepRoute, UnlockKeepsRoute, SlugLooksKeepRoute, FileLooksKeepRoute,
     RenameLooksKeepRoute, InsideKeepsRoute, CommitEndsKeepsRoute, PullEndsKeepsRoute
     DEF Next
<1> QED
  BY <1>1, <1>2

\* Calls start at the beginning of their routes.
LEMMA InitFollowsRoutes ==
  ASSUME Init
  PROVE  RouteInv
<1>1. NoFiles \in Edits
  BY DropIsEdit DEF NoFiles
<1>2. TrackerTypeOK
  BY <1>1, AsksAssumption DEF Init, TrackerTypeOK, L!Init, Results
<1>3. /\ held = [t \in Tasks |-> {}] /\ at = [t \in Tasks |-> 1]
      /\ result = [t \in Tasks |-> "none"] /\ phase = [t \in Tasks |-> "none"]
  BY DEF Init, RepoInit, L!Init
<1>4. ASSUME NEW t \in Tasks
      PROVE  RouteFollows(t)
  <2>1. End(t) \in 1..7
    BY <1>2, StepsOfRoutes
  <2>2. held[t] = {} /\ at[t] = 1 /\ result[t] = "none" /\ phase[t] = "none"
    BY <1>3
  <2> QED
    BY <2>1, <2>2
       DEF RouteFollows, LinksFollow, PathFollows, BackendFollows, ResultFollows, Locked
<1> QED
  BY <1>2, <1>3, <1>4 DEF RouteInv, L!NoConflictingGuards

-----------------------------------------------------------------------------
(* The trackers only do to the repository what the backend does.           *)

\* What a fetch brings is an edit of the repository, and an open ticket.
LEMMA RemoteEditsAreEdits ==
  ASSUME RepoShape
  PROVE  /\ RemoteEdits \subseteq Edits
         /\ \A e \in RemoteEdits : \A p \in DOMAIN e.put :
              e.put[p].status = "open" /\ e.put[p].successor = NoId
<1> SUFFICES ASSUME NEW s \in Slugs, NEW i \in Ids \ Tasks, TopNumber(tracking) < MaxNumber
             PROVE  /\ PeerTicket(s, i, tracking) \in Edits
                    /\ \A p \in DOMAIN PeerTicket(s, i, tracking).put :
                         /\ PeerTicket(s, i, tracking).put[p].status = "open"
                         /\ PeerTicket(s, i, tracking).put[p].successor = NoId
  BY DEF RemoteEdits
<1> DEFINE x == [kind |-> "feature", number |-> TopNumber(tracking) + 1,
                 status |-> "open", successor |-> NoId, applied |-> {}]
<1>1. TopNumber(tracking) + 1 \in 0..MaxNumber
  BY TopIsLargest, MaxNumberAssumption DEF RepoShape
<1>2. x \in Tickets
  BY <1>1 DEF Tickets, Kinds, Statuses
<1>3. <<s, i>> \in Paths
  BY TicketPathsAssumption
<1>4. PeerTicket(s, i, tracking) = [put |-> [p \in {<<s, i>>} |-> x], drop |-> {}]
  BY DEF PeerTicket
<1> HIDE DEF x
<1>5. PeerTicket(s, i, tracking) \in Edits
  BY <1>2, <1>3, <1>4, OnePutIsEdit
<1>6. \A p \in DOMAIN PeerTicket(s, i, tracking).put : PeerTicket(s, i, tracking).put[p] = x
  BY <1>4
<1>7. x.status = "open" /\ x.successor = NoId
  BY DEF x
<1> QED
  BY <1>5, <1>6, <1>7

\* Every step of a tracker is a step of the backend or leaves the repository alone.
LEMMA TrackerStepIsRepoStep ==
  ASSUME RepoShape, RouteInv, [Next]_vars
  PROVE  [RepoNext]_repoVars
<1>1. CASE UNCHANGED vars
  BY <1>1 DEF vars
<1>2. ASSUME NEW t \in Tasks, LockGroup(t) \/ LockAncestors(t) \/ LockLeaf(t) \/ Unlock(t)
      PROVE  UNCHANGED repoVars
  BY <1>2 DEF LockGroup, LockAncestors, LockLeaf, LockLinks, Unlock
<1>3. ASSUME NEW t \in Tasks, Looks(t)
      PROVE  UNCHANGED repoVars
  BY <1>3, LooksAreLocked
<1>4. ASSUME NEW t \in Tasks, CommitIsWritten(t)
      PROVE  RepoNext
  BY <1>4 DEF CommitIsWritten, RepoNext, Edits, RouteInv, TrackerTypeOK
<1>5. ASSUME NEW t \in Tasks, CommitBegins(t) \/ CommitEnds(t) \/ PullBegins(t)
                              \/ PullCompares(t) \/ PullRefinds(t) \/ PullEnds(t)
      PROVE  RepoNext
  BY <1>5 DEF CommitBegins, CommitEnds, PullBegins, PullCompares, PullRefinds, PullEnds, RepoNext, Edits
<1>6. ASSUME NEW t \in Tasks, NEW e \in RemoteEdits, PullFetches(t, e)
      PROVE  RepoNext
  BY <1>6, RemoteEditsAreEdits DEF PullFetches, RepoNext, Edits
<1> QED
  BY <1>1, <1>2, <1>3, <1>4, <1>5, <1>6 DEF Next, Looks

\* The group starts with files that hold tickets.
LEMMA TrackersStartTheRepo ==
  ASSUME Init
  PROVE  \E seed \in Trees : RepoInit(seed) /\ seed \in Seeds
<1>1. PICK seed \in Seeds : RepoInit(seed)
  BY DEF Init
<1>2. DOMAIN seed \subseteq Paths /\ seed \in [DOMAIN seed -> Contents]
  BY SeedsAssumption
<1>3. seed \in Trees
  BY <1>2 DEF Trees, TreesOver
<1> QED
  BY <1>1, <1>3

\* Calls follow their routes and guards never conflict, in every behaviour.
THEOREM TrackerInvariance == Spec => [](RepoInv /\ RouteInv)
<1>1. Init => RepoInv /\ RouteInv
  BY TrackersStartTheRepo, RepoInitInv, InitFollowsRoutes
<1>2. RepoInv /\ RouteInv /\ [Next]_vars => (RepoInv /\ RouteInv)'
  BY TrackerStepIsRepoStep, RepoNextInv, NextKeepsRoute DEF RepoInv
<1> QED
  BY <1>1, <1>2, PTL DEF Spec

\* The trackers implement the repository: whatever they do, the repository of the
\* group goes through the steps GroupRepo allows, and no others.
THEOREM TrackersImplementRepo == Spec => RepoSpec
<1>1. Init => \E seed \in TreesOver(Paths) : RepoInit(seed)
  BY TrackersStartTheRepo DEF Trees
<1>2. RepoInv /\ RouteInv /\ [Next]_vars => [RepoNext]_repoVars
  BY TrackerStepIsRepoStep DEF RepoInv
<1> QED
  BY <1>1, <1>2, TrackerInvariance, PTL DEF Spec, RepoSpec

\* Every state of the trackers has the types the code gives it.
THEOREM TypeCorrect == Spec => []TypeOK
<1>1. RepoInv /\ RouteInv => TypeOK
  BY TreesOfCommits, TicketsAssumption DEF RepoInv, RouteInv, TrackerTypeOK, TypeOK
<1> QED
  BY <1>1, TrackerInvariance, PTL

-----------------------------------------------------------------------------
(* What a look finds, if it does not end its call.                         *)

\* A reply that is not a success.
Fails(t) == \E r \in Results \ {"none", "ok"} : Reply(t, r)

\* What a look fails with is no success.
LEMMA FailuresAreResults ==
  /\ \A s : Unresolved(s) # "none" => Unresolved(s) \in Results \ {"none", "ok"}
  /\ \A s, k : Unreadable(s, k) # "none" => Unreadable(s, k) \in Results \ {"none", "ok"}
  /\ \A s, k : Unmovable(s, k) # "none" => Unmovable(s, k) \in Results \ {"none", "ok"}
  /\ \A s, why : why \in MilestoneReads(s) /\ why # "none" => why \in Results \ {"none", "ok"}
<1>1. \A s : Unresolved(s) # "none" => Unresolved(s) \in Results \ {"none", "ok"}
  BY DEF Unresolved, Results
<1>2. \A s, k : Unreadable(s, k) # "none" => Unreadable(s, k) \in Results \ {"none", "ok"}
  BY <1>1 DEF Unreadable, Results
<1>3. \A s, k : Unmovable(s, k) # "none" => Unmovable(s, k) \in Results \ {"none", "ok"}
  BY DEF Unmovable, Results
<1>4. \A s, why : why \in MilestoneReads(s) /\ why # "none" => why \in Results \ {"none", "ok"}
  BY <1>2 DEF MilestoneReads, Results
<1> QED
  BY <1>1, <1>2, <1>3, <1>4

\* p is the file of slug s.
OnlyFile(s, p) == p \in DOMAIN Tip /\ p[1] = s /\ \A q \in DOMAIN Tip : q[1] = s => q = p

\* A slug that resolves has one file.
LEMMA ReadableHasFile ==
  ASSUME NEW s, NEW k
  PROVE  Unresolved(s) = "none" \/ Unreadable(s, k) = "none" => OnlyFile(s, FileOf(s))
<1>1. Unreadable(s, k) = "none" => Unresolved(s) = "none"
  BY WhyIsResult
<1>2. ASSUME Unresolved(s) = "none"
      PROVE  OnlyFile(s, FileOf(s))
  <2>1. Under(s) = {FileOf(s)}
    BY <1>2 DEF Unresolved
  <2>2. \A p : p \in Under(s) <=> p \in DOMAIN Tip /\ p[1] = s
    BY DEF Under
  <2> QED
    BY <2>1, <2>2 DEF OnlyFile
<1> QED
  BY <1>1, <1>2

\* resolve_memory, for an update, a delete or the target of a supersede.
LEMMA SlugFound ==
  ASSUME RouteInv, NEW t \in Tasks, Resolve(t) \/ PickTarget(t)
  PROVE  /\ files' = files
         /\ \/ Fails(t) /\ path' = path
            \/ /\ Advance(t)
               /\ \E p : /\ path' = [path EXCEPT ![t] = p]
                         /\ Resolve(t) => OnlyFile(call[t].slug, p)
                         /\ PickTarget(t) => /\ OnlyFile(call[t].to, p)
                                             /\ Tip[p].status # "superseded"
<1>0. ~(Resolve(t) /\ PickTarget(t))
  BY LooksAreLocked DEF Looks, Leaf
<1>1. CASE Resolve(t)
  BY <1>0, <1>1, FailuresAreResults, ReadableHasFile DEF Resolve, Fails
<1>2. CASE PickTarget(t)
  <2> DEFINE old == call[t].to
             why == IF /\ Unreadable(old, call[t].kind) = "none"
                       /\ Tip[FileOf(old)].status = "superseded"
                      THEN "invalid" ELSE Unreadable(old, call[t].kind)
  <2>1. /\ why # "none" => why \in Results \ {"none", "ok"}
        /\ why = "none" => OnlyFile(old, FileOf(old)) /\ Tip[FileOf(old)].status # "superseded"
    BY FailuresAreResults, ReadableHasFile DEF Results
  <2>2. IF why = "none"
          THEN Advance(t) /\ path' = [path EXCEPT ![t] = FileOf(old)]
          ELSE Reply(t, why) /\ UNCHANGED path
    BY <1>2 DEF PickTarget
  <2>3. files' = files
    BY <1>2 DEF PickTarget
  <2> HIDE DEF why
  <2> QED
    BY <1>0, <1>2, <2>1, <2>2, <2>3 DEF Fails
<1> QED
  BY <1>1, <1>2

\* A new ticket: its number is larger than all there are.
LEMMA DraftMade ==
  ASSUME RepoShape, RouteInv, NEW t \in Tasks, Mint(t) \/ DraftMilestone(t)
  PROVE  /\ path' = path
         /\ \/ Fails(t) /\ files' = files
            \/ /\ Advance(t)
               /\ \E n \in 0..MaxNumber :
                    /\ files' = [files EXCEPT ![t] =
                         [put |-> [p \in {<<call[t].slug, t>>} |-> NewTicket(t, n)], drop |-> {}]]
                    /\ call[t].kind # "milestone" => n # 0
                    /\ n # 0 => \A p \in DOMAIN Tip : Tip[p].number < n
<1>1. /\ TopNumber(main) \in 0..MaxNumber /\ MaxNumber \in Nat
      /\ \A p \in DOMAIN Tip : Tip[p].number \in Nat /\ Tip[p].number <= TopNumber(main)
  BY TopIsLargest, TreesOfCommits, MaxNumberAssumption DEF RepoShape, Tip, Tickets
<1>2. CASE Mint(t)
  <2>1. path' = path
    BY <1>2 DEF Mint
  <2>2. CASE TopNumber(main) = MaxNumber
    BY <1>2, <2>1, <2>2 DEF Mint, Fails, Results
  <2>3. CASE TopNumber(main) # MaxNumber
    <3>1. TopNumber(main) + 1 \in 0..MaxNumber /\ TopNumber(main) + 1 # 0
          /\ \A p \in DOMAIN Tip : Tip[p].number < TopNumber(main) + 1
      BY <1>1, <2>3
    <3> QED
      BY <1>2, <2>1, <2>3, <3>1 DEF Mint
  <2> QED
    BY <2>2, <2>3
<1>3. CASE DraftMilestone(t)
  <2>1. 0 \in 0..MaxNumber
    BY <1>1
  <2> QED
    BY <1>3, <2>1 DEF DraftMilestone, Numbered
<1> QED
  BY <1>2, <1>3

\* The second commit of a supersede: the target, superseded by t.
LEMMA BackLinkMade ==
  ASSUME RouteInv, NEW t \in Tasks, BackLink(t)
  PROVE  /\ path' = path
         /\ \/ Fails(t) /\ files' = files
            \/ /\ Advance(t)
               /\ \E p :
                    /\ OnlyFile(call[t].to, p)
                    /\ files' = [files EXCEPT ![t] =
                         [put |-> [q \in {p} |-> [Tip[p] EXCEPT !.status = "superseded", !.successor = t]],
                          drop |-> {}]]
<1> DEFINE old == call[t].to
           why == Unreadable(old, call[t].kind)
<1>1. /\ why # "none" => why \in Results \ {"none", "ok"}
      /\ why = "none" => OnlyFile(old, FileOf(old))
  BY FailuresAreResults, ReadableHasFile
<1>2. /\ path' = path
      /\ IF why # "none"
          THEN Reply(t, why) /\ UNCHANGED files
          ELSE /\ Advance(t)
               /\ files' = [files EXCEPT ![t] =
                    [put |-> [q \in {FileOf(old)} |->
                                [Tip[FileOf(old)] EXCEPT !.status = "superseded", !.successor = t]],
                     drop |-> {}]]
  BY DEF BackLink
<1> HIDE DEF why
<1> QED
  BY <1>1, <1>2 DEF Fails

\* An update: the only file of its slug, as the call changes it.
LEMMA UpdateMade ==
  ASSUME RouteInv, NEW t \in Tasks, Compose(t) \/ ComposeMilestone(t)
  PROVE  /\ path' = path
         /\ \/ Fails(t) /\ files' = files
            \/ /\ Advance(t)
               /\ \E p, q :
                    /\ OnlyFile(call[t].slug, p) /\ q \in {p, path[t]}
                    /\ files' = [files EXCEPT ![t] =
                         [put |-> [z \in {q} |-> Updated(t, Tip[p])], drop |-> {}]]
                    /\ \/ Paired(Updated(t, Tip[p]))
                       \/ call[t].status = "keep" /\ call[t].link = NoId
<1>1. CASE Compose(t)
  <2> DEFINE s == call[t].slug
             why == IF Unreadable(s, call[t].kind) = "none" /\ ~Accepts(Updated(t, Tip[FileOf(s)]))
                      THEN "invalid" ELSE Unreadable(s, call[t].kind)
  <2>1. /\ why # "none" => why \in Results \ {"none", "ok"}
        /\ why = "none" => OnlyFile(s, FileOf(s)) /\ Paired(Updated(t, Tip[FileOf(s)]))
    BY FailuresAreResults, ReadableHasFile DEF Results, Accepts
  <2>2. /\ path' = path
        /\ IF why # "none"
             THEN Reply(t, why) /\ UNCHANGED files
             ELSE /\ Advance(t)
                  /\ files' = [files EXCEPT ![t] =
                       [put |-> [q \in {FileOf(s)} |-> Updated(t, Tip[FileOf(s)])], drop |-> {}]]
    BY <1>1 DEF Compose
  <2> HIDE DEF why
  <2> QED
    BY <2>1, <2>2 DEF Fails
<1>2. CASE ComposeMilestone(t)
  <2>1. PICK why \in MilestoneReads(call[t].slug) :
          IF why # "none"
            THEN Reply(t, why) /\ UNCHANGED files
            ELSE /\ Advance(t)
                 /\ files' = [files EXCEPT ![t] =
                      [put |-> [q \in {path[t]} |-> Updated(t, Tip[FileOf(call[t].slug)])], drop |-> {}]]
    BY <1>2 DEF ComposeMilestone
  <2>2. path' = path /\ call[t].kind = "milestone" /\ call[t].op = "update"
    BY <1>2, LooksAreLocked DEF ComposeMilestone, Numbered, Looks
  <2>3. call[t].status = "keep" /\ call[t].link = NoId
    BY <2>2, CallShape DEF RouteInv, IsCall
  <2>4. /\ why # "none" => why \in Results \ {"none", "ok"}
        /\ why = "none" => OnlyFile(call[t].slug, FileOf(call[t].slug))
    <3>1. why = "none" => Unreadable(call[t].slug, "milestone") = "none"
      BY <2>1 DEF MilestoneReads
    <3> QED
      BY <2>1, <3>1, FailuresAreResults, ReadableHasFile
  <2> QED
    BY <2>1, <2>2, <2>3, <2>4 DEF Fails
<1> QED
  BY <1>1, <1>2

\* A delete: the only file of its slug goes.
LEMMA DeleteMade ==
  ASSUME RouteInv, NEW t \in Tasks, Remove(t)
  PROVE  /\ path' = path
         /\ \/ Fails(t) /\ files' = files
            \/ /\ Advance(t)
               /\ \E p : /\ OnlyFile(call[t].slug, p)
                         /\ files' = [files EXCEPT ![t] = [put |-> [z \in {} |-> {}], drop |-> {p}]]
<1> DEFINE s == call[t].slug
           why == Unreadable(s, call[t].kind)
<1>1. /\ why # "none" => why \in Results \ {"none", "ok"}
      /\ why = "none" => OnlyFile(s, FileOf(s))
  BY FailuresAreResults, ReadableHasFile
<1>2. /\ path' = path
      /\ IF why # "none"
           THEN Reply(t, why) /\ UNCHANGED files
           ELSE /\ Advance(t)
                /\ files' = [files EXCEPT ![t] = [put |-> [p \in {} |-> {}], drop |-> {FileOf(s)}]]
  BY DEF Remove
<1> HIDE DEF why
<1> QED
  BY <1>1, <1>2 DEF Fails

\* A rename: all files of the slug, or none.
LEMMA RenameMade ==
  ASSUME RouteInv, NEW t \in Tasks, Plan(t)
  PROVE  /\ path' = path
         /\ \/ Fails(t) /\ files' = files
            \/ at' = [at EXCEPT ![t] = @ + 2] /\ UNCHANGED <<result, files>>
            \/ /\ Advance(t)
               /\ call[t].slug # call[t].to
               /\ files' = [files EXCEPT ![t] =
                    [put |-> [q \in {<<call[t].to, p[2]>> : p \in Under(call[t].slug)} |->
                                Tip[<<call[t].slug, q[2]>>]],
                     drop |-> Under(call[t].slug)]]
<1> DEFINE s == call[t].slug
           to == call[t].to
           why == Unmovable(s, call[t].kind)
           e == [put |-> [q \in {<<to, p[2]>> : p \in Under(s)} |-> Tip[<<s, q[2]>>]], drop |-> Under(s)]
<1>1. why # "none" => why \in Results \ {"none", "ok"}
  BY FailuresAreResults
<1>2. /\ path' = path
      /\ IF s = to
           THEN at' = [at EXCEPT ![t] = @ + 2] /\ UNCHANGED <<result, files>>
           ELSE IF why # "none"
           THEN Reply(t, why) /\ UNCHANGED files
           ELSE Advance(t) /\ files' = [files EXCEPT ![t] = e]
  BY DEF Plan
<1> HIDE DEF why
<1> QED
  BY <1>1, <1>2 DEF Fails
-----------------------------------------------------------------------------
(* One step, seen from the commits and from the calls that do not take it. *)

\* A step of t.
Acts(t) ==
  \/ LockGroup(t) \/ LockAncestors(t) \/ LockLeaf(t) \/ Unlock(t) \/ Looks(t)
  \/ CommitBegins(t) \/ CommitIsWritten(t) \/ CommitEnds(t)
  \/ \E e \in RemoteEdits : PullFetches(t, e)
  \/ PullBegins(t) \/ PullCompares(t) \/ PullRefinds(t) \/ PullEnds(t)

\* Nothing of u changes.
Still(u) ==
  /\ at'[u] = at[u] /\ path'[u] = path[u] /\ files'[u] = files[u] /\ result'[u] = result[u]
  /\ phase'[u] = phase[u] /\ base'[u] = base[u] /\ expected'[u] = expected[u] /\ goal'[u] = goal[u]

\* Commits are only added.
CommitsStay == CommitIds \subseteq CommitIds' /\ \A c \in CommitIds : commits'[c] = commits[c]

\* The next-state relation is one of the steps of one call.
LEMMA NextActs ==
  Next <=> \E t \in Tasks : Acts(t)
BY DEF Next, Acts, Looks

\* What a look may change of its own call.
LEMMA LooksChange ==
  ASSUME RouteInv, RepoShape, NEW t \in Tasks, Looks(t)
  PROVE  /\ UNCHANGED <<repoVars, held, call>>
         /\ \A u \in Tasks \ {t} : path'[u] = path[u] /\ files'[u] = files[u]
         /\ at[t] > 2 => path' = path
         /\ \/ Advance(t) \/ \E r \in Results : Reply(t, r)
            \/ at' = [at EXCEPT ![t] = @ + 2] /\ result' = result
<1>1. UNCHANGED <<repoVars, held, call>> /\ (Resolve(t) \/ PickTarget(t) => at[t] = 2)
  BY LooksAreLocked
<1>2. CASE Resolve(t) \/ PickTarget(t)
  BY <1>1, <1>2, SlugFound DEF Fails, RouteInv, TrackerTypeOK
<1>3. CASE \/ Mint(t) \/ DraftMilestone(t) \/ BackLink(t) \/ Compose(t) \/ ComposeMilestone(t)
           \/ Remove(t)
  BY <1>1, <1>3, FileLooksReady DEF RouteInv, TrackerTypeOK
<1>4. CASE Plan(t)
  BY <1>1, <1>4, RenameMade DEF Fails, RouteInv, TrackerTypeOK
<1>5. CASE List(t)
  <2>1. \A why \in Results : (IF why = "none" \/ Under(call[t].to) = {} THEN "ok" ELSE why) \in Results
    BY DEF Results
  <2> QED
    BY <1>1, <1>5, <2>1, WhyIsResult DEF List, RouteInv, TrackerTypeOK
<1> QED
  BY <1>2, <1>3, <1>4, <1>5 DEF Looks

\* A step of t is no step of the others.
LEMMA OthersStayPut ==
  ASSUME RepoShape, RouteInv, NEW t \in Tasks, Acts(t)
  PROVE  call' = call /\ \A u \in Tasks \ {t} : Still(u)
<1> USE DEF RouteInv, TrackerTypeOK
<1>1. CASE LockGroup(t) \/ LockAncestors(t) \/ LockLeaf(t) \/ Unlock(t)
  BY <1>1 DEF LockGroup, LockAncestors, LockLeaf, LockLinks, Unlock, Advance, repoVars, Still
<1>2. CASE Looks(t)
  <2>1. call' = call /\ UNCHANGED repoVars /\ \A u \in Tasks \ {t} : path'[u] = path[u] /\ files'[u] = files[u]
    BY <1>2, LooksChange
  <2>2. \A u \in Tasks \ {t} : at'[u] = at[u] /\ result'[u] = result[u]
    BY <1>2, LooksChange DEF Advance, Reply
  <2> QED
    BY <2>1, <2>2 DEF repoVars, Still
<1>3. CASE CommitBegins(t) \/ CommitIsWritten(t)
  BY <1>3 DEF CommitBegins, CommitIsWritten, FindParent, WriteObject, RepoShape, trackerVars, Still
<1>4. CASE CommitEnds(t)
  BY <1>4 DEF CommitEnds, SwapMain, RepoShape, Advance, Reply, Still
<1>5. CASE (\E e \in RemoteEdits : PullFetches(t, e)) \/ PullBegins(t) \/ PullRefinds(t)
  BY <1>5 DEF PullFetches, Fetch, PullBegins, FindTarget, PullRefinds, Refind, RepoShape, trackerVars, Still
<1>6. CASE PullCompares(t) \/ PullEnds(t)
  BY <1>6 DEF PullCompares, FindLocal, PullEnds, SwapMain, RepoShape, Reply, Still
<1> QED
  BY <1>1, <1>2, <1>3, <1>4, <1>5, <1>6 DEF Acts

\* A new commit comes last; the old ones are what they were.
LEMMA NewCommit ==
  ASSUME RepoShape, HistoriesAreClosed, NEW b \in CommitIds, NEW e \in Edits,
         NEW a \in Tasks \union {Peer}, commits' = Append(commits, Child(b, e, a)),
         NEW n, n = Len(commits) + 1
  PROVE  /\ n \in Nat /\ CommitIds' = CommitIds \union {n} /\ CommitsStay
         /\ Len(commits') = n
         /\ \A c \in CommitIds : c \in Nat /\ c < n
         /\ Hist(n)' = Hist(b) \union {n}
         /\ Tree(n)' = Overlay(Tree(b), e)
         /\ commits'[n].by = a
<1>1. commits \in Seq(Commit)
  BY DEF RepoShape
<1>2. Child(b, e, a) \in Commit /\ Child(b, e, a).hist = Hist(b) \union {n}
  BY <1>1, ChildIsCommit
<1>3. /\ CommitIds' = CommitIds \union {n}
      /\ \A c \in CommitIds : commits'[c] = commits[c]
      /\ commits'[n] = Child(b, e, a)
  BY <1>1, <1>2, AppendKeepsHistory
<1>4. Len(commits) \in Nat /\ CommitIds = 1..Len(commits)
  BY <1>1, LenProperties DEF CommitIds
<1>5. Len(commits') = n
  BY <1>1, <1>2, AppendProperties
<1>6. commits'[n].tree = Overlay(Tree(b), e) /\ commits'[n].by = a
  BY <1>3 DEF Child, CommitRecord
<1>7. CommitsStay
  BY <1>3 DEF CommitsStay
<1> QED
  BY <1>2, <1>3, <1>4, <1>5, <1>6, <1>7 DEF Hist, Tree

\* The commits there are are the numbers from one on.
LEMMA CommitsAreNumbered ==
  ASSUME RepoShape
  PROVE  Len(commits) \in Nat /\ CommitIds = 1..Len(commits)
<1>1. commits \in Seq(Commit)
  BY DEF RepoShape
<1> QED
  BY <1>1, LenProperties DEF CommitIds

\* A file of an overlay is of the tree below or of the edit above.
LEMMA OverlayFiles ==
  ASSUME NEW tr, NEW e
  PROVE  /\ DOMAIN Overlay(tr, e) = (DOMAIN tr \ e.drop) \union DOMAIN e.put
         /\ \A p \in DOMAIN e.put : Overlay(tr, e)[p] = e.put[p]
         /\ \A p \in (DOMAIN tr \ e.drop) \ DOMAIN e.put : Overlay(tr, e)[p] = tr[p]
BY DEF Overlay

\* Steps add a commit or none.
LEMMA StepsAddCommits ==
  ASSUME RepoInv, RouteInv, NEW t \in Tasks, Acts(t)
  PROVE  \/ commits' = commits /\ ~CommitIsWritten(t)
         \/ CommitIsWritten(t)
         \/ \E e \in RemoteEdits : PullFetches(t, e)
<1>1. CASE LockGroup(t) \/ LockAncestors(t) \/ LockLeaf(t) \/ Unlock(t)
  BY <1>1 DEF LockGroup, LockAncestors, LockLeaf, LockLinks, Unlock, repoVars
<1>2. CASE Looks(t)
  BY <1>2, LooksAreLocked DEF repoVars
<1>3. CASE CommitBegins(t) \/ CommitEnds(t) \/ PullBegins(t) \/ PullCompares(t) \/ PullRefinds(t) \/ PullEnds(t)
  BY <1>3 DEF CommitBegins, FindParent, CommitEnds, SwapMain, PullBegins, FindTarget,
              PullCompares, FindLocal, PullRefinds, Refind, PullEnds
<1> QED
  BY <1>1, <1>2, <1>3 DEF Acts

\* What the two writing steps write.
LEMMA WrittenIs ==
  ASSUME RepoInv, RouteInv, NEW t \in Tasks, CommitIsWritten(t)
  PROVE  /\ Committing(t) /\ phase[t] = "based" /\ phase'[t] = "written"
         /\ base[t] \in CommitIds /\ files[t] \in Edits
         /\ commits' = Append(commits, Child(base[t], files[t], t))
         /\ goal'[t] = Len(commits) + 1 /\ expected'[t] = main
         /\ UNCHANGED <<trackerVars, main, tracking, base>>
<1>1. Committing(t)
  BY StepsOfRoutes DEF CommitIsWritten, RouteInv
<1>2. base[t] \in CommitIds
  BY DEF CommitIsWritten, WriteObject, RepoInv, LookupsAreCommits
<1> QED
  BY <1>1, <1>2 DEF CommitIsWritten, WriteObject, RepoInv, RepoShape, RouteInv, TrackerTypeOK

\* What a fetch leaves.
LEMMA FetchedIs ==
  ASSUME RepoInv, NEW t \in Tasks, NEW e \in RemoteEdits, PullFetches(t, e)
  PROVE  /\ tracking \in CommitIds /\ e \in Edits
         /\ commits' = Append(commits, Child(tracking, e, Peer))
         /\ UNCHANGED <<trackerVars, main, phase, base, expected, goal>>
BY RemoteEditsAreEdits DEF RepoInv, RepoShape, PullFetches, Fetch

\* No step rewrites a commit.
LEMMA StepsKeepCommits ==
  ASSUME RepoInv, RouteInv, NEW t \in Tasks, Acts(t)
  PROVE  CommitsStay
<1>1. CASE commits' = commits
  BY <1>1 DEF CommitsStay, CommitIds
<1>2. CASE CommitIsWritten(t)
  BY <1>2, WrittenIs, NewCommit DEF RepoInv
<1>3. CASE \E e \in RemoteEdits : PullFetches(t, e)
  BY <1>3, FetchedIs, NewCommit DEF RepoInv
<1> QED
  BY <1>1, <1>2, <1>3, StepsAddCommits

\* So what is said of an old commit stays true.
LEMMA OldCommits ==
  ASSUME HistoriesAreClosed, CommitsStay, NEW c \in CommitIds
  PROVE  /\ Tree(c)' = Tree(c) /\ Hist(c)' = Hist(c) /\ Known(c)' = Known(c)
         /\ \A r \in CommitIds : EditedFrom(c, r)' <=> EditedFrom(c, r)
<1>1. \A d \in CommitIds : Tree(d)' = Tree(d) /\ Hist(d)' = Hist(d)
  BY DEF CommitsStay, Tree, Hist
<1>2. Hist(c) \subseteq CommitIds
  BY DEF HistoriesAreClosed
<1>3. Known(c)' = Known(c)
  BY <1>1, <1>2 DEF Known
<1>4. ASSUME NEW r \in CommitIds
      PROVE  EditedFrom(c, r)' <=> EditedFrom(c, r)
  BY <1>1 DEF EditedFrom, Grows
<1> QED
  BY <1>1, <1>3, <1>4
-----------------------------------------------------------------------------
(* What a call has written.                                                *)

\* The files of a call at its commits do not change.
LEMMA FilesRest ==
  ASSUME RepoShape, RouteInv, NEW t \in Tasks, Acts(t), Committing(t)
  PROVE  files' = files /\ path' = path
<1>1. ~Looks(t)
  BY LooksAreLocked
<1> QED
  BY <1>1 DEF Acts, LockGroup, LockAncestors, LockLeaf, LockLinks, Unlock, CommitBegins,
     CommitIsWritten, CommitEnds, PullFetches, PullBegins, PullCompares, PullRefinds, PullEnds,
     trackerVars

\* A call that has written its commit only ends it.
LEMMA WrittenOnlyEnds ==
  ASSUME RepoShape, RouteInv, NEW t \in Tasks, Acts(t)
  PROVE  phase[t] = "written" =>
           \/ CommitEnds(t) /\ phase'[t] = "none"
           \/ \E e \in RemoteEdits : PullFetches(t, e)
<1> SUFFICES ASSUME phase[t] = "written"
             PROVE  \/ CommitEnds(t) /\ phase'[t] = "none"
                    \/ \E e \in RemoteEdits : PullFetches(t, e)
  OBVIOUS
<1>1. Committing(t)
  BY DEF RouteInv, RouteFollows, BackendFollows
<1>2. ~Looks(t) /\ ~Unlock(t) /\ ~LockGroup(t) /\ ~LockAncestors(t) /\ ~LockLeaf(t)
      /\ ~Pull(t)
  <2>1. ~Looks(t)
    BY <1>1, LooksAreLocked
  <2>2. ~In(t, "lock") /\ ~In(t, "ancestors") /\ ~In(t, "leaf") /\ ~In(t, "unlock") /\ ~Pull(t)
    BY <1>1, StepsOfRoutes DEF RouteInv, Committing, Leaf, Grouped
  <2> QED
    BY <2>1, <2>2 DEF Unlock, LockGroup, LockAncestors, LockLeaf, LockLinks
<1>3. ~CommitBegins(t) /\ ~CommitIsWritten(t) /\ ~PullBegins(t) /\ ~PullCompares(t) /\ ~PullRefinds(t)
  BY DEF CommitBegins, CommitIsWritten, PullBegins, PullCompares, PullRefinds,
         FindParent, WriteObject, FindTarget, FindLocal, Refind
<1>4. ~PullEnds(t)
  BY <1>2, StepsOfRoutes DEF PullEnds, RouteInv
<1>5. CommitEnds(t) => phase'[t] = "none"
  BY DEF CommitEnds, SwapMain, RepoShape
<1> QED
  BY <1>2, <1>3, <1>4, <1>5 DEF Acts

\* Only the writing step makes a call's phase "written".
LEMMA OnlyWritingWrites ==
  ASSUME RepoShape, RouteInv, NEW t \in Tasks, Acts(t), phase'[t] = "written", phase[t] # "written"
  PROVE  CommitIsWritten(t)
<1>1. Looks(t) => phase' = phase
  BY LooksAreLocked DEF repoVars
<1> QED
  BY <1>1 DEF Acts, LockGroup, LockAncestors, LockLeaf, LockLinks, Unlock, CommitBegins, FindParent,
     CommitEnds, SwapMain, PullFetches, Fetch, PullBegins, FindTarget, PullCompares, FindLocal,
     PullRefinds, Refind, PullEnds, repoVars, RepoShape

\* Every step keeps what is said of the commits.
LEMMA CommitInvKept ==
  ASSUME RepoInv, RouteInv, CommitInv, NEW t \in Tasks, Acts(t)
  PROVE  CommitInv'
<1>1. CommitsAreDated'
  <2>1. CASE commits' = commits
    BY <2>1 DEF CommitInv, CommitsAreDated, Hist, CommitIds
  <2>2. ASSUME NEW b \in CommitIds, NEW e \in Edits, NEW a \in Tasks \union {Peer},
               commits' = Append(commits, Child(b, e, a))
        PROVE  CommitsAreDated'
    <3>0. PICK n : n = Len(commits) + 1
      OBVIOUS
    <3>1. /\ n \in Nat /\ CommitIds' = CommitIds \union {n} /\ CommitsStay
          /\ \A c \in CommitIds : c \in Nat /\ c < n
          /\ Hist(n)' = Hist(b) \union {n}
      BY <2>2, <3>0, NewCommit DEF RepoInv
    <3>2. \A c \in CommitIds : Hist(c)' = Hist(c) /\ Hist(c) \subseteq CommitIds
      BY <3>1, OldCommits DEF RepoInv, HistoriesAreClosed
    <3> QED
      BY <3>1, <3>2 DEF CommitInv, CommitsAreDated
  <2>3. CASE CommitIsWritten(t)
    BY <2>2, <2>3, WrittenIs
  <2>4. CASE \E e \in RemoteEdits : PullFetches(t, e)
    BY <2>2, <2>4, FetchedIs
  <2> QED
    BY <2>1, <2>3, <2>4, StepsAddCommits
<1>2. ASSUME NEW u \in Tasks, phase[u] = "written", phase'[u] = "written"
      PROVE  CommitIsOwn(u)'
  <2>1. CommitIsOwn(u) /\ Committing(u)
    BY <1>2 DEF CommitInv, RouteInv, RouteFollows, BackendFollows
  <2>2. /\ base'[u] = base[u] /\ goal'[u] = goal[u] /\ expected'[u] = expected[u]
        /\ files'[u] = files[u]
    <3>1. CASE u # t
      BY <3>1, OthersStayPut DEF Still, RepoInv
    <3>2. CASE u = t
      <4>1. \E e \in RemoteEdits : PullFetches(t, e)
        BY <1>2, <3>2, WrittenOnlyEnds DEF RepoInv
      <4> QED
        BY <4>1, <3>2, FetchedIs DEF trackerVars
    <3> QED
      BY <3>1, <3>2
  <2>3. CommitsStay
    BY StepsKeepCommits
  <2>4. \A c \in CommitIds : /\ Tree(c)' = Tree(c) /\ Hist(c)' = Hist(c)
                              /\ commits'[c] = commits[c] /\ c \in CommitIds'
    BY <2>3, OldCommits DEF RepoInv, CommitsStay
  <2>5. Overlay(Tree(base[u]), files[u])' = Overlay(Tree(base[u]), files[u])
    BY <2>1, <2>2, <2>4 DEF CommitIsOwn, Overlay, Tree
  <2>6. Tree(goal[u])' = Tree(goal[u]) /\ Hist(goal[u])' = Hist(goal[u]) /\ Hist(base[u])' = Hist(base[u])
    BY <2>1, <2>2, <2>4 DEF CommitIsOwn, Tree, Hist
  <2> QED
    BY <2>1, <2>2, <2>4, <2>5, <2>6 DEF CommitIsOwn
<1>3. ASSUME NEW u \in Tasks, phase[u] # "written", phase'[u] = "written"
      PROVE  CommitIsOwn(u)'
  <2>1. u = t
    BY <1>3, OthersStayPut DEF Still, RepoInv
  <2>2. CommitIsWritten(t)
    BY <1>3, <2>1, OnlyWritingWrites DEF RepoInv
  <2>0. PICK n : n = Len(commits) + 1
    OBVIOUS
  <2>3. /\ base[t] \in CommitIds /\ files[t] \in Edits
        /\ commits' = Append(commits, Child(base[t], files[t], t))
        /\ goal'[t] = n /\ expected'[t] = main /\ base' = base /\ files' = files
    BY <2>0, <2>2, WrittenIs DEF trackerVars
  <2>4. /\ n \in Nat /\ CommitIds' = CommitIds \union {n} /\ CommitsStay
        /\ \A c \in CommitIds : c \in Nat /\ c < n
        /\ Hist(n)' = Hist(base[t]) \union {n}
        /\ Tree(n)' = Overlay(Tree(base[t]), files[t])
        /\ commits'[n].by = t
    BY <2>0, <2>3, NewCommit DEF RepoInv
  <2>5. Tree(base[t])' = Tree(base[t]) /\ Hist(base[t])' = Hist(base[t])
    BY <2>3, <2>4, OldCommits DEF RepoInv, Tree, Hist
  <2>6. Overlay(Tree(base[t]), files[t])' = Overlay(Tree(base[t]), files[t])
    BY <2>3, <2>5 DEF Overlay
  <2>7. Tree(goal[t])' = Tree(n)' /\ Hist(goal[t])' = Hist(n)'
    BY <2>3 DEF Tree, Hist
  <2>8. main < n /\ main \in CommitIds
    BY <2>4 DEF RepoInv, RepoShape
  <2> QED
    BY <2>1, <2>3, <2>4, <2>5, <2>6, <2>7, <2>8 DEF CommitIsOwn
<1> QED
  BY <1>1, <1>2, <1>3 DEF CommitInv
-----------------------------------------------------------------------------
(* Links and statuses.                                                     *)

\* The files of a slug differ in their ids.
LEMMA UnderByIds ==
  ASSUME RepoShape, NEW s
  PROVE  \A p \in Under(s) : p = <<s, p[2]>> /\ p \in DOMAIN Tip
<1>1. Under(s) \subseteq DOMAIN Tip /\ Under(s) \subseteq Paths /\ \A p \in Under(s) : p[1] = s
  BY UnderIsPaths
<1> SUFFICES ASSUME NEW p \in Under(s)
             PROVE  p = <<s, p[2]>>
  BY <1>1
<1>2. p \in Slugs \X Ids /\ p[1] = s
  BY <1>1, TicketPathsAssumption
<1> QED
  BY <1>2

\* A set of tickets that new tickets, back links, accepted updates and what peers
\* push do not lead out of holds every ticket there ever is.
LEMMA TicketsStayIn ==
  ASSUME RepoInv, RouteInv, NEW t \in Tasks, Acts(t), NEW Good,
         \A c \in CommitIds : \A p \in DOMAIN Tree(c) : Tree(c)[p] \in Good,
         \A u \in Tasks : \A p \in DOMAIN files[u].put : files[u].put[p] \in Good,
         \A n \in 0..MaxNumber : call[t].op \in {"add", "supersede"} => NewTicket(t, n) \in Good,
         \A x \in Good : [x EXCEPT !.status = "superseded", !.successor = t] \in Good,
         \A x \in Good : /\ call[t].op = "update"
                         /\ Paired(Updated(t, x)) \/ (call[t].status = "keep" /\ call[t].link = NoId)
                         => Updated(t, x) \in Good,
         \A e \in RemoteEdits : \A p \in DOMAIN e.put : e.put[p] \in Good
  PROVE  /\ (\A c \in CommitIds : \A p \in DOMAIN Tree(c) : Tree(c)[p] \in Good)'
         /\ (\A u \in Tasks : \A p \in DOMAIN files[u].put : files[u].put[p] \in Good)'
<1>1. (\A c \in CommitIds : \A p \in DOMAIN Tree(c) : Tree(c)[p] \in Good)'
  <2>1. CASE commits' = commits
    BY <2>1 DEF CommitIds, Tree
  <2>2. ASSUME NEW b \in CommitIds, NEW e \in Edits, NEW a \in Tasks \union {Peer},
               commits' = Append(commits, Child(b, e, a)),
               \A p \in DOMAIN e.put : e.put[p] \in Good
        PROVE  (\A c \in CommitIds : \A p \in DOMAIN Tree(c) : Tree(c)[p] \in Good)'
    <3>0. PICK n : n = Len(commits) + 1
      OBVIOUS
    <3>1. /\ CommitIds' = CommitIds \union {n} /\ CommitsStay
          /\ Tree(n)' = Overlay(Tree(b), e)
      BY <2>2, <3>0, NewCommit DEF RepoInv
    <3>2. \A c \in CommitIds : Tree(c)' = Tree(c)
      BY <3>1, OldCommits DEF RepoInv
    <3>3. \A p \in DOMAIN Overlay(Tree(b), e) : Overlay(Tree(b), e)[p] \in Good
      <4>1. /\ DOMAIN Overlay(Tree(b), e) = (DOMAIN Tree(b) \ e.drop) \union DOMAIN e.put
            /\ \A p \in DOMAIN e.put : Overlay(Tree(b), e)[p] = e.put[p]
            /\ \A p \in (DOMAIN Tree(b) \ e.drop) \ DOMAIN e.put : Overlay(Tree(b), e)[p] = Tree(b)[p]
        BY OverlayFiles
      <4>2. \A p \in DOMAIN Tree(b) : Tree(b)[p] \in Good
        OBVIOUS
      <4> QED
        BY <2>2, <4>1, <4>2
    <3> QED
      BY <3>1, <3>2, <3>3
  <2>3. CASE CommitIsWritten(t)
    BY <2>2, <2>3, WrittenIs
  <2>4. CASE \E e \in RemoteEdits : PullFetches(t, e)
    BY <2>2, <2>4, FetchedIs
  <2> QED
    BY <2>1, <2>3, <2>4, StepsAddCommits
<1>2. \A u \in Tasks \ {t} : files'[u] = files[u]
  BY OthersStayPut DEF Still, RepoInv
<1>3. \A p \in DOMAIN files'[t].put : files'[t].put[p] \in Good
  <2>0. main \in CommitIds /\ \A p \in DOMAIN Tip : Tip[p] \in Good
    BY DEF RepoInv, RepoShape, Tip
  <2>1. CASE ~Looks(t)
    <3>1. files' = files
      BY <2>1 DEF Acts, LockGroup, LockAncestors, LockLeaf, LockLinks, Unlock, CommitBegins,
         CommitIsWritten, CommitEnds, PullFetches, PullBegins, PullCompares, PullRefinds, PullEnds,
         trackerVars
    <3> QED
      BY <3>1
  <2>2. CASE Resolve(t) \/ PickTarget(t) \/ List(t)
    BY <2>2 DEF Resolve, PickTarget, List
  <2>3. CASE Mint(t) \/ DraftMilestone(t)
    <3>1. call[t].op \in {"add", "supersede"}
      BY <2>3, LooksAreLocked DEF Looks
    <3>2. CASE files' = files
      BY <3>2
    <3>3. ASSUME NEW n \in 0..MaxNumber,
                 files' = [files EXCEPT ![t] =
                   [put |-> [p \in {<<call[t].slug, t>>} |-> NewTicket(t, n)], drop |-> {}]]
          PROVE  \A p \in DOMAIN files'[t].put : files'[t].put[p] \in Good
      BY <3>1, <3>3 DEF RouteInv, TrackerTypeOK
    <3> QED
      BY <2>3, <3>2, <3>3, DraftMade DEF RepoInv
  <2>4. CASE BackLink(t)
    <3>2. CASE files' = files
      BY <3>2
    <3>3. ASSUME NEW p, OnlyFile(call[t].to, p),
                 files' = [files EXCEPT ![t] =
                   [put |-> [q \in {p} |-> [Tip[p] EXCEPT !.status = "superseded", !.successor = t]],
                    drop |-> {}]]
          PROVE  \A q \in DOMAIN files'[t].put : files'[t].put[q] \in Good
      BY <2>0, <3>3 DEF RouteInv, TrackerTypeOK, OnlyFile
    <3> QED
      BY <2>4, <3>2, <3>3, BackLinkMade
  <2>5. CASE Compose(t) \/ ComposeMilestone(t)
    <3>1. call[t].op = "update"
      BY <2>5, LooksAreLocked DEF Looks
    <3>2. CASE files' = files
      BY <3>2
    <3>3. ASSUME NEW p, NEW q, OnlyFile(call[t].slug, p),
                 files' = [files EXCEPT ![t] =
                         [put |-> [z \in {q} |-> Updated(t, Tip[p])], drop |-> {}]],
                 \/ Paired(Updated(t, Tip[p]))
                 \/ call[t].status = "keep" /\ call[t].link = NoId
          PROVE  \A z \in DOMAIN files'[t].put : files'[t].put[z] \in Good
      <4>1. Updated(t, Tip[p]) \in Good
        BY <2>0, <3>1, <3>3 DEF OnlyFile
      <4> QED
        BY <3>3, <4>1 DEF RouteInv, TrackerTypeOK
    <3> QED
      BY <2>5, <3>2, <3>3, UpdateMade
  <2>6. CASE Remove(t)
    <3>1. CASE files' = files
      BY <3>1
    <3>2. ASSUME NEW p, files' = [files EXCEPT ![t] = [put |-> [z \in {} |-> {}], drop |-> {p}]]
          PROVE  DOMAIN files'[t].put = {}
      BY <3>2 DEF RouteInv, TrackerTypeOK
    <3> QED
      BY <2>6, <3>1, <3>2, DeleteMade
  <2>7. CASE Plan(t)
    <3> DEFINE s == call[t].slug
               to == call[t].to
               put == [q \in {<<to, p[2]>> : p \in Under(s)} |-> Tip[<<s, q[2]>>]]
    <3>1. files' = files \/ files' = [files EXCEPT ![t] = [put |-> put, drop |-> Under(s)]]
      BY <2>7, RenameMade
    <3>2. \A q \in DOMAIN put : put[q] = Tip[<<s, q[2]>>] /\ <<s, q[2]>> \in DOMAIN Tip
      <4>1. \A p \in Under(s) : p = <<s, p[2]>> /\ p \in DOMAIN Tip
        BY UnderByIds DEF RepoInv
      <4> SUFFICES ASSUME NEW q \in {<<to, p[2]>> : p \in Under(s)}
                   PROVE  <<s, q[2]>> \in DOMAIN Tip
        OBVIOUS
      <4>2. PICK p \in Under(s) : q = <<to, p[2]>>
        OBVIOUS
      <4>3. q[2] = p[2]
        BY <4>2
      <4> QED
        BY <4>1, <4>3
    <3>3. \A q \in DOMAIN put : put[q] \in Good
      BY <2>0, <3>2
    <3> HIDE DEF put
    <3>4. CASE files' = files
      BY <3>4
    <3>5. CASE files' = [files EXCEPT ![t] = [put |-> put, drop |-> Under(s)]]
      <4>1. files'[t].put = put
        BY <3>5 DEF RouteInv, TrackerTypeOK
      <4> QED
        BY <3>3, <4>1
    <3> QED
      BY <3>1, <3>4, <3>5
  <2> QED
    BY <2>1, <2>2, <2>3, <2>4, <2>5, <2>6, <2>7 DEF Looks
<1> QED
  BY <1>1, <1>2, <1>3
\* A link closes its ticket, whoever sets it.
LEMMA LinkInvKept ==
  ASSUME RepoInv, RouteInv, LinkInv, NEW t \in Tasks, Acts(t)
  PROVE  LinkInv'
<1> DEFINE Good == {x \in Tickets : LinkCloses(x)}
<1>0. TrackerTypeOK /\ RepoShape /\ IsCall(call[t]) /\ t \in Ids
  BY CallShape, IdsAssumption DEF RouteInv, RepoInv
<1>1. \A c \in CommitIds : \A p \in DOMAIN Tree(c) : Tree(c)[p] \in Good
  BY <1>0, TreesOfCommits DEF LinkInv
<1>2. \A u \in Tasks : \A p \in DOMAIN files[u].put : files[u].put[p] \in Good
  <2>1. \A u \in Tasks : \A p \in DOMAIN files[u].put : files[u].put[p] \in Tickets
    BY <1>0, TicketsAssumption DEF TrackerTypeOK, Edits, EditsOver, Trees, TreesOver
  <2> QED
    BY <2>1 DEF LinkInv
<1>3. \A n \in 0..MaxNumber : call[t].op \in {"add", "supersede"} => NewTicket(t, n) \in Good
  BY <1>0, MadeTickets DEF NewTicket, LinkCloses
<1>4. \A x \in Good : [x EXCEPT !.status = "superseded", !.successor = t] \in Good
  <2> TAKE x \in Good
  <2>1. [x EXCEPT !.status = "superseded", !.successor = t] \in Tickets
    BY <1>0, MadeTickets
  <2> QED
    BY <2>1 DEF LinkCloses, Tickets
<1>5. \A x \in Good : /\ call[t].op = "update"
                       /\ \/ Paired(Updated(t, x))
                          \/ call[t].status = "keep" /\ call[t].link = NoId
                       => Updated(t, x) \in Good
  <2> SUFFICES ASSUME NEW x \in Tickets, LinkCloses(x), call[t].op = "update",
                      Paired(Updated(t, x)) \/ (call[t].status = "keep" /\ call[t].link = NoId)
               PROVE  Updated(t, x) \in Good
    OBVIOUS
  <2>1. Updated(t, x) \in Tickets
    BY <1>0, MadeTickets
  <2>2. LinkCloses(Updated(t, x))
    <3>1. CASE Paired(Updated(t, x))
      BY <3>1 DEF LinkCloses, Paired
    <3>2. CASE call[t].status = "keep" /\ call[t].link = NoId
      BY <3>2 DEF LinkCloses, Updated, Tickets
    <3> QED
      BY <3>1, <3>2
  <2> QED
    BY <2>1, <2>2
<1>6. \A e \in RemoteEdits : \A p \in DOMAIN e.put : e.put[p] \in Good
  <2>1. \A e \in RemoteEdits : \A p \in DOMAIN e.put : e.put[p].successor = NoId /\ e.put[p] \in Tickets
    BY <1>0, RemoteEditsAreEdits, TicketsAssumption DEF Edits, EditsOver, Trees, TreesOver
  <2> QED
    BY <2>1 DEF LinkCloses
<1> HIDE DEF Good
<1>7. /\ (\A c \in CommitIds : \A p \in DOMAIN Tree(c) : Tree(c)[p] \in Good)'
      /\ (\A u \in Tasks : \A p \in DOMAIN files[u].put : files[u].put[p] \in Good)'
  BY <1>1, <1>2, <1>3, <1>4, <1>5, <1>6, TicketsStayIn
<1>8. \A x \in Good : LinkCloses(x)
  BY DEF Good
<1> QED
  BY <1>7, <1>8 DEF LinkInv

\* Every ticket is added open.
OpenAsks == \A t \in Tasks : \A c \in Asks[t] : c.op \in {"add", "supersede"} => c.status = "open"
OpenCalls == \A t \in Tasks : call[t].op \in {"add", "supersede"} => call[t].status = "open"

\* Then a link and the status of its ticket agree.
LEMMA PairInvKept ==
  ASSUME RepoInv, RouteInv, OpenCalls, PairInv, NEW t \in Tasks, Acts(t)
  PROVE  PairInv'
<1> DEFINE Good == {x \in Tickets : Paired(x)}
<1>0. TrackerTypeOK /\ RepoShape /\ IsCall(call[t]) /\ t \in Ids /\ NoId \notin Ids
  BY CallShape, IdsAssumption DEF RouteInv, RepoInv
<1>1. \A c \in CommitIds : \A p \in DOMAIN Tree(c) : Tree(c)[p] \in Good
  BY <1>0, TreesOfCommits DEF PairInv, LinksArePaired
<1>2. \A u \in Tasks : \A p \in DOMAIN files[u].put : files[u].put[p] \in Good
  <2>1. \A u \in Tasks : \A p \in DOMAIN files[u].put : files[u].put[p] \in Tickets
    BY <1>0, TicketsAssumption DEF TrackerTypeOK, Edits, EditsOver, Trees, TreesOver
  <2> QED
    BY <2>1 DEF PairInv
<1>3. \A n \in 0..MaxNumber : call[t].op \in {"add", "supersede"} => NewTicket(t, n) \in Good
  BY <1>0, MadeTickets DEF NewTicket, Paired, OpenCalls
<1>4. \A x \in Good : [x EXCEPT !.status = "superseded", !.successor = t] \in Good
  <2> TAKE x \in Good
  <2>1. [x EXCEPT !.status = "superseded", !.successor = t] \in Tickets
    BY <1>0, MadeTickets
  <2> QED
    BY <1>0, <2>1 DEF Paired, Tickets
<1>5. \A x \in Good : /\ call[t].op = "update"
                       /\ \/ Paired(Updated(t, x))
                          \/ call[t].status = "keep" /\ call[t].link = NoId
                       => Updated(t, x) \in Good
  <2> SUFFICES ASSUME NEW x \in Tickets, Paired(x), call[t].op = "update",
                      Paired(Updated(t, x)) \/ (call[t].status = "keep" /\ call[t].link = NoId)
               PROVE  Updated(t, x) \in Good
    OBVIOUS
  <2>1. Updated(t, x) \in Tickets
    BY <1>0, MadeTickets
  <2>2. CASE Paired(Updated(t, x))
    BY <2>1, <2>2
  <2>3. CASE call[t].status = "keep" /\ call[t].link = NoId
    BY <2>1, <2>3 DEF Paired, Updated, Tickets
  <2> QED
    BY <2>2, <2>3
<1>6. \A e \in RemoteEdits : \A p \in DOMAIN e.put : e.put[p] \in Good
  <2>1. \A e \in RemoteEdits : \A p \in DOMAIN e.put :
          e.put[p].successor = NoId /\ e.put[p].status = "open" /\ e.put[p] \in Tickets
    BY <1>0, RemoteEditsAreEdits, TicketsAssumption DEF Edits, EditsOver, Trees, TreesOver
  <2> QED
    BY <2>1 DEF Paired
<1> HIDE DEF Good
<1>7. /\ (\A c \in CommitIds : \A p \in DOMAIN Tree(c) : Tree(c)[p] \in Good)'
      /\ (\A u \in Tasks : \A p \in DOMAIN files[u].put : files[u].put[p] \in Good)'
  BY <1>1, <1>2, <1>3, <1>4, <1>5, <1>6, TicketsStayIn
<1>8. \A x \in Good : Paired(x)
  BY DEF Good
<1> QED
  BY <1>7, <1>8 DEF PairInv, LinksArePaired

\* Nothing has been written at the start, and the group's links are paired.
LEMMA InitIsPaired ==
  ASSUME Init
  PROVE  /\ CommitIds = {1} /\ main = 1 /\ Hist(1) = {1} /\ Tree(1) \in Seeds
         /\ \A t \in Tasks : DOMAIN files[t].put = {} /\ phase[t] = "none" /\ result[t] = "none" /\ at[t] = 1
         /\ CommitInv /\ LinkInv /\ PairInv
<1>1. PICK seed \in Seeds : RepoInit(seed)
  BY DEF Init
<1>2. CommitIds = {1} /\ main = 1 /\ Hist(1) = {1} /\ Tree(1) = seed
  BY <1>1 DEF RepoInit, CommitIds, Hist, Tree, CommitRecord
<1>3. \A t \in Tasks : DOMAIN files[t].put = {} /\ phase[t] = "none" /\ result[t] = "none" /\ at[t] = 1
  BY <1>1 DEF Init, RepoInit, NoFiles
<1>4. \A p \in DOMAIN Tree(1) : Paired(Tree(1)[p])
  BY <1>2, SeedsAssumption
<1>5. CommitInv
  BY <1>2, <1>3 DEF CommitInv, CommitsAreDated
<1> QED
  BY <1>2, <1>3, <1>4, <1>5 DEF LinkInv, LinkCloses, Paired, PairInv, LinksArePaired

\* A step that is none changes nothing that is said of the commits.
LEMMA StutterKeepsCommits ==
  ASSUME UNCHANGED vars
  PROVE  /\ CommitInv => CommitInv'
         /\ LinkInv => LinkInv'
         /\ PairInv => PairInv'
<1>1. /\ UNCHANGED <<commits, main, tracking, phase, base, expected, goal>>
      /\ UNCHANGED <<held, call, at, path, files, result>>
  BY DEF vars, repoVars, trackerVars
<1> QED
  BY <1>1 DEF CommitInv, CommitsAreDated, CommitIsOwn, LinkInv, PairInv, LinksArePaired,
     CommitIds, Hist, Tree, Overlay

\* What a call writes is its files on what it saw, and a link closes its ticket,
\* in every behaviour.
THEOREM CommitInvariance == Spec => [](CommitInv /\ LinkInv)
<1>1. Init => CommitInv /\ LinkInv
  BY InitIsPaired
<1>2. RepoInv /\ RouteInv /\ CommitInv /\ LinkInv /\ [Next]_vars => (CommitInv /\ LinkInv)'
  BY NextActs, CommitInvKept, LinkInvKept, StutterKeepsCommits
<1> QED
  BY <1>1, <1>2, TrackerInvariance, PTL DEF Spec

\* Where every ticket is added open, status and back link agree in every commit,
\* whatever is dropped or fetched: a create is the only call that does not
\* validate what it writes.
THEOREM LinksStayPaired ==
  ASSUME OpenAsks
  PROVE  Spec => []LinksArePaired
<1> DEFINE J == PairInv /\ OpenCalls
<1>1. Init => J
  BY InitIsPaired DEF Init, OpenAsks, OpenCalls
<1>2. RepoInv /\ RouteInv /\ J /\ [Next]_vars => J'
  <2> SUFFICES ASSUME RepoInv, RouteInv, J, [Next]_vars
               PROVE  J'
    OBVIOUS
  <2>1. CASE UNCHANGED vars
    <3>1. call' = call
      BY <2>1 DEF vars, trackerVars
    <3> QED
      BY <2>1, <3>1, StutterKeepsCommits DEF OpenCalls
  <2>2. ASSUME NEW t \in Tasks, Acts(t)
        PROVE  J'
    <3>1. call' = call
      BY <2>2, OthersStayPut DEF RepoInv
    <3> QED
      BY <2>2, <3>1, PairInvKept DEF OpenCalls
  <2> QED
    BY <2>1, <2>2, NextActs
<1>3. J => LinksArePaired
  BY DEF PairInv
<1> HIDE DEF J
<1> QED
  BY <1>1, <1>2, <1>3, TrackerInvariance, PTL DEF Spec
-----------------------------------------------------------------------------
(* The group between two exclusive calls: what a step leaves alone.        *)

\* Before its second look and after its last step, nothing is asked of a call.
LEMMA IdleFollows ==
  ASSUME TrackerTypeOK, NEW t \in Tasks, NEW r, call' = call, at'[t] \in 1..8,
         at'[t] <= 2 \/ at'[t] >= End(t), phase'[t] \notin {"based", "written"}
  PROVE  /\ Leaf(t) => LeafFollows(t, r)'
         /\ Grouped(t) => GroupFollows(t)'
<1>1. /\ call[t].op = "add" => End(t) = 4
      /\ call[t].op = "supersede" => End(t) = 7
      /\ call[t].op = "rename" => End(t) = 5
      /\ Leaf(t) => End(t) = 6
  BY StepsOfRoutes
<1>2. End(t)' = End(t)
  BY SameCall
<1> QED
  BY <1>1, <1>2 DEF LeafFollows, GroupFollows, Drafting, Grouped

\* A call that has no lock is one of those.
LEMMA UnlockedFollows ==
  ASSUME RouteInv, NEW t \in Tasks, NEW r, ~Pull(t), ~Locked(t), Still(t), call' = call
  PROVE  /\ Leaf(t) => LeafFollows(t, r)'
         /\ Grouped(t) => GroupFollows(t)'
<1>1. at[t] \in 1..8 /\ (at[t] <= 2 \/ at[t] >= End(t)) /\ End(t) \in 1..7
  BY StepsOfRoutes DEF Locked, RouteInv, TrackerTypeOK
<1>2. phase[t] \notin {"based", "written"}
  <2>1. phase[t] \in {"based", "written"} => Committing(t)
    BY DEF RouteInv, RouteFollows, BackendFollows
  <2>2. Committing(t) => 1 < at[t] /\ at[t] < End(t)
    BY StepsOfRoutes DEF RouteInv
  <2> QED
    BY <1>1, <2>1, <2>2 DEF Locked
<1>3. at'[t] = at[t] /\ phase'[t] = phase[t]
  BY DEF Still
<1>4. /\ TrackerTypeOK /\ call' = call /\ at'[t] \in 1..8
      /\ at'[t] <= 2 \/ at'[t] >= End(t)
      /\ phase'[t] \notin {"based", "written"}
  BY <1>1, <1>2, <1>3 DEF RouteInv
<1> QED
  BY <1>4, IdleFollows

\* The calls that have changed a ticket and replied are what they were.
SettledStay ==
  Settled' = Settled /\ \A u \in Settled : path'[u] = path[u] /\ goal'[u] = goal[u]

\* What an update or a delete has made ready is right for what the group was left
\* with, whatever others write.
LEMMA LeafStays ==
  ASSUME RepoInv, RouteInv, CommitInv, NEW u \in Tasks, Leaf(u), NEW r \in CommitIds, LeafFollows(u, r),
         CommitsStay, Still(u), call' = call
  PROVE  LeafFollows(u, r)'
<1>1. phase[u] \in {"based", "written"} => base[u] \in CommitIds
  BY DEF RepoInv, LookupsAreCommits
<1>2. phase[u] = "written" => goal[u] \in CommitIds
  BY DEF CommitInv, CommitIsOwn
<1>3. /\ Tree(r)' = Tree(r)
      /\ phase[u] \in {"based", "written"} => (EditedFrom(base[u], r)' <=> EditedFrom(base[u], r))
      /\ phase[u] = "written" => (EditedFrom(goal[u], r)' <=> EditedFrom(goal[u], r))
  <2>1. Tree(r)' = Tree(r)
    BY OldCommits DEF RepoInv
  <2>2. ASSUME NEW c \in CommitIds
        PROVE  EditedFrom(c, r)' <=> EditedFrom(c, r)
    BY OldCommits DEF RepoInv
  <2>3. base'[u] = base[u] /\ goal'[u] = goal[u]
    BY DEF Still
  <2>4. ASSUME NEW c, c = base[u]
        PROVE  EditedFrom(base[u], r)' <=> EditedFrom(c, r)'
    BY <2>3, <2>4 DEF EditedFrom, Hist, Tree
  <2>5. ASSUME NEW c, c = goal[u]
        PROVE  EditedFrom(goal[u], r)' <=> EditedFrom(c, r)'
    BY <2>3, <2>5 DEF EditedFrom, Hist, Tree
  <2> QED
    BY <1>1, <1>2, <2>1, <2>2, <2>4, <2>5
<1>4. LeafPath(u, r)' <=> LeafPath(u, r)
  BY <1>3 DEF LeafPath, Still
<1>5. LeafFiles(u, r)' <=> LeafFiles(u, r)
  BY <1>3 DEF LeafFiles, Grows, Still
<1>6. End(u)' = End(u) /\ at'[u] = at[u] /\ phase'[u] = phase[u]
  BY SameCall DEF Still
<1> QED
  BY <1>3, <1>4, <1>5, <1>6 DEF LeafFollows

\* What a call that locks the group has made ready is right for main, as long as
\* main stays.
LEMMA GroupStays ==
  ASSUME RepoInv, RouteInv, NEW u \in Tasks, Grouped(u), GroupFollows(u),
         CommitsStay, main' = main, SettledStay, Still(u), call' = call
  PROVE  GroupFollows(u)'
<1>1. main \in CommitIds
  BY DEF RepoInv, RepoShape
<1>2. Tip' = Tip /\ Known(main)' = Known(main)
  <2>1. Tree(main)' = Tree(main)
    BY <1>1 DEF Tree, CommitsStay
  <2>2. Known(main)' = Known(main)
    BY <1>1, OldCommits DEF RepoInv, Known, Hist, Tree
  <2> QED
    BY <2>1, <2>2 DEF Tip
<1>3. Superseding' = Superseding /\ \A v \in Superseding : path'[v] = path[v]
  BY DEF SettledStay, Settled, Superseding
<1>4. Drafting(u)' = Drafting(u) /\ End(u)' = End(u)
  BY SameCall DEF Drafting, Still
<1>5. TargetHolds(u)' <=> TargetHolds(u)
  BY <1>2, <1>3 DEF TargetHolds, Still
<1>6. DraftFiles(u)' <=> DraftFiles(u)
  <2>1. \A v \in Settled : path'[v] = path[v]
    BY DEF SettledStay
  <2> QED
    BY <1>2, <2>1 DEF DraftFiles, Still, SettledStay
<1>7. BackLinkFiles(u)' <=> BackLinkFiles(u)
  BY <1>2 DEF BackLinkFiles, Still
<1>8. Under(call[u].slug)' = Under(call[u].slug)
  BY <1>2 DEF Under
<1>9. RenameFiles(u)' <=> RenameFiles(u)
  BY <1>2, <1>8 DEF RenameFiles, Still
<1> QED
  BY <1>2, <1>4, <1>5, <1>6, <1>7, <1>9 DEF GroupFollows, Still

\* What an exclusive call has left stays sound.
LEMMA SoundStays ==
  ASSUME HistoriesAreClosed, NEW r \in CommitIds, Sound(r), CommitsStay, SettledStay, call' = call
  PROVE  Sound(r)'
<1>1. Tree(r)' = Tree(r)
  BY OldCommits
<1>2. Superseding' = Superseding /\ \A v \in Superseding : path'[v] = path[v]
  BY DEF SettledStay, Settled, Superseding
<1> QED
  BY <1>1, <1>2 DEF Sound, Distinct

\* A step that leaves main alone is good when its own call is.
LEMMA HeldMainKeepsLeft ==
  ASSUME RepoInv, RouteInv, CommitInv, Alone, NEW t \in Tasks, Acts(t), NEW r \in CommitIds, LeftBy(r),
         main' = main, SettledStay,
         Leaf(t) => LeafFollows(t, r)', Grouped(t) => GroupFollows(t)'
  PROVE  (\E x \in CommitIds : LeftBy(x))'
<1>1. call' = call /\ (\A u \in Tasks \ {t} : Still(u)) /\ CommitsStay
  BY OthersStayPut, StepsKeepCommits DEF RepoInv
<1>2. Sound(r)' /\ r \in CommitIds'
  BY <1>1, SoundStays DEF LeftBy, RepoInv, CommitsStay
<1>3. EditedFrom(main, r)'
  <2>1. main \in CommitIds
    BY DEF RepoInv, RepoShape
  <2>2. ASSUME NEW c \in CommitIds, c = main
        PROVE  EditedFrom(main, r)'
    <3>1. EditedFrom(c, r)'
      BY <1>1, <2>2, OldCommits DEF RepoInv, LeftBy
    <3> QED
      BY <2>2, <3>1 DEF EditedFrom, Hist, Tree
  <2> QED
    BY <2>1, <2>2
<1>4. ASSUME NEW u \in Tasks
      PROVE  /\ Leaf(u)' => LeafFollows(u, r)'
             /\ Grouped(u)' => GroupFollows(u)'
  <2>1. Leaf(u)' = Leaf(u) /\ Grouped(u)' = Grouped(u)
    BY <1>1, SameCall
  <2>2. CASE u = t
    BY <2>1, <2>2
  <2>3. CASE u # t
    BY <1>1, <2>1, <2>3, LeafStays, GroupStays DEF LeftBy
  <2> QED
    BY <2>2, <2>3
<1> QED
  BY <1>2, <1>3, <1>4 DEF LeftBy
-----------------------------------------------------------------------------
(* Steps that leave main and the commits alone.                            *)

\* What main and the commits say is the same while they are.
LEMMA SameRepo ==
  ASSUME UNCHANGED <<commits, main>>
  PROVE  /\ CommitIds' = CommitIds /\ Tip' = Tip /\ \A s : Under(s)' = Under(s)
         /\ \A c : Tree(c)' = Tree(c) /\ Hist(c)' = Hist(c) /\ Known(c)' = Known(c)
         /\ \A c, r : EditedFrom(c, r)' <=> EditedFrom(c, r)
<1>1. CommitIds' = CommitIds /\ Tip' = Tip /\ \A c : Tree(c)' = Tree(c) /\ Hist(c)' = Hist(c)
  BY DEF CommitIds, Tip, Tree, Hist
<1>2. \A s : Under(s)' = Under(s)
  BY <1>1 DEF Under
<1>3. \A c : Known(c)' = Known(c)
  BY <1>1 DEF Known
<1>4. ASSUME NEW c, NEW r
      PROVE  EditedFrom(c, r)' <=> EditedFrom(c, r)
  BY <1>1 DEF EditedFrom, Grows
<1> QED
  BY <1>1, <1>2, <1>3, <1>4

\* A call that has not come to its end has no result.
LEMMA NoResultYet ==
  ASSUME RouteInv, NEW t \in Tasks, Committing(t) \/ Looks(t)
  PROVE  result[t] = "none" /\ at[t] < End(t) /\ ~Pull(t) /\ Locked(t) /\ held[t] # {}
<1>1. at[t] < End(t) /\ ~Pull(t) /\ at[t] \in 1..8 /\ End(t) \in 1..7 /\ 1 < at[t]
  BY StepsOfRoutes, LooksAreLocked DEF Locked, RouteInv, TrackerTypeOK
<1>2. Locked(t)
  BY <1>1 DEF Locked
<1>3. held[t] # {}
  BY <1>2, LockedHolds
<1> QED
  BY <1>1, <1>2, <1>3 DEF RouteInv, RouteFollows, ResultFollows

\* Calls settle when they reply, and stay so.
LEMMA SettledStays ==
  ASSUME RepoShape, RouteInv, NEW t \in Tasks, Acts(t),
         call[t].op \in {"supersede", "update"} => (result'[t] = "ok" <=> result[t] = "ok"),
         result[t] = "ok" => path'[t] = path[t] /\ goal'[t] = goal[t]
  PROVE  SettledStay /\ \A u \in Tasks : Updating(u)' <=> Updating(u)
<1>1. call' = call /\ \A u \in Tasks \ {t} : Still(u)
  BY OthersStayPut
<1>2. \A u \in Tasks : u # t => result'[u] = result[u] /\ path'[u] = path[u] /\ goal'[u] = goal[u]
  BY <1>1 DEF Still
<1>3. \A u \in Tasks : call[u].op \in {"supersede", "update"} => (result'[u] = "ok" <=> result[u] = "ok")
  BY <1>2
<1>4. Settled' = Settled
  BY <1>1, <1>3 DEF Settled
<1>5. \A u \in Settled : path'[u] = path[u] /\ goal'[u] = goal[u]
  BY <1>2 DEF Settled
<1> QED
  BY <1>1, <1>3, <1>4, <1>5 DEF SettledStay, Updating

\* A look that ends its call.
LEMMA FailFollows ==
  ASSUME RouteInv, NEW t \in Tasks, Looks(t), Fails(t), NEW r
  PROVE  /\ Leaf(t) => LeafFollows(t, r)'
         /\ Grouped(t) => GroupFollows(t)'
         /\ result'[t] # "ok" /\ at'[t] = End(t)
<1>1. PICK x \in Results \ {"none", "ok"} : Reply(t, x)
  BY DEF Fails
<1>2. held[t] # {} /\ End(t) \in 1..7 /\ TrackerTypeOK
  BY NoResultYet, StepsOfRoutes DEF RouteInv
<1>3. at'[t] = End(t) /\ result'[t] = x /\ at'[t] \in 1..8
  BY <1>1, <1>2, ReplyAtEnd
<1>4. call' = call /\ phase' = phase /\ ~Committing(t)
  BY LooksAreLocked DEF repoVars
<1>5. phase'[t] \notin {"based", "written"}
  BY <1>4 DEF RouteInv, RouteFollows, BackendFollows
<1>6. at'[t] <= 2 \/ at'[t] >= End(t)
  BY <1>2, <1>3
<1> QED
  BY <1>1, <1>2, <1>3, <1>4, <1>5, <1>6, IdleFollows

\* A look that goes on.
LEMMA LookGoesOn ==
  ASSUME RouteInv, NEW t \in Tasks, Looks(t), Advance(t)
  PROVE  /\ at'[t] = at[t] + 1 /\ result' = result /\ call' = call
         /\ UNCHANGED <<commits, main, phase, base, goal>>
         /\ phase[t] \notin {"based", "written"}
         /\ End(t)' = End(t)
<1>1. call' = call /\ UNCHANGED repoVars /\ ~Committing(t) /\ at[t] < End(t)
  BY LooksAreLocked
<1>2. TrackerTypeOK /\ at[t] <= End(t)
  BY <1>1, StepsOfRoutes DEF RouteInv, TrackerTypeOK
<1>3. at'[t] = at[t] + 1 /\ result' = result
  BY <1>2, AdvanceByOne
<1>4. phase[t] \notin {"based", "written"}
  BY <1>1 DEF RouteInv, RouteFollows, BackendFollows
<1> QED
  BY <1>1, <1>3, <1>4, SameCall DEF repoVars

\* The file that a slug has in main is the only one it had when the last exclusive
\* call left the group.
LEMMA OnlyFileWasOnly ==
  ASSUME NEW r, EditedFrom(main, r), NEW s, NEW p, OnlyFile(s, p)
  PROVE  p \in DOMAIN Tree(r) /\ p[1] = s /\ \A q \in DOMAIN Tree(r) : q[1] = s => q = p
BY DEF EditedFrom, OnlyFile, Tip

\* The file an update or a delete resolves is the only one of its slug in what was left.
LEMMA ResolveFollows ==
  ASSUME RepoInv, RouteInv, NEW t \in Tasks, NEW r \in CommitIds, LeftBy(r), Resolve(t)
  PROVE  Leaf(t) /\ LeafFollows(t, r)'
<1>1. Looks(t) /\ Leaf(t) /\ at[t] = 2 /\ End(t) = 6 /\ ~PickTarget(t)
  BY LooksAreLocked, StepsOfRoutes DEF Looks, RouteInv, Leaf
<1>2. CASE Fails(t)
  BY <1>1, <1>2, FailFollows
<1>3. ASSUME NEW p, Advance(t), path' = [path EXCEPT ![t] = p], OnlyFile(call[t].slug, p)
      PROVE  LeafFollows(t, r)'
  <2>1. /\ at'[t] = 3 /\ call' = call /\ UNCHANGED <<commits, main, phase>>
        /\ phase[t] \notin {"based", "written"}
    BY <1>1, <1>3, LookGoesOn
  <2>2. path'[t] = p
    BY <1>3 DEF RouteInv, TrackerTypeOK
  <2>3. p \in DOMAIN Tree(r) /\ p[1] = call[t].slug /\ \A q \in DOMAIN Tree(r) : q[1] = call[t].slug => q = p
    BY <1>3, OnlyFileWasOnly DEF LeftBy
  <2>4. LeafPath(t, r)'
    BY <2>1, <2>2, <2>3, SameRepo DEF LeafPath
  <2> QED
    BY <2>1, <2>4 DEF LeafFollows
<1> QED
  BY <1>1, <1>2, <1>3, SlugFound

\* What an update composes is what updates make of the ticket that was left.
LEMMA UpdateFollows ==
  ASSUME RepoInv, RouteInv, NEW t \in Tasks, NEW r \in CommitIds, LeftBy(r),
         Compose(t) \/ ComposeMilestone(t)
  PROVE  Leaf(t) /\ LeafFollows(t, r)'
<1>1. Looks(t) /\ call[t].op = "update" /\ Leaf(t) /\ at[t] = 4 /\ End(t) = 6
  BY LooksAreLocked, StepsOfRoutes DEF Looks, RouteInv, Leaf
<1>2. CASE Fails(t)
  BY <1>1, <1>2, FailFollows
<1>3. ASSUME NEW p, NEW q, Advance(t), path' = path, OnlyFile(call[t].slug, p), q \in {p, path[t]},
             files' = [files EXCEPT ![t] = [put |-> [z \in {q} |-> Updated(t, Tip[p])], drop |-> {}]]
      PROVE  LeafFollows(t, r)'
  <2>1. /\ at'[t] = 5 /\ call' = call /\ UNCHANGED <<commits, main, phase>>
        /\ phase[t] \notin {"based", "written"}
    BY <1>1, <1>3, LookGoesOn
  <2>2. LeafPath(t, r)
    BY <1>1 DEF LeftBy, LeafFollows
  <2>3. p = path[t] /\ q = path[t] /\ p \in DOMAIN Tip
    BY <1>3, <2>2, OnlyFileWasOnly DEF LeftBy, LeafPath, OnlyFile
  <2>4. files'[t] = [put |-> [z \in {path[t]} |-> Updated(t, Tip[path[t]])], drop |-> {}]
    BY <1>3, <2>3 DEF RouteInv, TrackerTypeOK
  <2>5. Grows(Tip[path[t]], Tree(r)[path[t]])
    BY <2>3 DEF LeftBy, EditedFrom, Tip
  <2>6. Tip[path[t]] \in Tickets /\ IsCall(call[t]) /\ NoId \notin Tasks
    BY <2>3, TreesOfCommits, CallShape, IdsAssumption DEF RepoInv, RepoShape, RouteInv, Tip
  <2>7. Grows(Updated(t, Tip[path[t]]), Tree(r)[path[t]]) /\ t \in Updated(t, Tip[path[t]]).applied
    <3> DEFINE x == Tip[path[t]]
               y == Updated(t, x)
    <3>1. /\ y.kind = x.kind /\ y.number = x.number /\ t \in y.applied
          /\ y.successor = IF call[t].link = NoId THEN x.successor ELSE call[t].link
      BY <2>6 DEF Updated, Tickets
    <3>2. call[t].link \in (Ids \ Tasks) \union {NoId}
      BY <1>1, <2>6 DEF IsCall
    <3> HIDE DEF x, y
    <3>3. Grows(y, Tree(r)[path[t]])
      BY <2>5, <2>6, <3>1, <3>2 DEF Grows, x
    <3> QED
      BY <3>1, <3>3 DEF x, y
  <2>8. LeafPath(t, r)' /\ LeafFiles(t, r)'
    <3>1. Tree(r)' = Tree(r) /\ path'[t] = path[t]
      BY <1>3, <2>1, SameRepo
    <3>2. LeafPath(t, r)'
      BY <2>1, <2>2, <3>1 DEF LeafPath
    <3>3. LeafFiles(t, r)'
      <4>1. /\ files'[t].drop = {} /\ DOMAIN files'[t].put = {path[t]}
            /\ files'[t].put[path[t]] = Updated(t, Tip[path[t]])
        BY <2>4
      <4>2. call'[t].op = "update"
        BY <1>1, <2>1
      <4> QED
        BY <2>7, <3>1, <4>1, <4>2 DEF LeafFiles, Grows
    <3> QED
      BY <3>2, <3>3
  <2> QED
    BY <2>1, <2>8 DEF LeafFollows
<1> QED
  BY <1>1, <1>2, <1>3, UpdateMade

\* What a delete drops is the file it has resolved.
LEMMA DeleteFollows ==
  ASSUME RepoInv, RouteInv, NEW t \in Tasks, NEW r \in CommitIds, LeftBy(r), Remove(t)
  PROVE  Leaf(t) /\ LeafFollows(t, r)'
<1>1. Looks(t) /\ call[t].op = "delete" /\ Leaf(t) /\ at[t] = 4 /\ End(t) = 6
  BY LooksAreLocked, StepsOfRoutes DEF Looks, RouteInv, Leaf
<1>2. CASE Fails(t)
  BY <1>1, <1>2, FailFollows
<1>3. ASSUME NEW p, Advance(t), path' = path, OnlyFile(call[t].slug, p),
             files' = [files EXCEPT ![t] = [put |-> [z \in {} |-> {}], drop |-> {p}]]
      PROVE  LeafFollows(t, r)'
  <2>1. /\ at'[t] = 5 /\ call' = call /\ UNCHANGED <<commits, main, phase>>
        /\ phase[t] \notin {"based", "written"}
    BY <1>1, <1>3, LookGoesOn
  <2>2. LeafPath(t, r)
    BY <1>1 DEF LeftBy, LeafFollows
  <2>3. p = path[t]
    BY <1>3, <2>2, OnlyFileWasOnly DEF LeftBy, LeafPath, OnlyFile
  <2>4. files'[t] = [put |-> [z \in {} |-> {}], drop |-> {path[t]}]
    BY <1>3, <2>3 DEF RouteInv, TrackerTypeOK
  <2>5. LeafPath(t, r)'
    BY <1>3, <2>1, <2>2, SameRepo DEF LeafPath
  <2>6. LeafFiles(t, r)'
    <3>1. files'[t].drop = {path[t]} /\ DOMAIN files'[t].put = {}
      BY <2>4
    <3>2. path'[t] = path[t] /\ call'[t].op = "delete"
      BY <1>1, <1>3, <2>1
    <3> QED
      BY <3>1, <3>2 DEF LeafFiles
  <2> QED
    BY <2>1, <2>5, <2>6 DEF LeafFollows
<1> QED
  BY <1>1, <1>2, <1>3, DeleteMade
\* How looks end.
LEMMA LooksEnd ==
  ASSUME RepoShape, RouteInv, NEW t \in Tasks, Looks(t)
  PROVE  \/ Advance(t) \/ Fails(t)
         \/ Plan(t) /\ at' = [at EXCEPT ![t] = @ + 2] /\ result' = result
         \/ List(t) /\ \E x \in Results : Reply(t, x)
<1>1. CASE List(t)
  <2>1. \A why \in Results : (IF why = "none" \/ Under(call[t].to) = {} THEN "ok" ELSE why) \in Results
    BY DEF Results
  <2> QED
    BY <1>1, <2>1, WhyIsResult DEF List
<1> QED
  BY <1>1, SlugFound, DraftMade, BackLinkMade, UpdateMade, DeleteMade, RenameMade DEF Looks

\* A look gives nobody the reply that a ticket has changed.
LEMMA LooksSettleNobody ==
  ASSUME RepoShape, RouteInv, NEW t \in Tasks, Looks(t)
  PROVE  SettledStay /\ \A u \in Tasks : Updating(u)' <=> Updating(u)
<1>1. result[t] = "none" /\ TrackerTypeOK
  BY NoResultYet DEF RouteInv
<1>2. List(t) => call[t].op = "rename"
  BY LooksAreLocked
<1>3. call[t].op \in {"supersede", "update"} => result'[t] # "ok"
  <2>1. CASE Advance(t)
    BY <1>1, <2>1 DEF Advance
  <2>2. CASE Fails(t)
    BY <1>1, <2>2, ReplyAtEnd DEF Fails
  <2> QED
    BY <1>1, <1>2, <2>1, <2>2, LooksEnd
<1>4. Acts(t)
  BY DEF Acts
<1> QED
  BY <1>1, <1>3, <1>4, SettledStays

\* What an exclusive call leaves is sound as long as it is only edited.
LEMMA EditedIsSound ==
  ASSUME NEW c, NEW r, Sound(r), EditedFrom(c, r)
  PROVE  Sound(c)
<1>1. \A p \in DOMAIN Tree(c) : p \in DOMAIN Tree(r) /\ Grows(Tree(c)[p], Tree(r)[p])
  BY DEF EditedFrom
<1>2. Distinct(Tree(c))
  BY <1>1 DEF Sound, Distinct, Grows
<1>3. \A p, q \in DOMAIN Tree(c) : p[2] = q[2] => p = q
  BY <1>1 DEF Sound
<1>4. \A u \in Superseding : \A p \in DOMAIN Tree(c) :
        p[2] = path[u][2] => Tree(c)[p].successor # NoId
  BY <1>1 DEF Sound, Grows
<1> QED
  BY <1>2, <1>3, <1>4 DEF Sound

\* A call that has not written its ticket yet is no id anywhere.
LEMMA NotMintedIsFresh ==
  ASSUME RepoInv, GroupInv, UpdateInv, NEW t \in Tasks, ~Minted(t)
  PROVE  /\ \A c \in CommitIds : \A p \in DOMAIN Tree(c) : p[2] # t
         /\ \A u \in Settled : path[u][2] # t
<1>1. \A c \in CommitIds : \A p \in DOMAIN Tree(c) : p[2] # t
  BY DEF GroupInv, IdsAreFresh
<1>2. ASSUME NEW u \in Settled
      PROVE  path[u][2] # t
  <2>1. CASE call[u].op = "supersede"
    BY <1>1, <2>1 DEF Settled, Superseding, GroupInv, SupersedeHolds
  <2>2. CASE call[u].op = "update"
    BY <1>1, <2>2 DEF Settled, Updating, UpdateInv, UpdateHolds
  <2> QED
    BY <2>1, <2>2 DEF Settled
<1> QED
  BY <1>1, <1>2

\* A supersede picks an open ticket, which nobody has taken.
LEMMA PickFollows ==
  ASSUME RepoInv, RouteInv, LinkInv, NEW t \in Tasks, NEW r \in CommitIds, LeftBy(r), PickTarget(t)
  PROVE  Grouped(t) /\ GroupFollows(t)'
<1>1. Looks(t) /\ call[t].op = "supersede" /\ Grouped(t) /\ at[t] = 2 /\ End(t) = 7 /\ ~Resolve(t)
  BY LooksAreLocked, StepsOfRoutes DEF Looks, RouteInv, Leaf, Grouped
<1>2. CASE Fails(t)
  BY <1>1, <1>2, FailFollows
<1>3. ASSUME NEW p, Advance(t), path' = [path EXCEPT ![t] = p], OnlyFile(call[t].to, p),
             Tip[p].status # "superseded"
      PROVE  GroupFollows(t)'
  <2>1. /\ at'[t] = 3 /\ call' = call /\ UNCHANGED <<commits, main, phase>>
        /\ phase[t] \notin {"based", "written"} /\ End(t)' = 7
    BY <1>1, <1>3, LookGoesOn
  <2>2. path'[t] = p
    BY <1>3 DEF RouteInv, TrackerTypeOK
  <2>3. Sound(main) /\ main \in CommitIds
    BY EditedIsSound DEF LeftBy, RepoInv, RepoShape
  <2>4. \A u \in Superseding : path[u][2] # p[2]
    <3>1. p \in DOMAIN Tree(main) /\ Tree(main)[p].status # "superseded"
      BY <1>3 DEF OnlyFile, Tip
    <3>2. Tree(main)[p].successor = NoId
      BY <2>3, <3>1 DEF LinkInv, LinkCloses
    <3> QED
      BY <2>3, <3>1, <3>2 DEF Sound
  <2>5. SettledStay
    BY <1>1, LooksSettleNobody DEF RepoInv
  <2>6. Superseding' = Superseding /\ \A u \in Superseding : path'[u] = path[u]
    BY <2>1, <2>5 DEF SettledStay, Settled, Superseding
  <2>7. TargetHolds(t)'
    BY <1>3, <2>1, <2>2, <2>4, <2>6, SameRepo DEF TargetHolds, OnlyFile
  <2> QED
    BY <1>1, <2>1, <2>7 DEF GroupFollows, Drafting
<1> QED
  BY <1>1, <1>2, <1>3, SlugFound

\* A target that has been picked stays the target while main does.
LEMMA TargetStays ==
  ASSUME RouteInv, NEW t \in Tasks, TargetHolds(t), UNCHANGED <<commits, main, call, path>>, SettledStay
  PROVE  TargetHolds(t)'
<1>1. Superseding' = Superseding
  BY DEF SettledStay, Settled, Superseding
<1> QED
  BY <1>1, SameRepo DEF TargetHolds

\* A new ticket is right for the main it will be put on.
LEMMA DraftFollows ==
  ASSUME RepoInv, RouteInv, GroupInv, UpdateInv, NEW t \in Tasks, NEW r \in CommitIds, LeftBy(r),
         Mint(t) \/ DraftMilestone(t)
  PROVE  Grouped(t) /\ GroupFollows(t)'
<1>1. /\ Looks(t) /\ Grouped(t)
      /\ \/ call[t].op = "add" /\ at[t] = 2 /\ End(t) = 4
         \/ call[t].op = "supersede" /\ at[t] = 3 /\ End(t) = 7
  BY LooksAreLocked, StepsOfRoutes DEF Looks, RouteInv, Grouped
<1>2. CASE Fails(t)
  BY <1>1, <1>2, FailFollows
<1>3. ASSUME NEW n \in 0..MaxNumber, Advance(t), path' = path,
             files' = [files EXCEPT ![t] =
               [put |-> [p \in {<<call[t].slug, t>>} |-> NewTicket(t, n)], drop |-> {}]],
             call[t].kind # "milestone" => n # 0,
             n # 0 => \A p \in DOMAIN Tip : Tip[p].number < n
      PROVE  GroupFollows(t)'
  <2>1. /\ at'[t] = at[t] + 1 /\ call' = call /\ UNCHANGED <<commits, main, phase>>
        /\ phase[t] \notin {"based", "written"} /\ End(t)' = End(t)
    BY <1>1, <1>3, LookGoesOn
  <2>2. files'[t] = [put |-> [p \in {<<call[t].slug, t>>} |-> NewTicket(t, n)], drop |-> {}]
    BY <1>3 DEF RouteInv, TrackerTypeOK
  <2>3. SettledStay
    BY <1>1, LooksSettleNobody DEF RepoInv
  <2>4. ~Minted(t)
    BY <1>1 DEF Minted
  <2>5. /\ \A p \in DOMAIN Tip : p[2] # t
        /\ \A u \in Settled : path[u][2] # t
    BY <2>4, NotMintedIsFresh DEF RepoInv, RepoShape, Tip
  <2>6. \A p \in DOMAIN Tip : Tip[p].number \in Nat
    BY TreesOfCommits, MaxNumberAssumption DEF RepoInv, RepoShape, Tip, Tickets
  <2>7. NewTicket(t, n).successor = NoId /\ NewTicket(t, n).kind = call[t].kind /\ NewTicket(t, n).number = n
    BY DEF NewTicket
  <2>8. n # 0 => \A p \in DOMAIN Tip : Tip[p].number # n
    BY <1>3, <2>6, MaxNumberAssumption
  <2>9. DraftFiles(t)'
    <3>1. /\ files'[t].drop = {} /\ DOMAIN files'[t].put = {<<call[t].slug, t>>}
          /\ \A q \in DOMAIN files'[t].put : files'[t].put[q] = NewTicket(t, n)
      BY <2>2
    <3>2. Tip' = Tip /\ Settled' = Settled /\ \A u \in Settled : path'[u] = path[u]
      BY <2>1, <2>3, SameRepo DEF SettledStay
    <3>3. \A q \in DOMAIN files'[t].put :
            LET x == files'[t].put[q] IN
            /\ x.successor = NoId
            /\ x.kind # "milestone" => x.number # 0
            /\ x.number # 0 => \A p \in DOMAIN Tip : Tip[p].number # x.number
      BY <1>3, <2>7, <2>8, <3>1
    <3> QED
      BY <2>1, <2>5, <3>1, <3>2, <3>3 DEF DraftFiles
  <2>10. call[t].op = "supersede" => TargetHolds(t)'
    <3>1. call[t].op = "supersede" => TargetHolds(t)
      BY <1>1 DEF LeftBy, GroupFollows
    <3> QED
      BY <1>3, <2>1, <2>3, <3>1, TargetStays
  <2> QED
    BY <1>1, <2>1, <2>9, <2>10 DEF GroupFollows
<1>4. CASE files' = files /\ Fails(t)
  BY <1>2, <1>4
<1> QED
  BY <1>1, <1>2, <1>3, DraftMade DEF RepoInv

\* So is a back link: the slug of the target still has that one file.
LEMMA BackLinkFollows ==
  ASSUME RepoInv, RouteInv, NEW t \in Tasks, NEW r \in CommitIds, LeftBy(r), BackLink(t)
  PROVE  Grouped(t) /\ GroupFollows(t)'
<1>1. Looks(t) /\ Grouped(t) /\ call[t].op = "supersede" /\ at[t] = 5 /\ End(t) = 7
  BY LooksAreLocked, StepsOfRoutes DEF Looks, RouteInv, Grouped
<1>2. CASE Fails(t)
  BY <1>1, <1>2, FailFollows
<1>3. ASSUME NEW p, Advance(t), path' = path, OnlyFile(call[t].to, p),
             files' = [files EXCEPT ![t] =
               [put |-> [q \in {p} |-> [Tip[p] EXCEPT !.status = "superseded", !.successor = t]],
                drop |-> {}]]
      PROVE  GroupFollows(t)'
  <2>1. /\ at'[t] = 6 /\ call' = call /\ UNCHANGED <<commits, main, phase>>
        /\ phase[t] \notin {"based", "written"} /\ End(t)' = 7
    BY <1>1, <1>3, LookGoesOn
  <2>2. SettledStay
    BY <1>1, LooksSettleNobody DEF RepoInv
  <2>3. TargetHolds(t) /\ t \in Known(main)
    BY <1>1 DEF LeftBy, GroupFollows
  <2>4. p = path[t]
    BY <1>3, <2>3 DEF TargetHolds, OnlyFile
  <2>5. files'[t] = [put |-> [q \in {path[t]} |-> [Tip[path[t]] EXCEPT !.status = "superseded", !.successor = t]],
                     drop |-> {}]
    BY <1>3, <2>4 DEF RouteInv, TrackerTypeOK
  <2>6. BackLinkFiles(t)'
    <3>1. /\ files'[t].drop = {} /\ DOMAIN files'[t].put = {path[t]}
          /\ files'[t].put[path[t]] = [Tip[path[t]] EXCEPT !.status = "superseded", !.successor = t]
      BY <2>5
    <3> QED
      BY <1>3, <2>1, <3>1, SameRepo DEF BackLinkFiles
  <2>7. TargetHolds(t)'
    BY <1>3, <2>1, <2>2, <2>3, TargetStays
  <2>8. Known(main)' = Known(main)
    BY <2>1, SameRepo DEF Known, Hist, Tree
  <2> QED
    BY <1>1, <2>1, <2>3, <2>6, <2>7, <2>8 DEF GroupFollows, Drafting
<1> QED
  BY <1>1, <1>2, <1>3, BackLinkMade

\* And so is a rename.
LEMMA RenameFollows ==
  ASSUME RepoInv, RouteInv, NEW t \in Tasks, NEW r \in CommitIds, LeftBy(r), Plan(t) \/ List(t)
  PROVE  Grouped(t) /\ GroupFollows(t)'
<1>1. /\ Looks(t) /\ Grouped(t) /\ call[t].op = "rename" /\ End(t) = 5
      /\ Plan(t) => at[t] = 2
      /\ List(t) => at[t] = 4
  BY LooksAreLocked, StepsOfRoutes DEF Looks, RouteInv, Grouped
<1>2. CASE Fails(t)
  BY <1>1, <1>2, FailFollows
<1>3. /\ UNCHANGED <<call, commits, main, phase>> /\ phase[t] \notin {"based", "written"}
      /\ held[t] # {} /\ TrackerTypeOK
  BY <1>1, LooksAreLocked, NoResultYet DEF repoVars, RouteInv, RouteFollows, BackendFollows
<1>4. CASE List(t)
  <2>1. PICK x \in Results : Reply(t, x)
    <3>1. \A why \in Results : (IF why = "none" \/ Under(call[t].to) = {} THEN "ok" ELSE why) \in Results
      BY DEF Results
    <3> QED
      BY <1>4, <3>1, WhyIsResult DEF List
  <2>2. at'[t] = 5
    BY <1>1, <1>3, <2>1, ReplyAtEnd
  <2>3. at'[t] \in 1..8
    BY <2>2
  <2> QED
    BY <1>1, <1>3, <2>2, <2>3, IdleFollows
<1>5. CASE Plan(t) /\ at' = [at EXCEPT ![t] = @ + 2]
  <2>1. at'[t] = 4
    BY <1>1, <1>3, <1>5 DEF TrackerTypeOK
  <2> QED
    BY <1>1, <1>3, <2>1 DEF GroupFollows, Drafting
<1>6. ASSUME Plan(t), Advance(t), path' = path, call[t].slug # call[t].to,
             files' = [files EXCEPT ![t] =
                    [put |-> [q \in {<<call[t].to, p[2]>> : p \in Under(call[t].slug)} |->
                                Tip[<<call[t].slug, q[2]>>]],
                     drop |-> Under(call[t].slug)]]
      PROVE  GroupFollows(t)'
  <2>1. at'[t] = 3
    BY <1>1, <1>6, LookGoesOn
  <2>2. files'[t] = [put |-> [q \in {<<call[t].to, p[2]>> : p \in Under(call[t].slug)} |->
                                Tip[<<call[t].slug, q[2]>>]],
                     drop |-> Under(call[t].slug)]
    BY <1>3, <1>6 DEF TrackerTypeOK
  <2>3. /\ files'[t].drop = Under(call[t].slug)
        /\ DOMAIN files'[t].put = {<<call[t].to, p[2]>> : p \in Under(call[t].slug)}
        /\ \A q \in DOMAIN files'[t].put : files'[t].put[q] = Tip[<<call[t].slug, q[2]>>]
    BY <2>2
  <2>4. Tip' = Tip /\ Under(call[t].slug)' = Under(call[t].slug)
    BY <1>3, SameRepo DEF Under
  <2>5. RenameFiles(t)'
    <3>1. call' = call
      BY <1>3
    <3>2. call'[t].slug # call'[t].to
      BY <1>6, <3>1
    <3>3. /\ files'[t].drop = Under(call[t].slug)'
          /\ DOMAIN files'[t].put = {<<call'[t].to, p[2]>> : p \in Under(call[t].slug)'}
          /\ \A q \in DOMAIN files'[t].put : files'[t].put[q] = Tip'[<<call'[t].slug, q[2]>>]
      BY <2>3, <2>4, <3>1
    <3> QED
      BY <3>2, <3>3 DEF RenameFiles
  <2> QED
    BY <1>1, <1>3, <2>1, <2>5 DEF GroupFollows, Drafting
<1> QED
  BY <1>1, <1>2, <1>4, <1>5, <1>6, RenameMade
\* How commits end.
LEMMA EndOfCommit ==
  ASSUME RepoShape, RouteInv, NEW t \in Tasks, CommitEnds(t)
  PROVE  /\ Committing(t) /\ phase[t] = "written" /\ phase'[t] = "none"
         /\ UNCHANGED <<commits, tracking, base, expected, goal, held, call, path, files>>
         /\ main' = IF CanSwap(t) THEN goal[t] ELSE main
         /\ End(t) \in 1..7 /\ at[t] \in 1..8 /\ at'[t] \in 1..8
         /\ at[t] < at'[t] /\ at'[t] <= End(t)
         /\ ~CanSwap(t) => at'[t] = End(t) /\ result'[t] = "race"
         /\ CanSwap(t) /\ LastCommit(t) => at'[t] = End(t) /\ result'[t] = "ok"
         /\ CanSwap(t) /\ ~LastCommit(t) => at'[t] = at[t] + 1 /\ result' = result
<1>1. Committing(t) /\ TrackerTypeOK
  BY StepsOfRoutes DEF CommitEnds, RouteInv
<1>2. ~Pull(t) /\ at[t] < End(t) /\ held[t] # {} /\ End(t) \in 1..7 /\ at[t] \in 1..8
  BY <1>1, NoResultYet, StepsOfRoutes DEF TrackerTypeOK
<1>3. phase[t] = "written"
  BY <1>1, <1>2 DEF CommitEnds, SwapMain, RouteInv, RouteFollows, BackendFollows
<1>4. /\ phase'[t] = "none"
      /\ UNCHANGED <<commits, tracking, base, expected, goal, held, call, path, files>>
      /\ main' = IF CanSwap(t) THEN goal[t] ELSE main
  BY DEF CommitEnds, SwapMain, RepoShape
<1>5. CASE ~CanSwap(t)
  <2>1. Reply(t, "race") /\ "race" \in Results
    BY <1>5 DEF CommitEnds, Results
  <2>2. at'[t] = End(t) /\ result'[t] = "race"
    BY <1>1, <1>2, <2>1, ReplyAtEnd
  <2> QED
    BY <1>1, <1>2, <1>3, <1>4, <1>5, <2>2
<1>6. CASE CanSwap(t) /\ LastCommit(t)
  <2>1. Reply(t, "ok") /\ "ok" \in Results
    BY <1>6 DEF CommitEnds, Results
  <2>2. at'[t] = End(t) /\ result'[t] = "ok"
    BY <1>1, <1>2, <2>1, ReplyAtEnd
  <2> QED
    BY <1>1, <1>2, <1>3, <1>4, <1>6, <2>2
<1>7. CASE CanSwap(t) /\ ~LastCommit(t)
  <2>1. Advance(t) /\ at[t] <= End(t)
    BY <1>2, <1>7 DEF CommitEnds
  <2>2. at'[t] = at[t] + 1 /\ result' = result
    BY <1>1, <2>1, AdvanceByOne
  <2> QED
    BY <1>1, <1>2, <1>3, <1>4, <1>7, <2>2
<1> QED
  BY <1>5, <1>6, <1>7

\* Nobody goes back on a route.
LEMMA RoutesGoOn ==
  ASSUME RepoShape, RouteInv, NEW t \in Tasks, Acts(t)
  PROVE  at[t] \in 1..8 /\ at'[t] \in 1..8 /\ at[t] <= at'[t]
<1>0. TrackerTypeOK /\ at[t] \in 1..8 /\ End(t) \in 1..7 /\ at[t] <= End(t) + 1
  BY StepsOfRoutes DEF RouteInv, TrackerTypeOK, RouteFollows
<1>1. held[t] # {} => at[t] <= End(t)
  BY LockedHolds DEF Locked
<1>2. ASSUME NEW x \in Results, Reply(t, x)
      PROVE  at'[t] \in 1..8 /\ at[t] <= at'[t]
  <2>1. at'[t] = IF held[t] = {} THEN End(t) + 1 ELSE End(t)
    BY <1>0, <1>2, ReplyAtEnd
  <2> QED
    BY <1>0, <1>1, <2>1
<1>3. ASSUME Advance(t), at[t] <= End(t)
      PROVE  at'[t] \in 1..8 /\ at[t] <= at'[t]
  BY <1>0, <1>3, AdvanceByOne
<1>4. CASE LockGroup(t) \/ LockAncestors(t) \/ LockLeaf(t) \/ Unlock(t)
  <2>1. at[t] <= End(t)
    BY <1>0, <1>4, StepsOfRoutes DEF LockGroup, LockAncestors, LockLeaf, LockLinks, Unlock, Grouped
  <2> QED
    BY <1>0, <1>3, <1>4, <2>1 DEF LockGroup, LockAncestors, LockLeaf, LockLinks, Unlock
<1>5. CASE Looks(t)
  <2>1. at[t] < End(t) /\ (Plan(t) => at[t] = 2)
    BY <1>5, LooksAreLocked
  <2>2. Plan(t) /\ at' = [at EXCEPT ![t] = @ + 2] => at'[t] = 4
    BY <1>0, <2>1 DEF TrackerTypeOK
  <2> QED
    BY <1>0, <1>2, <1>3, <1>5, <2>1, <2>2, LooksEnd DEF Fails
<1>6. CASE CommitBegins(t) \/ CommitIsWritten(t) \/ (\E e \in RemoteEdits : PullFetches(t, e))
           \/ PullBegins(t) \/ PullRefinds(t)
  <2>1. at' = at
    BY <1>6 DEF CommitBegins, CommitIsWritten, PullFetches, PullBegins, PullRefinds, trackerVars
  <2> QED
    BY <1>0, <2>1
<1>7. CASE CommitEnds(t)
  BY <1>0, <1>7, EndOfCommit
<1>8. CASE PullCompares(t) \/ PullEnds(t)
  BY <1>0, <1>2, <1>8 DEF PullCompares, PullEnds, Results
<1> QED
  BY <1>0, <1>4, <1>5, <1>6, <1>7, <1>8 DEF Acts

\* A ticket that has been written stays so.
LEMMA MintedStays ==
  ASSUME RepoInv, RouteInv, Alone, NEW t \in Tasks, Acts(t), NEW u \in Tasks, Minted(u)
  PROVE  Minted(u)'
<1>1. call' = call /\ \A v \in Tasks \ {t} : Still(v)
  BY OthersStayPut DEF RepoInv
<1>2. CASE u # t
  BY <1>1, <1>2 DEF Minted, Still
<1>3. CASE u = t
  <2>1. at[t] \in 1..8 /\ at'[t] \in 1..8 /\ at[t] <= at'[t]
    BY RoutesGoOn DEF RepoInv
  <2>2. CASE phase[t] # "written"
    BY <1>1, <1>3, <2>1, <2>2 DEF Minted
  <2>3. CASE phase[t] = "written"
    <3>1. ~\E e \in RemoteEdits : PullFetches(t, e)
      BY StepsOfRoutes DEF PullFetches, Alone, Pull, RouteInv
    <3>2. CommitEnds(t)
      BY <2>3, <3>1, WrittenOnlyEnds DEF RepoInv
    <3>3. at[t] < at'[t]
      BY <3>2, EndOfCommit DEF RepoInv
    <3> QED
      BY <1>1, <1>3, <2>1, <3>3 DEF Minted
  <2> QED
    BY <2>2, <2>3
<1> QED
  BY <1>2, <1>3

\* What stays of supersedes that are done.
LEMMA SupersedesStay ==
  ASSUME RepoInv, RouteInv, GroupInv, CommitsStay, SettledStay, call' = call
  PROVE  (\A t \in Superseding : SupersedeHolds(t))'
<1>1. Superseding' = Superseding /\ \A v \in Superseding : path'[v] = path[v] /\ goal'[v] = goal[v]
  BY DEF SettledStay, Settled, Superseding
<1>2. ASSUME NEW v \in Superseding
      PROVE  SupersedeHolds(v)'
  <2>1. SupersedeHolds(v) /\ goal[v] \in CommitIds
    BY DEF GroupInv, SupersedeHolds
  <2>2. ASSUME NEW c \in CommitIds, c = goal[v]
        PROVE  Tree(goal[v])' = Tree(c) /\ Known(goal[v])' = Known(c)
    <3>1. Tree(c)' = Tree(c) /\ Known(c)' = Known(c)
      BY OldCommits DEF RepoInv
    <3>2. goal'[v] = c
      BY <1>1, <2>2
    <3>3. Tree(goal[v])' = Tree(c)' /\ Known(goal[v])' = Known(c)'
      BY <3>2 DEF Tree, Known, Hist
    <3> QED
      BY <3>1, <3>3
  <2>3. Tree(goal[v])' = Tree(goal[v]) /\ Known(goal[v])' = Known(goal[v]) /\ goal[v] \in CommitIds'
    BY <2>1, <2>2 DEF CommitsStay
  <2> QED
    BY <1>1, <2>1, <2>3 DEF SupersedeHolds
<1> QED
  BY <1>1, <1>2

\* The steps that touch neither main nor the commits.
Quiet(t) ==
  \/ LockGroup(t) \/ LockAncestors(t) \/ LockLeaf(t) \/ Unlock(t) \/ Looks(t)
  \/ CommitBegins(t)
  \/ CommitEnds(t) /\ ~CanSwap(t)

\* What those steps leave alone.
LEMMA QuietChanges ==
  ASSUME RepoInv, RouteInv, NEW t \in Tasks, Quiet(t)
  PROVE  /\ Acts(t) /\ UNCHANGED <<commits, main, call, goal, expected>>
         /\ SettledStay /\ \A u \in Tasks : Updating(u)' <=> Updating(u)
<1>0. Acts(t) /\ RepoShape
  BY DEF Quiet, Acts, RepoInv
<1>1. CASE LockGroup(t) \/ LockAncestors(t) \/ LockLeaf(t) \/ Unlock(t)
  <2>1. UNCHANGED <<repoVars, call, path, result>>
    BY <1>1 DEF LockGroup, LockAncestors, LockLeaf, LockLinks, Unlock, Advance
  <2> QED
    BY <1>0, <2>1, SettledStays DEF repoVars
<1>2. CASE Looks(t)
  BY <1>0, <1>2, LooksSettleNobody, LooksAreLocked DEF repoVars
<1>3. CASE CommitBegins(t)
  <2>1. UNCHANGED <<commits, main, call, goal, expected, path, result>>
    BY <1>3 DEF CommitBegins, FindParent, trackerVars
  <2> QED
    BY <1>0, <2>1, SettledStays
<1>4. CASE CommitEnds(t) /\ ~CanSwap(t)
  <2>1. /\ UNCHANGED <<commits, main, call, goal, expected, path>> /\ result'[t] = "race"
        /\ Committing(t)
    BY <1>0, <1>4, EndOfCommit
  <2>2. result[t] = "none"
    BY <2>1, NoResultYet
  <2> QED
    BY <1>0, <2>1, <2>2, SettledStays
<1> QED
  BY <1>1, <1>2, <1>3, <1>4 DEF Quiet
\* The call itself: locks and the first lookup of a commit.
LEMMA LocksFollow ==
  ASSUME RepoInv, RouteInv, NEW t \in Tasks, NEW r \in CommitIds, LeftBy(r),
         LockGroup(t) \/ LockAncestors(t) \/ LockLeaf(t) \/ Unlock(t)
  PROVE  /\ Leaf(t) => LeafFollows(t, r)'
         /\ Grouped(t) => GroupFollows(t)'
<1>1. UNCHANGED <<commits, main, call, path, files, phase, base, goal>> /\ Advance(t)
  BY DEF LockGroup, LockAncestors, LockLeaf, LockLinks, Unlock, repoVars
<1>2. TrackerTypeOK /\ End(t) \in 1..7 /\ at[t] \in 1..8
  BY StepsOfRoutes DEF RouteInv, TrackerTypeOK
<1>3. \/ LockLeaf(t) /\ Leaf(t) /\ at[t] = 3 /\ End(t) = 6
      \/ at[t] = 1
      \/ at[t] = End(t)
  BY <1>2, StepsOfRoutes DEF LockGroup, LockAncestors, LockLeaf, LockLinks, Unlock
<1>4. at'[t] = at[t] + 1
  BY <1>1, <1>2, <1>3, AdvanceByOne
<1>5. phase[t] \notin {"based", "written"}
  <2>1. ~Committing(t)
    BY <1>2, <1>3, StepsOfRoutes DEF Committing, Leaf
  <2> QED
    BY <2>1 DEF RouteInv, RouteFollows, BackendFollows
<1>6. CASE at[t] = 1 \/ at[t] = End(t)
  <2>1. at'[t] \in 1..8 /\ (at'[t] <= 2 \/ at'[t] >= End(t)) /\ phase'[t] \notin {"based", "written"}
    BY <1>1, <1>2, <1>4, <1>5, <1>6
  <2> QED
    BY <1>1, <1>2, <2>1, IdleFollows
<1>7. CASE Leaf(t) /\ at[t] = 3 /\ End(t) = 6
  <2>1. LeafPath(t, r)
    BY <1>7 DEF LeftBy, LeafFollows
  <2>2. LeafPath(t, r)'
    BY <1>1, <2>1, SameRepo DEF LeafPath
  <2>3. ~Grouped(t)
    BY <1>2, <1>7, CallsAreOfAKind
  <2> QED
    BY <1>1, <1>4, <1>5, <1>7, <2>2, <2>3 DEF LeafFollows
<1> QED
  BY <1>3, <1>6, <1>7

\* A commit begins on main, which follows from what was left.
LEMMA BeginFollows ==
  ASSUME RepoInv, RouteInv, NEW t \in Tasks, NEW r \in CommitIds, LeftBy(r), CommitBegins(t)
  PROVE  /\ Leaf(t) => LeafFollows(t, r)'
         /\ Grouped(t) => GroupFollows(t)'
<1>1. /\ UNCHANGED <<commits, main, call, at, path, files, goal, expected, result>>
      /\ phase'[t] = "based" /\ base'[t] = main
  BY DEF CommitBegins, FindParent, trackerVars, RepoInv, RepoShape
<1>2. Tip' = Tip /\ Tree(r)' = Tree(r) /\ Known(main)' = Known(main) /\ Superseding' = Superseding
      /\ Under(call[t].slug)' = Under(call[t].slug) /\ Settled' = Settled /\ End(t)' = End(t)
  <2>1. \A c : Known(c)' = Known(c)
    BY <1>1, SameRepo
  <2>2. Known(main)' = Known(main)
    BY <1>1, <2>1 DEF Known, Hist, Tree
  <2> QED
    BY <1>1, <2>2, SameRepo, SameCall DEF Superseding, Settled, Under, Tip
<1>3. ASSUME Leaf(t)
      PROVE  LeafFollows(t, r)'
  <2>1. LeafFollows(t, r)
    BY <1>3 DEF LeftBy
  <2>2. LeafPath(t, r)' <=> LeafPath(t, r)
    BY <1>1, <1>2 DEF LeafPath
  <2>3. LeafFiles(t, r)' <=> LeafFiles(t, r)
    BY <1>1, <1>2 DEF LeafFiles, Grows
  <2>4. EditedFrom(base[t], r)'
    <3>1. EditedFrom(main, r)
      BY DEF LeftBy
    <3> QED
      BY <1>1, <1>2, <3>1 DEF EditedFrom, Grows, Hist, Tree
  <2> QED
    BY <1>1, <1>2, <2>1, <2>2, <2>3, <2>4 DEF LeafFollows
<1>4. ASSUME Grouped(t)
      PROVE  GroupFollows(t)'
  <2>1. GroupFollows(t)
    BY <1>4 DEF LeftBy
  <2>2. /\ TargetHolds(t)' <=> TargetHolds(t)
        /\ DraftFiles(t)' <=> DraftFiles(t)
        /\ BackLinkFiles(t)' <=> BackLinkFiles(t)
        /\ RenameFiles(t)' <=> RenameFiles(t)
        /\ Drafting(t)' <=> Drafting(t)
    BY <1>1, <1>2 DEF TargetHolds, DraftFiles, BackLinkFiles, RenameFiles, Drafting
  <2> QED
    BY <1>1, <1>2, <2>1, <2>2 DEF GroupFollows
<1> QED
  BY <1>3, <1>4

\* A commit that loses the race ends its call.
LEMMA LostFollows ==
  ASSUME RepoInv, RouteInv, NEW t \in Tasks, NEW r, CommitEnds(t), at'[t] = End(t)
  PROVE  /\ Leaf(t) => LeafFollows(t, r)'
         /\ Grouped(t) => GroupFollows(t)'
<1>1. TrackerTypeOK /\ call' = call /\ at'[t] \in 1..8 /\ phase'[t] = "none"
  BY EndOfCommit DEF RouteInv, RepoInv
<1>2. at'[t] >= End(t)
  BY <1>1
<1> QED
  BY <1>1, <1>2, IdleFollows

\* Steps that touch neither main nor the commits keep what the last exclusive call
\* has left.
LEMMA QuietKeepsGroup ==
  ASSUME RepoInv, RouteInv, CommitInv, LinkInv, Alone, GroupInv, UpdateInv, NEW t \in Tasks, Quiet(t)
  PROVE  GroupInv'
<1>0. PICK r \in CommitIds : LeftBy(r)
  BY DEF GroupInv
<1>1. /\ Acts(t) /\ UNCHANGED <<commits, main, call, goal, expected>> /\ SettledStay
  BY QuietChanges
<1>2. /\ Leaf(t) => LeafFollows(t, r)'
      /\ Grouped(t) => GroupFollows(t)'
  <2>1. TrackerTypeOK
    BY DEF RouteInv
  <2>2. CASE Resolve(t) \/ Compose(t) \/ ComposeMilestone(t) \/ Remove(t)
    BY <1>0, <2>1, <2>2, ResolveFollows, UpdateFollows, DeleteFollows, CallsAreOfAKind
  <2>3. CASE PickTarget(t) \/ Mint(t) \/ DraftMilestone(t) \/ BackLink(t) \/ Plan(t) \/ List(t)
    BY <1>0, <2>1, <2>3, PickFollows, DraftFollows, BackLinkFollows, RenameFollows, CallsAreOfAKind
  <2>4. CASE LockGroup(t) \/ LockAncestors(t) \/ LockLeaf(t) \/ Unlock(t)
    BY <1>0, <2>4, LocksFollow
  <2>5. CASE CommitBegins(t)
    BY <1>0, <2>5, BeginFollows
  <2>6. CASE CommitEnds(t) /\ ~CanSwap(t)
    BY <2>6, EndOfCommit, LostFollows DEF RepoInv
  <2> QED
    BY <2>2, <2>3, <2>4, <2>5, <2>6 DEF Quiet, Looks
<1>3. (\E x \in CommitIds : LeftBy(x))'
  BY <1>0, <1>1, <1>2, HeldMainKeepsLeft
<1>4. IdsAreFresh'
  BY <1>1, MintedStays, SameRepo DEF GroupInv, IdsAreFresh
<1>5. LinksAreKnown'
  BY <1>1, SameRepo DEF GroupInv, LinksAreKnown
<1>6. (\A u \in Superseding : SupersedeHolds(u))'
  <2>1. CommitsStay
    BY <1>1, StepsKeepCommits
  <2> QED
    BY <1>1, <2>1, SupersedesStay
<1> QED
  BY <1>3, <1>4, <1>5, <1>6 DEF GroupInv
-----------------------------------------------------------------------------
(* A commit is written.                                                    *)

\* Where calls commit.
LEMMA CommittingIs ==
  ASSUME RouteInv, NEW t \in Tasks, Committing(t)
  PROVE  \/ Leaf(t) /\ at[t] = 5 /\ End(t) = 6 /\ ~Grouped(t)
         \/ Grouped(t) /\ Drafting(t) /\ ~Leaf(t)
         \/ Grouped(t) /\ call[t].op = "supersede" /\ at[t] = 6 /\ ~Leaf(t) /\ ~Drafting(t)
         \/ Grouped(t) /\ call[t].op = "rename" /\ at[t] = 3 /\ ~Leaf(t) /\ ~Drafting(t)
BY StepsOfRoutes DEF RouteInv, Committing, Drafting, Leaf, Grouped

\* tr is old with the edits e laid over it.
LaidOver(old, e, tr) ==
  /\ DOMAIN tr = (DOMAIN old \ e.drop) \union DOMAIN e.put
  /\ \A p \in DOMAIN e.put : tr[p] = e.put[p]
  /\ \A p \in (DOMAIN old \ e.drop) \ DOMAIN e.put : tr[p] = old[p]
  /\ \A p \in DOMAIN tr :
       \/ p \in DOMAIN e.put /\ tr[p] = e.put[p]
       \/ p \in DOMAIN old /\ p \notin e.drop /\ tr[p] = old[p]

\* build_tree lays the edits over the tree.
LEMMA OverlayIsLaid ==
  ASSUME NEW old, NEW e
  PROVE  LaidOver(old, e, Overlay(old, e))
BY DEF Overlay, LaidOver

\* An update or a delete makes an edit of what it edits.
LEMMA LeafEdits ==
  ASSUME NEW b, NEW r, NEW t, EditedFrom(b, r), LeafPath(t, r), LeafFiles(t, r),
         NEW tr, tr = Overlay(Tree(b), files[t])
  PROVE  /\ DOMAIN tr \subseteq DOMAIN Tree(r)
         /\ \A p \in DOMAIN tr : Grows(tr[p], Tree(r)[p])
         /\ \A p, q \in DOMAIN Tree(r) : p[1] = q[1] /\ p # q => p \in DOMAIN tr
<1>1. /\ DOMAIN tr = (DOMAIN Tree(b) \ files[t].drop) \union DOMAIN files[t].put
      /\ \A p \in DOMAIN files[t].put : tr[p] = files[t].put[p]
      /\ \A p \in (DOMAIN Tree(b) \ files[t].drop) \ DOMAIN files[t].put : tr[p] = Tree(b)[p]
  <2>1. \A x, e : LaidOver(x, e, Overlay(x, e))
    BY OverlayIsLaid
  <2>2. LaidOver(Tree(b), files[t], tr)
    BY <2>1
  <2> QED
    BY <2>2 DEF LaidOver
<1>2. CASE call[t].op = "update"
  <2>1. /\ files[t].drop = {} /\ DOMAIN files[t].put = {path[t]}
        /\ Grows(files[t].put[path[t]], Tree(r)[path[t]])
    BY <1>2 DEF LeafFiles
  <2> QED
    BY <1>1, <2>1 DEF LeafPath, EditedFrom
<1>3. CASE call[t].op = "delete"
  <2>1. files[t].drop = {path[t]} /\ DOMAIN files[t].put = {}
    BY <1>3 DEF LeafFiles
  <2>2. DOMAIN tr = DOMAIN Tree(b) \ {path[t]} /\ \A p \in DOMAIN tr : tr[p] = Tree(b)[p]
    BY <1>1, <2>1
  <2> QED
    BY <2>2 DEF LeafPath, EditedFrom
<1> QED
  BY <1>2, <1>3 DEF LeafFiles

\* A longer history knows more.
LEMMA KnownGrows ==
  ASSUME NEW c, NEW d, Hist(c) \subseteq Hist(d)
  PROVE  Known(c) \subseteq Known(d)
BY DEF Known

\* The ids a call is about to write are of tickets that are there, but for its own;
\* the links it writes are to tickets that main has had.
LEMMA PutsAreKnown ==
  ASSUME RepoInv, RouteInv, GroupInv, NEW t \in Tasks, Committing(t), phase[t] = "based"
  PROVE  \A q \in DOMAIN files[t].put :
           /\ q[2] \in Tasks => Minted(q[2]) \/ (q[2] = t /\ Drafting(t))
           /\ files[t].put[q].successor \in Tasks => files[t].put[q].successor \in Known(base[t])
<1>0. PICK r \in CommitIds : LeftBy(r)
  BY DEF GroupInv
<1>1. main \in CommitIds /\ NoId \notin Tasks
  BY IdsAssumption DEF RepoInv, RepoShape
<1>2. CASE Leaf(t) /\ at[t] = 5 /\ End(t) = 6
  <2>1. LeafPath(t, r) /\ LeafFiles(t, r) /\ EditedFrom(base[t], r)
    BY <1>0, <1>2 DEF LeftBy, LeafFollows
  <2>2. path[t] \in DOMAIN Tree(r)
    BY <2>1 DEF LeafPath
  <2>3. CASE call[t].op = "update"
    <3>1. DOMAIN files[t].put = {path[t]} /\ Grows(files[t].put[path[t]], Tree(r)[path[t]])
      BY <2>1, <2>3 DEF LeafFiles
    <3>2. path[t][2] \in Tasks => Minted(path[t][2])
      BY <2>2 DEF GroupInv, IdsAreFresh
    <3>3. Tree(r)[path[t]].successor \in Tasks => Tree(r)[path[t]].successor \in Known(r)
      BY <2>2 DEF GroupInv, LinksAreKnown
    <3>4. Known(r) \subseteq Known(base[t])
      BY <2>1, KnownGrows DEF EditedFrom
    <3> QED
      BY <3>1, <3>2, <3>3, <3>4 DEF Grows
  <2>4. CASE call[t].op = "delete"
    BY <2>1, <2>4 DEF LeafFiles
  <2> QED
    BY <1>2, <2>3, <2>4 DEF Leaf
<1>3. ASSUME Grouped(t)
      PROVE  GroupFollows(t) /\ base[t] = main
  BY <1>0, <1>3 DEF LeftBy, GroupFollows
<1>4. CASE Grouped(t) /\ Drafting(t)
  <2>1. DraftFiles(t)
    BY <1>3, <1>4 DEF GroupFollows
  <2>2. \A q \in DOMAIN files[t].put : q[2] = t /\ files[t].put[q].successor = NoId
    BY <2>1 DEF DraftFiles
  <2> QED
    BY <1>1, <1>4, <2>2
<1>5. CASE Grouped(t) /\ call[t].op = "supersede" /\ at[t] = 6
  <2>1. End(t) = 7
    BY <1>5, StepsOfRoutes DEF RouteInv
  <2>2. BackLinkFiles(t) /\ TargetHolds(t) /\ t \in Known(main)
    BY <1>3, <1>5, <2>1 DEF GroupFollows
  <2>3. Tip[path[t]] \in Tickets /\ path[t] \in DOMAIN Tree(main)
    BY <1>1, <2>2, TreesOfCommits DEF RepoInv, TargetHolds, Tip
  <2>4. [Tip[path[t]] EXCEPT !.status = "superseded", !.successor = t].successor = t
    BY <2>3 DEF Tickets
  <2>5. path[t][2] \in Tasks => Minted(path[t][2])
    BY <1>1, <2>3 DEF GroupInv, IdsAreFresh
  <2> QED
    BY <1>3, <1>5, <2>2, <2>4, <2>5 DEF BackLinkFiles
<1>6. CASE Grouped(t) /\ call[t].op = "rename" /\ at[t] = 3
  <2>1. RenameFiles(t)
    BY <1>3, <1>6 DEF GroupFollows
  <2>2. ASSUME NEW q \in DOMAIN files[t].put
        PROVE  /\ <<call[t].slug, q[2]>> \in DOMAIN Tree(main)
               /\ files[t].put[q] = Tree(main)[<<call[t].slug, q[2]>>]
    <3>1. PICK p \in Under(call[t].slug) : q = <<call[t].to, p[2]>>
      BY <2>1 DEF RenameFiles
    <3>2. p = <<call[t].slug, p[2]>> /\ p \in DOMAIN Tip
      BY UnderByIds DEF RepoInv
    <3>3. q[2] = p[2]
      BY <3>1
    <3> QED
      BY <2>1, <3>2, <3>3 DEF RenameFiles, Tip
  <2>3. ASSUME NEW q \in DOMAIN files[t].put
        PROVE  /\ q[2] \in Tasks => Minted(q[2])
               /\ files[t].put[q].successor \in Tasks => files[t].put[q].successor \in Known(main)
    <3> DEFINE p == <<call[t].slug, q[2]>>
    <3>1. p[2] = q[2] /\ p \in DOMAIN Tree(main) /\ files[t].put[q] = Tree(main)[p]
      BY <2>2
    <3> HIDE DEF p
    <3> QED
      BY <1>1, <3>1 DEF GroupInv, IdsAreFresh, LinksAreKnown
  <2> QED
    BY <1>3, <1>6, <2>3
<1> QED
  BY <1>2, <1>4, <1>5, <1>6, CommittingIs

\* What an update or a delete writes is an edit of what was left.
LEMMA WrittenFollows ==
  ASSUME RepoInv, RouteInv, CommitInv, NEW t \in Tasks, NEW r \in CommitIds, LeftBy(r), CommitIsWritten(t)
  PROVE  /\ Leaf(t) => LeafFollows(t, r)'
         /\ Grouped(t) => GroupFollows(t)'
<1>0. PICK n : n = Len(commits) + 1
  OBVIOUS
<1>1. /\ Committing(t) /\ phase[t] = "based" /\ phase'[t] = "written"
      /\ base[t] \in CommitIds /\ files[t] \in Edits
      /\ commits' = Append(commits, Child(base[t], files[t], t))
      /\ goal'[t] = n /\ expected'[t] = main
      /\ UNCHANGED <<call, at, path, files, result, main, base>>
  BY <1>0, WrittenIs DEF trackerVars
<1>2. /\ CommitIds' = CommitIds \union {n} /\ CommitsStay
      /\ Hist(n)' = Hist(base[t]) \union {n}
      /\ Tree(n)' = Overlay(Tree(base[t]), files[t])
  BY <1>0, <1>1, NewCommit DEF RepoInv
<1>3. \A c \in CommitIds : Tree(c)' = Tree(c) /\ Hist(c)' = Hist(c) /\ Known(c)' = Known(c)
  BY <1>2, OldCommits DEF RepoInv
<1>4. ASSUME Leaf(t)
      PROVE  LeafFollows(t, r)'
  <2>1. LeafFollows(t, r) /\ at[t] = 5 /\ End(t) = 6
    BY <1>1, <1>4, CommittingIs DEF LeftBy
  <2>2. LeafPath(t, r) /\ LeafFiles(t, r) /\ EditedFrom(base[t], r)
    BY <1>1, <2>1 DEF LeafFollows
  <2>3. LeafPath(t, r)' /\ LeafFiles(t, r)'
    BY <1>1, <1>3, <2>2 DEF LeafPath, LeafFiles, Grows
  <2>4. ASSUME NEW c \in CommitIds, c = base[t]
        PROVE  EditedFrom(base[t], r)'
    <3>1. EditedFrom(c, r)'
      BY <1>2, <2>2, <2>4, OldCommits DEF RepoInv
    <3> QED
      BY <1>1, <2>4, <3>1 DEF EditedFrom, Hist, Tree
  <2>5. EditedFrom(n, r)'
    <3>1. \A tr : tr = Overlay(Tree(base[t]), files[t]) =>
            /\ DOMAIN tr \subseteq DOMAIN Tree(r)
            /\ \A p \in DOMAIN tr : Grows(tr[p], Tree(r)[p])
            /\ \A p, q \in DOMAIN Tree(r) : p[1] = q[1] /\ p # q => p \in DOMAIN tr
      BY <2>2, LeafEdits
    <3>2. Hist(r) \subseteq Hist(base[t])
      BY <2>2 DEF EditedFrom
    <3> QED
      BY <1>2, <1>3, <3>1, <3>2 DEF EditedFrom, Grows
  <2>6. EditedFrom(goal[t], r)'
    BY <1>1, <2>5 DEF EditedFrom, Hist, Tree
  <2>7. EditedFrom(base[t], r)'
    BY <1>1, <2>4
  <2> QED
    BY <2>3, <2>6, <2>7 DEF LeafFollows
<1>5. ASSUME Grouped(t)
      PROVE  GroupFollows(t)'
  <2>1. GroupFollows(t)
    BY <1>5 DEF LeftBy
  <2>2. main \in CommitIds
    BY DEF RepoInv, RepoShape
  <2>3. Tip' = Tip /\ Known(main)' = Known(main)
    <3>1. Tree(main)' = Tree(main)
      BY <1>1, <1>2, <2>2 DEF Tree, CommitsStay
    <3>2. Known(main)' = Known(main)
      BY <1>1, <1>3, <2>2 DEF Known, Hist, Tree
    <3> QED
      BY <3>1, <3>2 DEF Tip
  <2>4. Under(call[t].slug)' = Under(call[t].slug) /\ Superseding' = Superseding /\ Settled' = Settled
    BY <1>1, <2>3 DEF Under, Superseding, Settled
  <2>5. /\ TargetHolds(t)' <=> TargetHolds(t)
        /\ DraftFiles(t)' <=> DraftFiles(t)
        /\ BackLinkFiles(t)' <=> BackLinkFiles(t)
        /\ RenameFiles(t)' <=> RenameFiles(t)
        /\ Drafting(t)' <=> Drafting(t)
    BY <1>1, <2>3, <2>4 DEF TargetHolds, DraftFiles, BackLinkFiles, RenameFiles, Drafting
  <2>6. End(t)' = End(t)
    BY <1>1, SameCall
  <2> QED
    BY <1>1, <2>1, <2>3, <2>5, <2>6 DEF GroupFollows
<1> QED
  BY <1>4, <1>5

\* Writing a commit gives nobody a reply.
LEMMA WrittenSettlesNobody ==
  ASSUME RepoInv, RouteInv, NEW t \in Tasks, CommitIsWritten(t)
  PROVE  SettledStay /\ (\A u \in Tasks : Updating(u)' <=> Updating(u)) /\ Acts(t)
<1>1. Acts(t)
  BY DEF Acts
<1>2. result[t] = "none" /\ result' = result
  BY WrittenIs, NoResultYet DEF trackerVars
<1> QED
  BY <1>1, <1>2, SettledStays DEF RepoInv

\* A commit that is written keeps what the last exclusive call has left, brings
\* only tickets that are there or its own, and only known links.
LEMMA WritingKeepsGroup ==
  ASSUME RepoInv, RouteInv, CommitInv, LinkInv, Alone, GroupInv, NEW t \in Tasks, CommitIsWritten(t)
  PROVE  GroupInv'
<1>0. PICK n : n = Len(commits) + 1
  OBVIOUS
<1>1. /\ Committing(t) /\ phase[t] = "based" /\ phase'[t] = "written"
      /\ base[t] \in CommitIds /\ files[t] \in Edits
      /\ commits' = Append(commits, Child(base[t], files[t], t))
      /\ UNCHANGED <<call, at, path, files, result, main, base>>
  BY <1>0, WrittenIs DEF trackerVars
<1>2. /\ CommitIds' = CommitIds \union {n} /\ CommitsStay
      /\ Hist(n)' = Hist(base[t]) \union {n}
      /\ Tree(n)' = Overlay(Tree(base[t]), files[t])
  BY <1>0, <1>1, NewCommit DEF RepoInv
<1>3. \A c \in CommitIds : Tree(c)' = Tree(c) /\ Hist(c)' = Hist(c) /\ Known(c)' = Known(c)
  BY <1>2, OldCommits DEF RepoInv
<1>4. SettledStay /\ Acts(t)
  BY WrittenSettlesNobody
<1>5. (\E x \in CommitIds : LeftBy(x))'
  <2>1. PICK r \in CommitIds : LeftBy(r)
    BY DEF GroupInv
  <2> QED
    BY <1>1, <1>4, <2>1, WrittenFollows, HeldMainKeepsLeft
<1>6. \A p \in DOMAIN Tree(n)' :
        \/ p \in DOMAIN files[t].put /\ Tree(n)'[p] = files[t].put[p]
        \/ p \in DOMAIN Tree(base[t]) /\ Tree(n)'[p] = Tree(base[t])[p]
  <2>1. \A x, e : LaidOver(x, e, Overlay(x, e))
    BY OverlayIsLaid
  <2>2. LaidOver(Tree(base[t]), files[t], Tree(n)')
    BY <1>2, <2>1
  <2> QED
    BY <2>2 DEF LaidOver
<1>7. IdsAreFresh'
  <2>1. ASSUME NEW u \in Tasks, Minted(u)
        PROVE  Minted(u)'
    BY <1>4, <2>1, MintedStays
  <2>2. ASSUME NEW p \in DOMAIN Tree(n)', p[2] \in Tasks
        PROVE  Minted(p[2])'
    <3>1. CASE p \in DOMAIN files[t].put
      <4>1. Minted(p[2]) \/ (p[2] = t /\ Drafting(t))
        BY <1>1, <2>2, <3>1, PutsAreKnown
      <4>2. Drafting(t) => Minted(t)'
        BY <1>1 DEF Drafting, Minted
      <4> QED
        BY <2>1, <2>2, <4>1, <4>2
    <3>2. CASE p \in DOMAIN Tree(base[t])
      BY <1>1, <2>1, <2>2, <3>2 DEF GroupInv, IdsAreFresh
    <3> QED
      BY <1>6, <3>1, <3>2
  <2> QED
    BY <1>2, <1>3, <2>1, <2>2 DEF GroupInv, IdsAreFresh
<1>8. LinksAreKnown'
  <2>1. Known(base[t]) \subseteq Known(n)'
    <3>1. \A c \in Hist(base[t]) : c \in CommitIds /\ Tree(c)' = Tree(c)
      BY <1>1, <1>3 DEF RepoInv, HistoriesAreClosed
    <3> QED
      BY <1>2, <3>1 DEF Known
  <2>2. ASSUME NEW p \in DOMAIN Tree(n)', Tree(n)'[p].successor \in Tasks
        PROVE  Tree(n)'[p].successor \in Known(base[t])
    <3>1. CASE p \in DOMAIN files[t].put /\ Tree(n)'[p] = files[t].put[p]
      BY <1>1, <2>2, <3>1, PutsAreKnown
    <3>2. CASE p \in DOMAIN Tree(base[t]) /\ Tree(n)'[p] = Tree(base[t])[p]
      BY <1>1, <2>2, <3>2 DEF GroupInv, LinksAreKnown
    <3> QED
      BY <1>6, <3>1, <3>2
  <2> QED
    BY <1>2, <1>3, <2>1, <2>2 DEF GroupInv, LinksAreKnown
<1>9. (\A u \in Superseding : SupersedeHolds(u))'
  BY <1>1, <1>2, <1>4, SupersedesStay
<1> QED
  BY <1>5, <1>7, <1>8, <1>9 DEF GroupInv
-----------------------------------------------------------------------------
(* A commit becomes main.                                                  *)

\* The commit that wins is its call's files on top of the commit it began from.
LEMMA WonIs ==
  ASSUME RepoInv, RouteInv, CommitInv, NEW t \in Tasks, CommitEnds(t), CanSwap(t), NEW g, g = goal[t]
  PROVE  /\ Acts(t) /\ Committing(t) /\ phase[t] = "written" /\ phase'[t] = "none"
         /\ UNCHANGED <<commits, tracking, base, expected, goal, held, call, path, files>>
         /\ main' = g /\ g \in CommitIds /\ base[t] \in CommitIds /\ main = expected[t]
         /\ commits[g].by = t /\ main < g
         /\ Hist(g) = Hist(base[t]) \union {g}
         /\ LaidOver(Tree(base[t]), files[t], Tree(g))
         /\ result[t] = "none" /\ Locked(t)
         /\ \A u \in Tasks \ {t} : Still(u)
         /\ LastCommit(t) => at'[t] = End(t) /\ result'[t] = "ok"
         /\ ~LastCommit(t) => at'[t] = at[t] + 1 /\ result' = result
<1>1. Acts(t) /\ RepoShape
  BY DEF Acts, RepoInv
<1>2. /\ Committing(t) /\ phase[t] = "written" /\ phase'[t] = "none"
      /\ UNCHANGED <<commits, tracking, base, expected, goal, held, call, path, files>>
      /\ main' = goal[t]
      /\ LastCommit(t) => at'[t] = End(t) /\ result'[t] = "ok"
      /\ ~LastCommit(t) => at'[t] = at[t] + 1 /\ result' = result
  BY <1>1, EndOfCommit
<1>3. CommitIsOwn(t)
  BY <1>2 DEF CommitInv
<1>4. /\ g \in CommitIds /\ base[t] \in CommitIds /\ main = expected[t]
      /\ commits[g].by = t /\ main < g
      /\ Hist(g) = Hist(base[t]) \union {g}
      /\ Tree(g) = Overlay(Tree(base[t]), files[t])
  BY <1>3 DEF CommitIsOwn, CanSwap
<1>5. LaidOver(Tree(base[t]), files[t], Tree(g))
  BY <1>4, OverlayIsLaid
<1>6. result[t] = "none" /\ Locked(t)
  BY <1>2, NoResultYet
<1>7. \A u \in Tasks \ {t} : Still(u)
  BY <1>1, OthersStayPut
<1> QED
  BY <1>1, <1>2, <1>4, <1>5, <1>6, <1>7

\* What a commit that wins settles: a supersede, by its second commit; an update.
LEMMA WinsSettle ==
  ASSUME RepoInv, RouteInv, CommitInv, NEW t \in Tasks, CommitEnds(t), CanSwap(t)
  PROVE  /\ call[t].op # "supersede" \/ at[t] # 6 => Superseding' = Superseding
         /\ call[t].op = "supersede" /\ at[t] = 6 => Superseding' = Superseding \union {t}
         /\ call[t].op # "update" /\ (call[t].op # "supersede" \/ at[t] # 6) => SettledStay
         /\ Settled \subseteq Settled' /\ t \notin Settled
         /\ \A u \in Tasks : Updating(u)' <=> Updating(u) \/ (u = t /\ call[t].op = "update")
<1>0. PICK g : g = goal[t]
  OBVIOUS
<1>1. /\ Committing(t) /\ UNCHANGED <<path, goal, call>> /\ result[t] = "none"
      /\ \A u \in Tasks \ {t} : Still(u)
      /\ LastCommit(t) => result'[t] = "ok"
      /\ ~LastCommit(t) => result' = result
  BY <1>0, WonIs
<1>2. LastCommit(t) <=> /\ call[t].op # "rename"
                        /\ call[t].op = "supersede" => at[t] = 6
  BY <1>1, StepsOfRoutes DEF RouteInv
<1>3. \A u \in Tasks \ {t} : result'[u] = result[u]
  BY <1>1 DEF Still
<1> QED
  BY <1>1, <1>2, <1>3 DEF Superseding, Settled, SettledStay, Updating

\* A tree that keeps what exclusive calls leave, where the calls of S are done.
TreeSound(tr, S) ==
  /\ Distinct(tr)
  /\ \A p, q \in DOMAIN tr : p[2] = q[2] => p = q
  /\ \A u \in S : \A p \in DOMAIN tr : p[2] = path[u][2] => tr[p].successor # NoId

\* A new ticket.
LEMMA DraftIsSound ==
  ASSUME NEW t \in Tasks, NEW old, old = Tip, TreeSound(old, Superseding), DraftFiles(t),
         NEW tr, LaidOver(old, files[t], tr)
  PROVE  /\ TreeSound(tr, Superseding) /\ \E p \in DOMAIN tr : p[2] = t
         /\ \A p \in DOMAIN old : p \in DOMAIN tr /\ tr[p] = old[p]
<1>1. /\ files[t].drop = {} /\ DOMAIN files[t].put = {<<call[t].slug, t>>}
      /\ \A p \in DOMAIN old : p[2] # t
      /\ \A u \in Settled : path[u][2] # t
  BY DEF DraftFiles
<1> DEFINE n == <<call[t].slug, t>>
<1>2. /\ DOMAIN tr = DOMAIN old \union {n} /\ n \notin DOMAIN old /\ n[2] = t
      /\ tr[n] = files[t].put[n]
      /\ \A p \in DOMAIN old : tr[p] = old[p]
  BY <1>1 DEF LaidOver
<1>3. /\ tr[n].successor = NoId
      /\ tr[n].kind # "milestone" => tr[n].number # 0
      /\ tr[n].number # 0 => \A p \in DOMAIN old : old[p].number # tr[n].number
  BY <1>1, <1>2 DEF DraftFiles
<1> HIDE DEF n
<1>4. Distinct(tr)
  BY <1>2, <1>3 DEF TreeSound, Distinct
<1>5. \A p, q \in DOMAIN tr : p[2] = q[2] => p = q
  BY <1>1, <1>2 DEF TreeSound
<1>6. \A u \in Superseding : \A p \in DOMAIN tr : p[2] = path[u][2] => tr[p].successor # NoId
  <2>1. \A u \in Superseding : u \in Settled
    BY DEF Superseding, Settled
  <2> QED
    BY <1>1, <1>2, <2>1 DEF TreeSound
<1> QED
  BY <1>2, <1>4, <1>5, <1>6 DEF TreeSound

\* tr is old with the back link of t.
BackLinked(t, old, tr) ==
  /\ TreeSound(tr, Superseding \union {t})
  /\ path[t] \in DOMAIN tr /\ tr[path[t]].successor = t
  /\ \A p \in DOMAIN tr : p \in DOMAIN old /\ (p = path[t] \/ tr[p] = old[p])

\* A back link.
LEMMA BackLinkIsSound ==
  ASSUME NEW t \in Tasks, NEW old, old = Tip, TreeSound(old, Superseding), BackLinkFiles(t), TargetHolds(t),
         old[path[t]] \in Tickets, NEW tr, LaidOver(old, files[t], tr)
  PROVE  BackLinked(t, old, tr)
<1> DEFINE n == path[t]
           x == old[n]
<1>1. /\ files[t].drop = {} /\ DOMAIN files[t].put = {n}
      /\ files[t].put[n] = [x EXCEPT !.status = "superseded", !.successor = t]
      /\ n \in DOMAIN old
  BY DEF BackLinkFiles, TargetHolds
<1>2. /\ DOMAIN tr = DOMAIN old /\ tr[n] = [x EXCEPT !.status = "superseded", !.successor = t]
      /\ \A p \in DOMAIN old \ {n} : tr[p] = old[p]
  BY <1>1 DEF LaidOver
<1>3. tr[n].successor = t /\ tr[n].kind = old[n].kind /\ tr[n].number = old[n].number
  BY <1>2 DEF Tickets
<1>4. t # NoId
  BY IdsAssumption
<1>5. n = path[t]
  OBVIOUS
<1> HIDE DEF n, x
<1>6. \A p \in DOMAIN old : tr[p].kind = old[p].kind /\ tr[p].number = old[p].number
  BY <1>2, <1>3
<1>7. Distinct(tr)
  BY <1>2, <1>6 DEF TreeSound, Distinct
<1>8. \A p, q \in DOMAIN tr : p[2] = q[2] => p = q
  BY <1>2 DEF TreeSound
<1>9. ASSUME NEW u \in Superseding \union {t}, NEW p \in DOMAIN tr, p[2] = path[u][2]
      PROVE  tr[p].successor # NoId
  <2>1. CASE p = n
    BY <1>3, <1>4, <2>1
  <2>2. CASE p # n /\ u \in Superseding
    BY <1>2, <1>9, <2>2 DEF TreeSound
  <2>3. CASE p # n /\ u = t
    BY <1>1, <1>2, <1>5, <1>8, <1>9, <2>3
  <2> QED
    BY <2>1, <2>2, <2>3
<1> QED
  BY <1>1, <1>2, <1>3, <1>5, <1>7, <1>8, <1>9 DEF TreeSound, BackLinked

\* A rename: every file is where it was, or under the new slug.
LEMMA RenameIsSound ==
  ASSUME RepoShape, NEW t \in Tasks, NEW old, old = Tip, TreeSound(old, Superseding), RenameFiles(t),
         NEW tr, LaidOver(old, files[t], tr)
  PROVE  /\ TreeSound(tr, Superseding)
         /\ \A q \in DOMAIN tr : \E p \in DOMAIN old : p[2] = q[2] /\ tr[q] = old[p]
<1> DEFINE Origin(q, p) ==
             /\ p \in DOMAIN old /\ p[2] = q[2] /\ tr[q] = old[p]
             /\ \/ p \in files[t].drop /\ q = <<call[t].to, p[2]>>
                \/ p \notin files[t].drop /\ q = p
<1>1. ASSUME NEW q \in DOMAIN tr
      PROVE  \E p : Origin(q, p)
  <2>1. CASE q \in DOMAIN files[t].put /\ tr[q] = files[t].put[q]
    <3>1. PICK p \in Under(call[t].slug) : q = <<call[t].to, p[2]>>
      BY <2>1 DEF RenameFiles
    <3>2. p = <<call[t].slug, p[2]>> /\ p \in DOMAIN old /\ p \in files[t].drop
      BY UnderByIds DEF RenameFiles
    <3>3. q[2] = p[2]
      BY <3>1
    <3>4. tr[q] = old[p]
      BY <2>1, <3>2, <3>3 DEF RenameFiles
    <3> QED
      BY <3>1, <3>2, <3>3, <3>4
  <2>2. CASE q \in DOMAIN old /\ q \notin files[t].drop /\ tr[q] = old[q]
    BY <2>2
  <2> QED
    BY <2>1, <2>2 DEF LaidOver
<1>2. ASSUME NEW q1 \in DOMAIN tr, NEW q2 \in DOMAIN tr, NEW p, Origin(q1, p), Origin(q2, p)
      PROVE  q1 = q2
  BY <1>2
<1>3. \A p, q \in DOMAIN old : p[2] = q[2] => p = q
  BY DEF TreeSound
<1>4. \A q1, q2 \in DOMAIN tr : q1[2] = q2[2] => q1 = q2
  <2> SUFFICES ASSUME NEW q1 \in DOMAIN tr, NEW q2 \in DOMAIN tr, q1[2] = q2[2]
               PROVE  q1 = q2
    OBVIOUS
  <2>1. PICK p1 : Origin(q1, p1)
    BY <1>1
  <2>2. PICK p2 : Origin(q2, p2)
    BY <1>1
  <2>3. p1 = p2
    BY <1>3, <2>1, <2>2
  <2> QED
    BY <1>2, <2>1, <2>2, <2>3
<1>5. \A q \in DOMAIN tr : \E p \in DOMAIN old : p[2] = q[2] /\ tr[q] = old[p]
  BY <1>1
<1>6. Distinct(tr)
  <2>1. ASSUME NEW q1 \in DOMAIN tr, NEW q2 \in DOMAIN tr, tr[q1].number = tr[q2].number, tr[q1].number # 0
        PROVE  q1 = q2
    <3>1. PICK p1 \in DOMAIN old : p1[2] = q1[2] /\ tr[q1] = old[p1]
      BY <1>5
    <3>2. PICK p2 \in DOMAIN old : p2[2] = q2[2] /\ tr[q2] = old[p2]
      BY <1>5
    <3>3. p1 = p2
      BY <2>1, <3>1, <3>2 DEF TreeSound, Distinct
    <3> QED
      BY <1>4, <3>1, <3>2, <3>3
  <2>2. \A q \in DOMAIN tr : q[2] \in Tasks /\ tr[q].kind # "milestone" => tr[q].number # 0
    BY <1>5 DEF TreeSound, Distinct
  <2> QED
    BY <2>1, <2>2 DEF Distinct
<1>7. \A u \in Superseding : \A q \in DOMAIN tr : q[2] = path[u][2] => tr[q].successor # NoId
  BY <1>5 DEF TreeSound
<1> QED
  BY <1>4, <1>5, <1>6, <1>7 DEF TreeSound
\* An update or a delete that wins leaves what was left before it.
LEMMA LeafWinKeepsLeft ==
  ASSUME RepoInv, RouteInv, CommitInv, Alone, NEW t \in Tasks, NEW r \in CommitIds, LeftBy(r),
         CommitEnds(t), CanSwap(t), Leaf(t)
  PROVE  LeftBy(r)'
<1>0. PICK g : g = goal[t]
  OBVIOUS
<1>1. /\ Committing(t) /\ phase[t] = "written" /\ Locked(t)
      /\ call' = call /\ commits' = commits /\ path' = path /\ main' = g /\ g \in CommitIds
      /\ \A u \in Tasks \ {t} : Still(u)
      /\ LastCommit(t) => at'[t] = End(t)
  BY <1>0, WonIs
<1>2. at'[t] = End(t) /\ call[t].op \notin {"supersede", "rename"}
  BY <1>1, StepsOfRoutes DEF RouteInv, Leaf
<1>3. CommitIds' = CommitIds /\ CommitsStay /\ \A c : Tree(c)' = Tree(c) /\ Hist(c)' = Hist(c)
  BY <1>1 DEF Tree, Hist, CommitIds, CommitsStay
<1>4. Sound(r)'
  <2>1. Superseding' = Superseding
    BY <1>2, WinsSettle
  <2> QED
    BY <1>1, <1>3, <2>1 DEF LeftBy, Sound
<1>5. EditedFrom(main, r)'
  <2>1. EditedFrom(g, r)
    BY <1>0, <1>1 DEF LeftBy, LeafFollows
  <2> QED
    BY <1>1, <2>1 DEF EditedFrom, Grows, Tree, Hist
<1>6. ASSUME NEW u \in Tasks
      PROVE  /\ Leaf(u)' => LeafFollows(u, r)'
             /\ Grouped(u)' => GroupFollows(u)'
  <2>1. Leaf(u)' = Leaf(u) /\ Grouped(u)' = Grouped(u)
    BY <1>1, SameCall
  <2>2. CASE u = t
    BY <1>2, <2>1, <2>2, LostFollows
  <2>3. CASE u # t /\ Leaf(u)
    <3>1. LeafFollows(u, r) /\ Still(u)
      BY <1>1, <2>3 DEF LeftBy
    <3>2. ~Grouped(u)
      BY <2>3, CallsAreOfAKind DEF RouteInv
    <3> QED
      BY <1>1, <1>3, <2>1, <2>3, <3>1, <3>2, LeafStays
  <2>4. CASE u # t /\ ~Leaf(u)
    <3>1. ~Locked(u) /\ ~Pull(u) /\ Still(u)
      BY <1>1, <2>4, LockedTogether DEF Alone, Pull
    <3> QED
      BY <1>1, <2>1, <3>1, UnlockedFollows
  <2> QED
    BY <2>2, <2>3, <2>4
<1> QED
  BY <1>4, <1>5, <1>6 DEF LeftBy

\* What a call that locks the group makes of the tree old when its commit g wins.
WonByGroup(t, g, old) ==
  /\ base[t] = main /\ main \in CommitIds /\ g \in CommitIds /\ Hist(main) \subseteq Hist(g)
  /\ TreeSound(old, Superseding)
  /\ Drafting(t) \/ (call[t].op = "supersede" /\ at[t] = 6) \/ call[t].op = "rename"
  /\ Drafting(t) => /\ TreeSound(Tree(g), Superseding)
                    /\ \A p \in DOMAIN old : p \in DOMAIN Tree(g) /\ Tree(g)[p] = old[p]
                    /\ \E p \in DOMAIN Tree(g) : p[2] = t
                    /\ at[t] # 6
  /\ call[t].op = "supersede" /\ at[t] = 6 =>
       BackLinked(t, old, Tree(g)) /\ TargetHolds(t) /\ t \in Known(main)
  /\ call[t].op = "rename" =>
       /\ TreeSound(Tree(g), Superseding)
       /\ \A q \in DOMAIN Tree(g) : \E p \in DOMAIN old : p[2] = q[2] /\ Tree(g)[q] = old[p]

\* Each of the four commits of an exclusive call, on the main it has begun from.
LEMMA GroupWins ==
  ASSUME RepoInv, RouteInv, CommitInv, Alone, NEW t \in Tasks, NEW r \in CommitIds, LeftBy(r),
         CommitEnds(t), CanSwap(t), Grouped(t), NEW g, g = goal[t], NEW old, old = Tip
  PROVE  WonByGroup(t, g, old)
<1>1. /\ Committing(t) /\ phase[t] = "written" /\ g \in CommitIds
      /\ Hist(g) = Hist(base[t]) \union {g}
      /\ LaidOver(Tree(base[t]), files[t], Tree(g))
  BY WonIs
<1>2. GroupFollows(t)
  BY DEF LeftBy
<1>3. base[t] = main /\ main \in CommitIds /\ Hist(main) \subseteq Hist(g)
  BY <1>1, <1>2 DEF GroupFollows, RepoInv, RepoShape
<1>4. LaidOver(old, files[t], Tree(g))
  BY <1>1, <1>3 DEF Tip
<1>5. TreeSound(old, Superseding)
  <2>1. Sound(main)
    BY EditedIsSound DEF LeftBy
  <2> QED
    BY <2>1 DEF Sound, TreeSound, Tip
<1>6. ASSUME Drafting(t)
      PROVE  /\ TreeSound(Tree(g), Superseding)
             /\ \A p \in DOMAIN old : p \in DOMAIN Tree(g) /\ Tree(g)[p] = old[p]
             /\ \E p \in DOMAIN Tree(g) : p[2] = t
             /\ at[t] # 6
  <2>1. DraftFiles(t)
    BY <1>2, <1>6 DEF GroupFollows
  <2> QED
    BY <1>4, <1>5, <1>6, <2>1, DraftIsSound DEF Drafting
<1>7. ASSUME call[t].op = "supersede" /\ at[t] = 6
      PROVE  BackLinked(t, old, Tree(g)) /\ TargetHolds(t) /\ t \in Known(main)
  <2>1. End(t) = 7
    BY <1>7, StepsOfRoutes DEF RouteInv
  <2>2. BackLinkFiles(t) /\ TargetHolds(t) /\ t \in Known(main)
    BY <1>2, <1>7, <2>1 DEF GroupFollows
  <2>3. old[path[t]] \in Tickets
    BY <1>3, <2>2, TreesOfCommits DEF RepoInv, TargetHolds, Tip
  <2>4. BackLinked(t, old, Tree(g))
    BY <1>4, <1>5, <2>2, <2>3, BackLinkIsSound
  <2> QED
    BY <2>2, <2>4
<1>8. ASSUME call[t].op = "rename"
      PROVE  /\ TreeSound(Tree(g), Superseding)
             /\ \A q \in DOMAIN Tree(g) : \E p \in DOMAIN old : p[2] = q[2] /\ Tree(g)[q] = old[p]
  <2>1. at[t] = 3
    BY <1>1, <1>8 DEF Committing, Leaf
  <2>2. RenameFiles(t)
    BY <1>2, <1>8, <2>1 DEF GroupFollows
  <2> QED
    BY <1>4, <1>5, <2>2, RenameIsSound DEF RepoInv
<1>9. Drafting(t) \/ (call[t].op = "supersede" /\ at[t] = 6) \/ call[t].op = "rename"
  BY <1>1, CommittingIs
<1> QED
  BY <1>1, <1>3, <1>5, <1>6, <1>7, <1>8, <1>9 DEF WonByGroup

\* An exclusive call that wins leaves its commit.
LEMMA GroupWinLeaves ==
  ASSUME RepoInv, RouteInv, CommitInv, Alone, NEW t \in Tasks, NEW r \in CommitIds, LeftBy(r),
         CommitEnds(t), CanSwap(t), Grouped(t), NEW g, g = goal[t]
  PROVE  LeftBy(g)'
<1>0. PICK old : old = Tip
  OBVIOUS
<1>1. /\ Committing(t) /\ phase'[t] = "none" /\ Locked(t)
      /\ call' = call /\ commits' = commits /\ path' = path /\ main' = g /\ g \in CommitIds
      /\ \A u \in Tasks \ {t} : Still(u)
      /\ LastCommit(t) => at'[t] = End(t)
      /\ ~LastCommit(t) => at'[t] = at[t] + 1
  BY WonIs
<1>2. /\ Drafting(t) => /\ TreeSound(Tree(g), Superseding)
                        /\ \A p \in DOMAIN old : p \in DOMAIN Tree(g)
                        /\ \E p \in DOMAIN Tree(g) : p[2] = t
                        /\ at[t] # 6
      /\ call[t].op = "supersede" /\ at[t] = 6 => TreeSound(Tree(g), Superseding \union {t})
      /\ call[t].op = "rename" => TreeSound(Tree(g), Superseding)
      /\ Drafting(t) \/ (call[t].op = "supersede" /\ at[t] = 6) \/ call[t].op = "rename"
  <2>1. WonByGroup(t, g, old)
    BY <1>0, GroupWins
  <2> QED
    BY <2>1 DEF WonByGroup, BackLinked
<1>3. \A c : Tree(c)' = Tree(c) /\ Hist(c)' = Hist(c)
  BY <1>1 DEF Tree, Hist
<1>4. Sound(g)'
  <2>1. TreeSound(Tree(g), Superseding')
    BY <1>2, WinsSettle
  <2> QED
    BY <1>1, <1>3, <2>1 DEF TreeSound, Sound
<1>5. EditedFrom(main, g)'
  BY <1>1 DEF EditedFrom, Grows, Tree, Hist
<1>6. GroupFollows(t)'
  <2>1. CASE at'[t] = End(t)
    BY <2>1, LostFollows
  <2>2. CASE call[t].op = "supersede" /\ at[t] = 4 /\ at'[t] = 5
    <3>1. Drafting(t) /\ GroupFollows(t) /\ End(t) = 7
      BY <2>2, StepsOfRoutes DEF Drafting, LeftBy, RouteInv
    <3>2. TargetHolds(t)
      BY <2>2, <3>1 DEF GroupFollows
    <3>3. Superseding' = Superseding
      BY <2>2, WinsSettle
    <3>4. TargetHolds(t)'
      <4>1. path[t] \in DOMAIN Tree(g)
        BY <1>0, <1>2, <3>1, <3>2 DEF TargetHolds
      <4>2. path[t] \in DOMAIN Tip'
        BY <1>1, <4>1 DEF Tip, Tree
      <4> QED
        BY <1>1, <3>2, <3>3, <4>2 DEF TargetHolds
    <3>5. t \in Known(main)'
      <4>1. g \in Hist(g)
        BY <1>1 DEF RepoInv, HistoriesAreClosed
      <4>2. t \in Known(g)
        BY <1>2, <3>1, <4>1 DEF Known
      <4> QED
        BY <1>1, <4>2 DEF Known, Hist, Tree
    <3> QED
      BY <1>1, <2>2, <3>4, <3>5 DEF GroupFollows, Drafting
  <2>3. CASE call[t].op = "rename" /\ at'[t] = 4
    BY <1>1, <2>3 DEF GroupFollows, Drafting
  <2> QED
    <3>1. LastCommit(t) <=> /\ call[t].op # "rename"
                            /\ call[t].op = "supersede" => at[t] = 6
      BY <1>1, StepsOfRoutes DEF RouteInv
    <3>2. call[t].op = "rename" => at[t] = 3
      BY <1>1, CommittingIs DEF Drafting
    <3>3. call[t].op = "supersede" => at[t] \in {4, 6}
      BY <1>1 DEF Committing, Leaf
    <3> QED
      BY <1>1, <2>1, <2>2, <2>3, <3>1, <3>2, <3>3
<1>7. ASSUME NEW u \in Tasks
      PROVE  /\ Leaf(u)' => LeafFollows(u, g)'
             /\ Grouped(u)' => GroupFollows(u)'
  <2>1. Leaf(u)' = Leaf(u) /\ Grouped(u)' = Grouped(u)
    BY <1>1, SameCall
  <2>2. CASE u = t
    BY <1>6, <2>1, <2>2, CallsAreOfAKind DEF RouteInv
  <2>3. CASE u # t
    <3>1. ~Locked(u) /\ ~Pull(u) /\ Still(u)
      BY <1>1, <2>3, LockedTogether, CallsAreOfAKind DEF Alone, Pull, RouteInv
    <3> QED
      BY <1>1, <2>1, <3>1, UnlockedFollows
  <2> QED
    BY <2>2, <2>3
<1> QED
  BY <1>4, <1>5, <1>7 DEF LeftBy

\* A commit that wins keeps all there is to say of the group.
LEMMA WinKeepsGroup ==
  ASSUME RepoInv, RouteInv, CommitInv, Alone, GroupInv, NEW t \in Tasks, CommitEnds(t), CanSwap(t)
  PROVE  GroupInv'
<1>0. PICK r \in CommitIds : LeftBy(r)
  BY DEF GroupInv
<1>1. PICK g : g = goal[t]
  OBVIOUS
<1>2. /\ Acts(t) /\ Committing(t) /\ UNCHANGED <<commits, goal, call, path>>
      /\ main' = g /\ g \in CommitIds
      /\ LastCommit(t) => result'[t] = "ok"
  BY <1>1, WonIs
<1>3. Grouped(t) \/ Leaf(t)
  BY <1>2, CommittingIs
<1>4. CommitIds' = CommitIds /\ \A c : Tree(c)' = Tree(c) /\ Hist(c)' = Hist(c) /\ Known(c)' = Known(c)
  BY <1>2 DEF Tree, Hist, Known, CommitIds
<1>5. (\E x \in CommitIds : LeftBy(x))'
  <2>1. CASE Leaf(t)
    BY <1>0, <1>4, <2>1, LeafWinKeepsLeft
  <2>2. CASE Grouped(t)
    BY <1>0, <1>1, <1>2, <1>4, <2>2, GroupWinLeaves
  <2> QED
    BY <1>3, <2>1, <2>2
<1>6. IdsAreFresh'
  BY <1>2, <1>4, MintedStays DEF GroupInv, IdsAreFresh
<1>7. LinksAreKnown'
  BY <1>2, <1>4 DEF GroupInv, LinksAreKnown
<1>8. ASSUME NEW u \in Superseding'
      PROVE  SupersedeHolds(u)'
  <2>1. \A v \in Superseding : SupersedeHolds(v)
    BY DEF GroupInv
  <2>2. CASE call[t].op # "supersede" \/ at[t] # 6
    <3>1. Superseding' = Superseding
      BY <2>2, WinsSettle
    <3>2. SupersedeHolds(u)
      BY <1>8, <2>1, <3>1
    <3>3. Tree(goal[u])' = Tree(goal[u]) /\ Known(goal[u])' = Known(goal[u])
      BY <1>2 DEF Tree, Hist, Known
    <3> QED
      BY <1>2, <1>4, <3>1, <3>2, <3>3 DEF SupersedeHolds
  <2>3. CASE call[t].op = "supersede" /\ at[t] = 6
    <3>1. Superseding' = Superseding \union {t}
      BY <2>3, WinsSettle
    <3>2. /\ path[t] \in DOMAIN Tree(g) /\ Tree(g)[path[t]].successor = t
          /\ TargetHolds(t) /\ t \in Known(main) /\ Hist(main) \subseteq Hist(g)
      <4>1. PICK old : old = Tip
        OBVIOUS
      <4>2. Grouped(t)
        BY <2>3 DEF Grouped
      <4>3. WonByGroup(t, g, old)
        BY <1>0, <1>1, <4>1, <4>2, GroupWins
      <4> QED
        BY <2>3, <4>3 DEF WonByGroup, BackLinked
    <3>3. t \in Known(g)
      BY <3>2, KnownGrows
    <3>4. Tree(goal[u])' = Tree(goal[u]) /\ Known(goal[u])' = Known(goal[u])
      BY <1>2 DEF Tree, Hist, Known
    <3>5. CASE u = t
      BY <1>1, <1>2, <1>4, <3>1, <3>2, <3>3, <3>4, <3>5 DEF SupersedeHolds, TargetHolds
    <3>6. CASE u # t
      <4>1. u \in Superseding /\ SupersedeHolds(u)
        BY <1>8, <2>1, <3>1, <3>6
      <4>2. path[u][2] # path[t][2]
        BY <3>2, <4>1 DEF TargetHolds
      <4> QED
        BY <1>2, <1>4, <3>1, <3>4, <4>1, <4>2 DEF SupersedeHolds
    <3> QED
      BY <3>5, <3>6
  <2> QED
    BY <2>2, <2>3
<1> QED
  BY <1>5, <1>6, <1>7, <1>8 DEF GroupInv
-----------------------------------------------------------------------------
(* Updates compose.                                                        *)

\* What an update or a delete is about to commit is what it has composed.
LEMMA DraftsAreComposed ==
  ASSUME RepoInv, RouteInv, NEW s \in Tasks, Quiet(s), Leaf(s), at'[s] = 5
  PROVE  /\ path'[s] = path[s]
         /\ \/ at[s] = 5 /\ files'[s] = files[s]
            \/ at[s] = 4 /\ Advance(s) /\ (Compose(s) \/ ComposeMilestone(s) \/ Remove(s))
<1>1. /\ TrackerTypeOK /\ RepoShape /\ at[s] \in 1..8 /\ End(s) = 6 /\ Acts(s)
      /\ call[s].op \in {"update", "delete"}
  BY StepsOfRoutes, QuietChanges DEF RouteInv, RepoInv, TrackerTypeOK, Leaf
<1>2. CASE LockGroup(s) \/ LockAncestors(s) \/ LockLeaf(s) \/ Unlock(s)
  <2>1. at[s] \in {1, 3, 6} /\ Advance(s)
    BY <1>1, <1>2, StepsOfRoutes
       DEF LockGroup, LockAncestors, LockLeaf, LockLinks, Unlock, Grouped, Leaf
  <2>2. at'[s] = at[s] + 1
    BY <1>1, <2>1, AdvanceByOne
  <2> QED
    BY <2>1, <2>2
<1>3. CASE Looks(s)
  <2>1. ~Plan(s) /\ ~List(s) /\ (at[s] > 2 => path' = path) /\ (Resolve(s) => at[s] = 2)
    BY <1>1, <1>3, LooksAreLocked, LooksChange
  <2>2. ~Fails(s)
    BY <1>1, <1>3, FailFollows
  <2>3. Advance(s) /\ at[s] = 4
    <3>1. Advance(s)
      BY <1>1, <1>3, <2>1, <2>2, LooksEnd
    <3>2. at'[s] = at[s] + 1
      BY <1>3, <3>1, LookGoesOn
    <3> QED
      BY <1>1, <3>1, <3>2
  <2>4. Compose(s) \/ ComposeMilestone(s) \/ Remove(s)
    BY <1>1, <1>3, <2>1, <2>3, LooksAreLocked DEF Looks
  <2> QED
    BY <2>1, <2>3, <2>4
<1>4. CASE CommitBegins(s)
  BY <1>4 DEF CommitBegins, trackerVars
<1>5. CASE CommitEnds(s) /\ ~CanSwap(s)
  <2>1. at'[s] = End(s)
    BY <1>1, <1>5, EndOfCommit
  <2> QED
    BY <1>1, <2>1
<1> QED
  BY <1>2, <1>3, <1>4, <1>5 DEF Quiet

\* An update puts on what an earlier one has put into the ticket.
LEMMA ComposeCarries ==
  ASSUME RepoInv, RouteInv, NEW s \in Tasks, NEW r \in CommitIds, LeftBy(r), Advance(s),
         Compose(s) \/ ComposeMilestone(s) \/ Remove(s),
         NEW t, path[t][2] = path[s][2], \A q \in DOMAIN Tip : q[2] = path[t][2] => t \in Tip[q].applied
  PROVE  \A q \in DOMAIN files'[s].put : t \in files'[s].put[q].applied
<1>1. Looks(s) /\ Leaf(s) /\ at[s] = 4 /\ End(s) = 6
  BY LooksAreLocked, StepsOfRoutes DEF Looks, RouteInv, Leaf
<1>2. at'[s] = 5
  BY <1>1, LookGoesOn
<1>3. ~Fails(s)
  BY <1>1, <1>2, FailFollows
<1>4. LeafPath(s, r)
  BY <1>1 DEF LeftBy, LeafFollows
<1>5. ASSUME NEW p, NEW q, OnlyFile(call[s].slug, p), q \in {p, path[s]},
             files' = [files EXCEPT ![s] = [put |-> [z \in {q} |-> Updated(s, Tip[p])], drop |-> {}]]
      PROVE  \A z \in DOMAIN files'[s].put : t \in files'[s].put[z].applied
  <2>1. p = path[s] /\ p \in DOMAIN Tip
    BY <1>4, <1>5, OnlyFileWasOnly DEF LeftBy, LeafPath, OnlyFile
  <2>2. Tip[p] \in Tickets /\ t \in Tip[p].applied
    BY <2>1, TreesOfCommits DEF RepoInv, RepoShape, Tip
  <2>3. t \in Updated(s, Tip[p]).applied
    BY <2>2 DEF Updated, Tickets
  <2>4. files'[s] = [put |-> [z \in {q} |-> Updated(s, Tip[p])], drop |-> {}]
    BY <1>5 DEF RouteInv, TrackerTypeOK
  <2> QED
    BY <2>3, <2>4
<1>6. ASSUME NEW p, files' = [files EXCEPT ![s] = [put |-> [z \in {} |-> {}], drop |-> {p}]]
      PROVE  \A z \in DOMAIN files'[s].put : t \in files'[s].put[z].applied
  <2>1. files'[s] = [put |-> [z \in {} |-> {}], drop |-> {p}]
    BY <1>6 DEF RouteInv, TrackerTypeOK
  <2> QED
    BY <2>1
<1>7. CASE Compose(s) \/ ComposeMilestone(s)
  BY <1>3, <1>5, <1>7, UpdateMade
<1>8. CASE Remove(s)
  BY <1>3, <1>6, <1>8, DeleteMade
<1> QED
  BY <1>7, <1>8

\* Nothing before c is lost before an earlier d.
LEMMA KeptBefore ==
  ASSUME NEW t, NEW c \in Nat, NEW d \in Nat, KeptTo(t, c), d <= c, goal[t] \in Nat
  PROVE  KeptTo(t, d)
BY DEF KeptTo

\* Steps that touch neither main nor the commits keep what there is to say of
\* updates.
LEMMA QuietKeepsUpdates ==
  ASSUME RepoInv, RouteInv, CommitInv, GroupInv, UpdateInv, NEW s \in Tasks, Quiet(s)
  PROVE  UpdateInv'
<1>0. PICK r \in CommitIds : LeftBy(r)
  BY DEF GroupInv
<1>1. /\ Acts(s) /\ UNCHANGED <<commits, main, call, goal, expected>> /\ SettledStay
      /\ \A u \in Tasks : Updating(u)' <=> Updating(u)
      /\ RepoShape
  BY QuietChanges DEF RepoInv
<1>2. \A u \in Tasks \ {s} : Still(u)
  BY <1>1, OthersStayPut
<1>3. CommitIds' = CommitIds /\ \A c : Tree(c)' = Tree(c) /\ Hist(c)' = Hist(c)
  BY <1>1 DEF Tree, Hist, CommitIds
<1>4. ASSUME NEW t \in Tasks, phase'[t] = "written"
      PROVE  Unseen(t)'
  <2>1. ~CommitIsWritten(s)
    <3>1. CommitIsWritten(s) => commits' # commits
      <4>1. Append(commits, Child(base[s], files[s], s)) # commits
        BY CommitsAreNumbered DEF RepoInv, RepoShape
      <4> QED
        BY <4>1, WrittenIs
    <3> QED
      BY <1>1, <3>1
  <2>2. phase[t] = "written"
    BY <1>1, <1>2, <1>4, <2>1, OnlyWritingWrites DEF Still
  <2>3. Unseen(t)
    BY <2>2 DEF UpdateInv
  <2>4. ASSUME NEW u \in Tasks, phase'[u] \in {"based", "written"}
        PROVE  base'[u] # goal[t]
    <3>1. CASE phase'[u] = phase[u] /\ base'[u] = base[u]
      BY <2>3, <2>4, <3>1 DEF Unseen
    <3>2. CASE base'[u] = main
      BY <2>3, <3>2 DEF Unseen
    <3>3. u # s => phase'[u] = phase[u] /\ base'[u] = base[u]
      BY <1>2 DEF Still
    <3>4. \/ phase' = phase /\ base' = base
          \/ base'[s] = main
          \/ phase'[s] = "none"
      <4>1. CASE LockGroup(s) \/ LockAncestors(s) \/ LockLeaf(s) \/ Unlock(s) \/ Looks(s)
        BY <4>1, LooksChange DEF LockGroup, LockAncestors, LockLeaf, LockLinks, Unlock, repoVars, RepoInv
      <4>2. CASE CommitBegins(s)
        BY <4>2 DEF CommitBegins, FindParent, RepoInv, RepoShape
      <4>3. CASE CommitEnds(s) /\ ~CanSwap(s)
        BY <4>3, EndOfCommit DEF RepoInv
      <4> QED
        BY <4>1, <4>2, <4>3 DEF Quiet
    <3> QED
      BY <2>4, <3>1, <3>2, <3>3, <3>4
  <2> QED
    BY <1>1, <1>3, <2>3, <2>4 DEF Unseen
<1>5. ASSUME NEW t \in Tasks, Updating(t)
      PROVE  /\ UpdateHolds(t) /\ UpdateHolds(t)' /\ path'[t] = path[t]
  <2>1. UpdateHolds(t)
    BY <1>5 DEF UpdateInv
  <2>2. path'[t] = path[t] /\ goal'[t] = goal[t]
    BY <1>1, <1>5 DEF SettledStay, Settled, Updating
  <2>3. Tree(goal[t])' = Tree(goal[t])
    BY <1>1 DEF Tree
  <2>4. \A c : CarriedTo(t, c)' <=> CarriedTo(t, c)
    BY <1>1, <1>3, <2>2 DEF CarriedTo, KeptTo
  <2> QED
    BY <1>1, <1>3, <2>1, <2>2, <2>3, <2>4 DEF UpdateHolds
<1>6. ASSUME NEW t \in Tasks, NEW u \in Tasks, Updating(t), Leaf(u), at'[u] = 5
      PROVE  DraftCarries(t, u)'
  <2>1. path'[t] = path[t] /\ UpdateHolds(t)
    BY <1>5, <1>6
  <2>2. KeptTo(t, Len(commits))' <=> KeptTo(t, Len(commits))
    BY <1>1 DEF KeptTo, Hist
  <2>3. CASE path'[u] = path[u] /\ at[u] = 5 /\ files'[u] = files[u]
    <3>1. DraftCarries(t, u)
      BY <1>6, <2>3 DEF UpdateInv
    <3> QED
      BY <2>1, <2>2, <2>3, <3>1 DEF DraftCarries
  <2>4. CASE /\ u = s /\ path'[u] = path[u] /\ at[s] = 4 /\ Advance(s)
             /\ Compose(s) \/ ComposeMilestone(s) \/ Remove(s)
    <3> SUFFICES ASSUME path[t][2] = path[s][2], KeptTo(t, Len(commits))
                 PROVE  \A q \in DOMAIN files'[s].put : t \in files'[s].put[q].applied
      BY <2>1, <2>2, <2>4 DEF DraftCarries
    <3>1. /\ main \in CommitIds /\ Len(commits) \in Nat /\ CommitIds = 1..Len(commits)
          /\ goal[t] \in CommitIds /\ goal[t] <= main
      BY <2>1, CommitsAreNumbered DEF UpdateHolds, RepoInv, RepoShape
    <3>2. KeptTo(t, main)
      BY <3>1, KeptBefore
    <3>3. \A q \in DOMAIN Tip : q[2] = path[t][2] => t \in Tip[q].applied
      BY <2>1, <3>1, <3>2 DEF UpdateHolds, CarriedTo, Tip
    <3> QED
      BY <1>0, <2>4, <3>3, ComposeCarries
  <2>5. CASE u # s
    BY <1>2, <1>6, <2>3, <2>5 DEF Still
  <2>6. CASE u = s
    BY <1>6, <2>3, <2>4, <2>6, DraftsAreComposed
  <2> QED
    BY <2>5, <2>6
<1>7. \A u \in Tasks : Leaf(u)' <=> Leaf(u)
  BY <1>1, SameCall
<1> QED
  BY <1>1, <1>4, <1>5, <1>6, <1>7 DEF UpdateInv
\* What is about to be committed on b has, of the ticket that t has updated, what
\* t has put into it, if nothing has dropped that.
LEMMA PutsCarry ==
  ASSUME RepoInv, RouteInv, UpdateInv, NEW r \in CommitIds, LeftBy(r),
         NEW s \in Tasks, Committing(s), phase[s] = "based",
         NEW t \in Tasks, Updating(t), KeptTo(t, Len(commits))
  PROVE  \A q \in DOMAIN files[s].put : q[2] = path[t][2] => t \in files[s].put[q].applied
<1>1. UpdateHolds(t) /\ t \in Settled
  BY DEF UpdateInv, Updating, Settled
<1>2. \A q \in DOMAIN Tip : q[2] = path[t][2] => t \in Tip[q].applied
  <2>1. /\ main \in CommitIds /\ Len(commits) \in Nat /\ CommitIds = 1..Len(commits)
        /\ goal[t] \in CommitIds /\ goal[t] <= main
    BY <1>1, CommitsAreNumbered DEF UpdateHolds, RepoInv, RepoShape
  <2>2. KeptTo(t, main)
    BY <2>1, KeptBefore
  <2> QED
    BY <1>1, <2>1, <2>2 DEF UpdateHolds, CarriedTo, Tip
<1>3. CASE Leaf(s) /\ at[s] = 5 /\ End(s) = 6
  <2>1. LeafFiles(s, r) /\ DraftCarries(t, s)
    BY <1>3 DEF LeftBy, LeafFollows, UpdateInv
  <2>2. DOMAIN files[s].put \subseteq {path[s]}
    BY <2>1 DEF LeafFiles
  <2> QED
    BY <2>1, <2>2 DEF DraftCarries
<1>4. CASE Grouped(s) /\ Drafting(s)
  <2>1. DraftFiles(s)
    BY <1>4 DEF LeftBy, GroupFollows
  <2>2. \A q \in DOMAIN files[s].put : q[2] = s
    BY <2>1 DEF DraftFiles
  <2>3. path[t][2] # s
    BY <1>1, <2>1 DEF DraftFiles
  <2> QED
    BY <2>2, <2>3
<1>5. CASE Grouped(s) /\ call[s].op = "supersede" /\ at[s] = 6
  <2>1. End(s) = 7
    BY <1>5, StepsOfRoutes DEF RouteInv
  <2>2. BackLinkFiles(s) /\ TargetHolds(s)
    BY <1>5, <2>1 DEF LeftBy, GroupFollows
  <2>3. Tip[path[s]] \in Tickets /\ path[s] \in DOMAIN Tip
    BY <2>2, TreesOfCommits DEF RepoInv, RepoShape, TargetHolds, Tip
  <2>4. [Tip[path[s]] EXCEPT !.status = "superseded", !.successor = s].applied = Tip[path[s]].applied
    BY <2>3 DEF Tickets
  <2>5. /\ DOMAIN files[s].put = {path[s]}
        /\ files[s].put[path[s]].applied = Tip[path[s]].applied
    BY <2>2, <2>4 DEF BackLinkFiles
  <2> QED
    BY <1>2, <2>3, <2>5
<1>6. CASE Grouped(s) /\ call[s].op = "rename" /\ at[s] = 3
  <2>1. RenameFiles(s)
    BY <1>6 DEF LeftBy, GroupFollows
  <2>2. ASSUME NEW q \in DOMAIN files[s].put, q[2] = path[t][2]
        PROVE  t \in files[s].put[q].applied
    <3>1. PICK p \in Under(call[s].slug) : q = <<call[s].to, p[2]>>
      BY <2>1 DEF RenameFiles
    <3>2. p = <<call[s].slug, p[2]>> /\ p \in DOMAIN Tip
      BY UnderByIds DEF RepoInv
    <3>3. q[2] = p[2]
      BY <3>1
    <3>4. files[s].put[q] = Tip[p]
      BY <2>1, <3>2, <3>3 DEF RenameFiles
    <3> QED
      BY <1>2, <2>2, <3>2, <3>3, <3>4
  <2> QED
    BY <2>2
<1> QED
  BY <1>3, <1>4, <1>5, <1>6, CommittingIs

\* A commit that is written keeps what there is to say of updates: it has them if it drops none.
LEMMA WritingKeepsUpdates ==
  ASSUME RepoInv, RouteInv, CommitInv, GroupInv, UpdateInv, NEW s \in Tasks, CommitIsWritten(s)
  PROVE  UpdateInv'
<1>0. PICK r \in CommitIds : LeftBy(r)
  BY DEF GroupInv
<1>1. PICK n : n = Len(commits) + 1
  OBVIOUS
<1>2. /\ Committing(s) /\ phase[s] = "based" /\ phase'[s] = "written"
      /\ base[s] \in CommitIds /\ files[s] \in Edits
      /\ commits' = Append(commits, Child(base[s], files[s], s))
      /\ goal'[s] = n
      /\ UNCHANGED <<call, at, path, files, result, main, base>>
      /\ Acts(s) /\ RepoShape /\ HistoriesAreClosed /\ main \in CommitIds
  BY <1>1, WrittenIs DEF trackerVars, Acts, RepoInv, RepoShape
<1>3. /\ CommitIds' = CommitIds \union {n} /\ CommitsStay /\ n \in Nat /\ Len(commits') = n
      /\ \A c \in CommitIds : c \in Nat /\ c < n
      /\ Hist(n)' = Hist(base[s]) \union {n}
      /\ Tree(n)' = Overlay(Tree(base[s]), files[s])
  BY <1>1, <1>2, NewCommit
<1>4. \A c \in CommitIds : Tree(c)' = Tree(c) /\ Hist(c)' = Hist(c)
  BY <1>2, <1>3, OldCommits
<1>5. SettledStay /\ (\A u \in Tasks : Updating(u)' <=> Updating(u))
  BY WrittenSettlesNobody
<1>6. (\A u \in Tasks \ {s} : Still(u)) /\ Len(commits) \in Nat /\ CommitIds = 1..Len(commits)
  BY <1>2, OthersStayPut, CommitsAreNumbered
<1>7. ASSUME NEW t \in Tasks, phase'[t] = "written"
      PROVE  Unseen(t)'
  <2>1. \A u \in Tasks : phase'[u] \in {"based", "written"} => base[u] \in CommitIds
    BY <1>2, <1>6 DEF Still, RepoInv, LookupsAreCommits
  <2>2. CASE t = s
    <3>1. \A c \in CommitIds : n \notin Hist(c)
      BY <1>3 DEF CommitInv, CommitsAreDated
    <3>2. \A c \in CommitIds' : n \in Hist(c)' => c = n
      BY <1>3, <1>4, <3>1
    <3>3. \A u \in Tasks : phase'[u] \in {"based", "written"} => base'[u] # n
      BY <1>2, <1>3, <2>1
    <3>4. main' # n
      BY <1>2, <1>3
    <3> QED
      BY <1>2, <2>2, <3>2, <3>3, <3>4 DEF Unseen
  <2>3. CASE t # s
    <3>1. phase[t] = "written" /\ goal'[t] = goal[t]
      BY <1>6, <1>7, <2>3 DEF Still
    <3>2. Unseen(t) /\ goal[t] \in CommitIds
      BY <3>1 DEF UpdateInv, CommitInv, CommitIsOwn
    <3>3. base[s] # goal[t]
      BY <1>2, <3>2 DEF Unseen
    <3>4. goal[t] \notin Hist(n)'
      BY <1>2, <1>3, <3>2, <3>3 DEF Unseen
    <3>5. \A c \in CommitIds' : goal[t] \in Hist(c)' => c = goal[t]
      BY <1>3, <1>4, <3>2, <3>4 DEF Unseen
    <3>6. \A u \in Tasks : phase'[u] \in {"based", "written"} => base'[u] # goal[t]
      BY <1>2, <1>6, <3>2, <3>3 DEF Unseen, Still
    <3> QED
      BY <1>2, <3>1, <3>2, <3>5, <3>6 DEF Unseen
  <2> QED
    BY <2>2, <2>3
<1>8. ASSUME NEW t \in Tasks, Updating(t)
      PROVE  /\ path'[t] = path[t] /\ goal'[t] = goal[t] /\ goal[t] \in CommitIds /\ goal[t] <= main
             /\ UpdateHolds(t)
             /\ \A d \in CommitIds : KeptTo(t, d)' <=> KeptTo(t, d)
  <2>1. UpdateHolds(t)
    BY <1>8 DEF UpdateInv
  <2>2. path'[t] = path[t] /\ goal'[t] = goal[t]
    BY <1>5, <1>8 DEF SettledStay, Settled, Updating
  <2>3. goal[t] \in CommitIds /\ goal[t] <= main
    BY <2>1 DEF UpdateHolds
  <2>4. ASSUME NEW d \in CommitIds
        PROVE  KeptTo(t, d)' <=> KeptTo(t, d)
    <3>1. \A c \in goal[t]..d : Hist(c)' = Hist(c)
      BY <1>4, <1>6, <2>3
    <3> QED
      BY <2>2, <3>1 DEF KeptTo
  <2> QED
    BY <2>1, <2>2, <2>3, <2>4
<1>9. ASSUME NEW t \in Tasks, Updating(t), KeptTo(t, n)'
      PROVE  /\ goal[t] \in Hist(base[s]) /\ KeptTo(t, Len(commits)) /\ KeptTo(t, base[s]) /\ goal[t] <= base[s]
  <2>1. /\ goal'[t] = goal[t] /\ goal[t] \in CommitIds /\ main \in CommitIds /\ goal[t] <= main
    BY <1>2, <1>8, <1>9
  <2>2. \A c \in goal[t]..n : goal[t] \in Hist(c)'
    BY <1>9, <2>1 DEF KeptTo
  <2>3. goal[t] < n
    BY <1>3, <2>1
  <2>4. goal[t] \in Hist(base[s])
    BY <1>3, <1>6, <2>1, <2>2, <2>3
  <2>5. goal[t] <= base[s]
    BY <1>2, <2>4 DEF CommitInv, CommitsAreDated
  <2>6. KeptTo(t, Len(commits))
    <3>1. \A c \in goal[t]..Len(commits) : c \in goal[t]..n /\ Hist(c)' = Hist(c)
      BY <1>1, <1>4, <1>6, <2>1
    <3> QED
      BY <2>2, <3>1 DEF KeptTo
  <2>7. KeptTo(t, base[s])
    BY <1>2, <1>6, <2>1, <2>6, KeptBefore
  <2> QED
    BY <2>4, <2>5, <2>6, <2>7
<1>10. ASSUME NEW t \in Tasks, Updating(t)
       PROVE  UpdateHolds(t)'
  <2>1. /\ path'[t] = path[t] /\ goal'[t] = goal[t] /\ goal[t] \in CommitIds /\ goal[t] <= main
        /\ UpdateHolds(t)
        /\ \A d \in CommitIds : KeptTo(t, d)' <=> KeptTo(t, d)
    BY <1>8, <1>10
  <2>2. ASSUME NEW c \in CommitIds
        PROVE  CarriedTo(t, c)'
    <3>1. CarriedTo(t, c)
      BY <2>1 DEF UpdateHolds
    <3> QED
      BY <1>4, <2>1, <3>1 DEF CarriedTo
  <2>3. CarriedTo(t, n)'
    <3> SUFFICES ASSUME KeptTo(t, n)', NEW q \in DOMAIN Tree(n)', q[2] = path[t][2]
                 PROVE  t \in Tree(n)'[q].applied
      BY <2>1 DEF CarriedTo
    <3>1. KeptTo(t, Len(commits)) /\ KeptTo(t, base[s]) /\ goal[t] <= base[s]
      BY <1>9, <1>10
    <3>2. CarriedTo(t, base[s])
      BY <1>2, <2>1 DEF UpdateHolds
    <3>3. LaidOver(Tree(base[s]), files[s], Tree(n)')
      BY <1>3, OverlayIsLaid
    <3>4. CASE q \in DOMAIN files[s].put /\ Tree(n)'[q] = files[s].put[q]
      BY <1>0, <1>2, <1>10, <3>1, <3>4, PutsCarry
    <3>5. CASE q \in DOMAIN Tree(base[s]) /\ Tree(n)'[q] = Tree(base[s])[q]
      BY <3>1, <3>2, <3>5 DEF CarriedTo
    <3> QED
      BY <3>3, <3>4, <3>5 DEF LaidOver
  <2>4. Tree(goal[t])' = Tree(goal[t])
    <3>1. \A c \in CommitIds : commits'[c] = commits[c]
      BY <1>3 DEF CommitsStay
    <3> QED
      BY <2>1, <3>1 DEF Tree
  <2> QED
    BY <1>2, <1>3, <2>1, <2>2, <2>3, <2>4 DEF UpdateHolds
<1>11. ASSUME NEW t \in Tasks, NEW u \in Tasks, Updating(t), Leaf(u), at[u] = 5
       PROVE  DraftCarries(t, u)'
  <2>1. DraftCarries(t, u)
    BY <1>11 DEF UpdateInv
  <2>2. KeptTo(t, Len(commits))' => KeptTo(t, n)'
    BY <1>3 DEF KeptTo, Hist
  <2>3. KeptTo(t, Len(commits))' => KeptTo(t, Len(commits))
    BY <1>9, <1>11, <2>2
  <2> QED
    BY <1>2, <2>1, <2>3 DEF DraftCarries
<1>12. \A u \in Tasks : Leaf(u)' <=> Leaf(u)
  BY <1>2, SameCall
<1> QED
  BY <1>2, <1>5, <1>7, <1>10, <1>11, <1>12 DEF UpdateInv

\* So does a commit that becomes main; its update is in no other commit yet.
LEMMA WinKeepsUpdates ==
  ASSUME RepoInv, RouteInv, CommitInv, Alone, GroupInv, UpdateInv, NEW s \in Tasks, CommitEnds(s), CanSwap(s)
  PROVE  UpdateInv'
<1>0. PICK r \in CommitIds : LeftBy(r)
  BY DEF GroupInv
<1>1. PICK g : g = goal[s]
  OBVIOUS
<1>2. /\ Acts(s) /\ Committing(s) /\ phase[s] = "written" /\ phase'[s] = "none"
      /\ UNCHANGED <<commits, base, goal, call, path, files>>
      /\ main' = g /\ g \in CommitIds /\ commits[g].by = s /\ main < g
      /\ LaidOver(Tree(base[s]), files[s], Tree(g))
      /\ Locked(s) /\ (\A u \in Tasks \ {s} : Still(u))
      /\ LastCommit(s) => at'[s] = End(s)
  BY <1>1, WonIs
<1>3. CommitIds' = CommitIds /\ \A c : Tree(c)' = Tree(c) /\ Hist(c)' = Hist(c)
  BY <1>2 DEF Tree, Hist, CommitIds
<1>4. /\ main \in CommitIds /\ Len(commits) \in Nat /\ CommitIds = 1..Len(commits)
  BY CommitsAreNumbered DEF RepoInv, RepoShape
<1>5. \A u \in Tasks : Updating(u)' <=> Updating(u) \/ (u = s /\ call[s].op = "update")
  BY WinsSettle
<1>6. ASSUME NEW t \in Tasks, phase'[t] = "written"
      PROVE  Unseen(t)'
  <2>1. t # s /\ phase[t] = "written"
    BY <1>2, <1>6 DEF Still
  <2>2. Unseen(t) /\ commits[goal[t]].by = t
    BY <2>1 DEF UpdateInv, CommitInv, CommitIsOwn
  <2>3. goal[t] # g
    BY <1>2, <2>1, <2>2
  <2>4. \A u \in Tasks : phase'[u] \in {"based", "written"} => phase[u] \in {"based", "written"}
    BY <1>2 DEF Still
  <2> QED
    BY <1>2, <1>3, <2>2, <2>3, <2>4 DEF Unseen
<1>7. \A t, c : KeptTo(t, c)' <=> KeptTo(t, c)
  BY <1>2, <1>3 DEF KeptTo
<1>8. \A t, c : CarriedTo(t, c)' <=> CarriedTo(t, c)
  BY <1>2, <1>3, <1>7 DEF CarriedTo
<1>9. ASSUME NEW t \in Tasks, Updating(t)
      PROVE  UpdateHolds(t)'
  <2>1. UpdateHolds(t)
    BY <1>9 DEF UpdateInv
  <2>2. Tree(goal[t])' = Tree(goal[t])
    BY <1>2 DEF Tree
  <2>3. goal[t] <= main'
    BY <1>2, <1>4, <2>1 DEF UpdateHolds
  <2> QED
    BY <1>2, <1>3, <1>8, <2>1, <2>2, <2>3 DEF UpdateHolds
<1>10. ASSUME call[s].op = "update"
       PROVE  UpdateHolds(s)' /\ Leaf(s) /\ at[s] = 5 /\ End(s) = 6
  <2>1. Leaf(s) /\ at[s] = 5 /\ End(s) = 6
    BY <1>2, <1>10, CommittingIs, StepsOfRoutes DEF Leaf, RouteInv, Committing
  <2>2. LeafFiles(s, r) /\ EditedFrom(goal[s], r) /\ Sound(r)
    BY <1>0, <1>2, <2>1 DEF LeftBy, LeafFollows
  <2>3. /\ DOMAIN files[s].put = {path[s]} /\ s \in files[s].put[path[s]].applied
    BY <1>10, <2>2 DEF LeafFiles
  <2>4. path[s] \in DOMAIN Tree(g) /\ s \in Tree(g)[path[s]].applied
    BY <1>2, <2>3 DEF LaidOver
  <2>5. Sound(g)
    BY <1>1, <2>2, EditedIsSound
  <2>6. \A q \in DOMAIN Tree(g) : q[2] = path[s][2] => q = path[s]
    BY <2>4, <2>5 DEF Sound
  <2>7. Unseen(s)
    BY <1>2 DEF UpdateInv
  <2>8. ASSUME NEW c \in CommitIds
        PROVE  CarriedTo(s, c)
    <3> SUFFICES ASSUME g <= c, KeptTo(s, c), NEW q \in DOMAIN Tree(c), q[2] = path[s][2]
                 PROVE  s \in Tree(c)[q].applied
      BY <1>1 DEF CarriedTo
    <3>1. g \in Hist(c)
      BY <1>1, <1>2, <1>4 DEF KeptTo
    <3>2. c = g
      BY <1>1, <2>7, <3>1 DEF Unseen
    <3> QED
      BY <2>4, <2>6, <3>2
  <2>9. Tree(goal[s])' = Tree(g) /\ goal'[s] = g
    BY <1>1, <1>2 DEF Tree
  <2> QED
    BY <1>2, <1>3, <1>4, <1>8, <2>1, <2>4, <2>8, <2>9 DEF UpdateHolds
<1>11. ASSUME NEW t \in Tasks, NEW u \in Tasks, Updating(t)', Leaf(u), at'[u] = 5
       PROVE  DraftCarries(t, u)'
  <2>1. u # s
    <3>1. Leaf(s) => at'[s] = 6
      BY <1>2, StepsOfRoutes DEF Leaf, RouteInv
    <3> QED
      BY <1>11, <3>1
  <2>2. Still(u) /\ at[u] = 5
    BY <1>2, <1>11, <2>1 DEF Still
  <2>3. CASE Updating(t)
    <3>1. DraftCarries(t, u)
      BY <1>11, <2>2, <2>3 DEF UpdateInv
    <3>2. KeptTo(t, Len(commits))' <=> KeptTo(t, Len(commits))
      BY <1>2 DEF KeptTo, Hist
    <3> QED
      BY <1>2, <3>1, <3>2 DEF DraftCarries
  <2>4. CASE t = s /\ call[s].op = "update"
    <3>1. Leaf(s) /\ at[s] = 5 /\ End(s) = 6
      BY <1>10, <2>4
    <3>2. End(u) = 6 /\ ~Pull(u)
      BY <1>11, StepsOfRoutes, CallsAreOfAKind DEF RouteInv
    <3>3. path[s][2] # path[u][2]
      BY <1>2, <2>1, <2>2, <3>1, <3>2, LockedTogether DEF Locked
    <3> QED
      BY <1>2, <2>4, <3>3 DEF DraftCarries
  <2> QED
    BY <1>5, <1>11, <2>3, <2>4
<1>12. \A u \in Tasks : Leaf(u)' <=> Leaf(u)
  BY <1>2, SameCall
<1> QED
  BY <1>5, <1>6, <1>9, <1>10, <1>11, <1>12 DEF UpdateInv
-----------------------------------------------------------------------------
(* Every behaviour.                                                        *)

\* The calls to come have left nothing, and nobody is under way.
LEMMA InitIsGrouped ==
  ASSUME Init
  PROVE  AloneInv
<1>1. /\ CommitIds = {1} /\ main = 1 /\ Hist(1) = {1} /\ Tree(1) \in Seeds
      /\ \A t \in Tasks : /\ DOMAIN files[t].put = {} /\ phase[t] = "none"
                          /\ result[t] = "none" /\ at[t] = 1
  BY InitIsPaired
<1>2. Superseding = {} /\ Settled = {} /\ \A t \in Tasks : ~Updating(t)
  BY <1>1 DEF Superseding, Settled, Updating
<1>3. /\ Distinct(Tree(1))
      /\ \A p, q \in DOMAIN Tree(1) : p[2] = q[2] => p = q
      /\ \A p \in DOMAIN Tree(1) : p[2] \notin Tasks /\ Tree(1)[p].successor \notin Tasks
  BY <1>1, SeedsAssumption
<1>4. LeftBy(1)
  <2>1. Sound(1)
    BY <1>2, <1>3 DEF Sound
  <2>2. EditedFrom(main, 1)
    BY <1>1 DEF EditedFrom, Grows
  <2>3. ASSUME NEW t \in Tasks
        PROVE  LeafFollows(t, 1) /\ GroupFollows(t)
    BY <1>1 DEF LeafFollows, GroupFollows, Drafting
  <2> QED
    BY <2>1, <2>2, <2>3 DEF LeftBy
<1>5. IdsAreFresh /\ LinksAreKnown
  BY <1>1, <1>3 DEF IdsAreFresh, LinksAreKnown
<1>6. GroupInv
  BY <1>1, <1>2, <1>4, <1>5 DEF GroupInv
<1>7. UpdateInv
  BY <1>1, <1>2 DEF UpdateInv
<1> QED
  BY <1>6, <1>7 DEF AloneInv

\* A step that is none changes nothing that is said of the group.
LEMMA StutterKeepsGroup ==
  ASSUME UNCHANGED vars, AloneInv
  PROVE  AloneInv'
<1>1. /\ UNCHANGED <<commits, main, tracking, phase, base, expected, goal>>
      /\ UNCHANGED <<held, call, at, path, files, result>>
  BY DEF vars, repoVars, trackerVars
<1>2. /\ CommitIds' = CommitIds /\ Tip' = Tip /\ Superseding' = Superseding /\ Settled' = Settled
      /\ \A c : Tree(c)' = Tree(c) /\ Hist(c)' = Hist(c) /\ Known(c)' = Known(c)
      /\ \A s : Under(s)' = Under(s)
      /\ Alone' <=> Alone
  BY <1>1 DEF CommitIds, Tip, Tree, Hist, Known, Superseding, Settled, Under, Alone
<1>3. ASSUME NEW t
      PROVE  /\ Tree(goal[t])' = Tree(goal[t]) /\ Known(goal[t])' = Known(goal[t])
             /\ End(t)' = End(t) /\ (Leaf(t)' <=> Leaf(t)) /\ (Grouped(t)' <=> Grouped(t))
             /\ (Drafting(t)' <=> Drafting(t)) /\ (Minted(t)' <=> Minted(t))
             /\ (Updating(t)' <=> Updating(t))
  BY <1>1 DEF Tree, Known, Hist, End, Steps, Leaf, Grouped, Drafting, Minted, Updating
<1>4. \A c, r : EditedFrom(c, r)' <=> EditedFrom(c, r)
  BY <1>2 DEF EditedFrom, Grows
<1>5. ASSUME NEW r, LeftBy(r)
      PROVE  LeftBy(r)'
  <2>1. Sound(r)'
    BY <1>1, <1>2, <1>5 DEF LeftBy, Sound
  <2>2. EditedFrom(main, r)'
    BY <1>1, <1>5 DEF LeftBy, EditedFrom, Grows, Tree, Hist
  <2>3. ASSUME NEW t \in Tasks, Leaf(t)
        PROVE  LeafFollows(t, r)'
    <3>1. LeafFollows(t, r)
      BY <1>5, <2>3 DEF LeftBy
    <3>2. EditedFrom(base[t], r)' <=> EditedFrom(base[t], r)
      BY <1>1 DEF EditedFrom, Grows, Tree, Hist
    <3>3. EditedFrom(goal[t], r)' <=> EditedFrom(goal[t], r)
      BY <1>1 DEF EditedFrom, Grows, Tree, Hist
    <3>4. /\ LeafPath(t, r)' <=> LeafPath(t, r)
          /\ LeafFiles(t, r)' <=> LeafFiles(t, r)
      BY <1>1, <1>2 DEF LeafPath, LeafFiles, Grows
    <3> QED
      BY <1>1, <1>3, <3>1, <3>2, <3>3, <3>4 DEF LeafFollows
  <2>4. ASSUME NEW t \in Tasks, Grouped(t)
        PROVE  GroupFollows(t)'
    <3>1. GroupFollows(t)
      BY <1>5, <2>4 DEF LeftBy
    <3>2. /\ TargetHolds(t)' <=> TargetHolds(t)
          /\ DraftFiles(t)' <=> DraftFiles(t)
          /\ BackLinkFiles(t)' <=> BackLinkFiles(t)
          /\ RenameFiles(t)' <=> RenameFiles(t)
      BY <1>1, <1>2 DEF TargetHolds, DraftFiles, BackLinkFiles, RenameFiles
    <3>3. Known(main)' = Known(main)
      BY <1>1 DEF Known, Hist, Tree
    <3> QED
      BY <1>1, <1>3, <3>1, <3>2, <3>3 DEF GroupFollows
  <2> QED
    BY <1>3, <2>1, <2>2, <2>3, <2>4 DEF LeftBy
<1>6. GroupInv => GroupInv'
  <2>1. /\ IdsAreFresh' <=> IdsAreFresh
        /\ LinksAreKnown' <=> LinksAreKnown
    BY <1>2, <1>3 DEF IdsAreFresh, LinksAreKnown
  <2>2. \A t : SupersedeHolds(t)' <=> SupersedeHolds(t)
    BY <1>1, <1>2, <1>3 DEF SupersedeHolds
  <2> QED
    BY <1>2, <1>5, <2>1, <2>2 DEF GroupInv
<1>7. UpdateInv => UpdateInv'
  <2>1. /\ \A t : Unseen(t)' <=> Unseen(t)
        /\ \A t, c : CarriedTo(t, c)' <=> CarriedTo(t, c)
        /\ \A t, u : DraftCarries(t, u)' <=> DraftCarries(t, u)
    BY <1>1, <1>2 DEF Unseen, CarriedTo, DraftCarries, KeptTo, Hist
  <2>2. \A t : UpdateHolds(t)' <=> UpdateHolds(t)
    BY <1>1, <1>2, <1>3, <2>1 DEF UpdateHolds
  <2> QED
    BY <1>1, <1>3, <2>1, <2>2 DEF UpdateInv
<1> QED
  BY <1>2, <1>6, <1>7 DEF AloneInv

\* Where no pull runs, every step keeps what is said of the group.
LEMMA AloneInvKept ==
  ASSUME RepoInv, RouteInv, CommitInv, LinkInv, AloneInv, [Next]_vars
  PROVE  AloneInv'
<1>1. CASE UNCHANGED vars
  BY <1>1, StutterKeepsGroup
<1>2. ASSUME NEW t \in Tasks, Acts(t)
      PROVE  AloneInv'
  <2>1. Alone' <=> Alone
    BY <1>2, OthersStayPut DEF Alone, RepoInv
  <2> SUFFICES ASSUME Alone
               PROVE  GroupInv' /\ UpdateInv'
    BY <2>1 DEF AloneInv
  <2>2. GroupInv /\ UpdateInv
    BY DEF AloneInv
  <2>3. ~In(t, "forward")
    BY StepsOfRoutes DEF RouteInv, Alone, Pull
  <2>4. Quiet(t) \/ CommitIsWritten(t) \/ (CommitEnds(t) /\ CanSwap(t))
    BY <1>2, <2>3 DEF Acts, Quiet, PullFetches, PullBegins, PullCompares, PullRefinds, PullEnds
  <2>5. CASE Quiet(t)
    BY <2>2, <2>5, QuietKeepsGroup, QuietKeepsUpdates
  <2>6. CASE CommitIsWritten(t)
    BY <2>2, <2>6, WritingKeepsGroup, WritingKeepsUpdates
  <2>7. CASE CommitEnds(t) /\ CanSwap(t)
    BY <2>2, <2>7, WinKeepsGroup, WinKeepsUpdates
  <2> QED
    BY <2>4, <2>5, <2>6, <2>7
<1> QED
  BY <1>1, <1>2, NextActs

\* Where no pull runs, only updates and deletes come between two exclusive calls,
\* and they edit what the first has left.
THEOREM GroupInvariance == Spec => []AloneInv
<1>1. Init => AloneInv
  BY InitIsGrouped
<1>2. RepoInv /\ RouteInv /\ CommitInv /\ LinkInv /\ AloneInv /\ [Next]_vars => AloneInv'
  BY AloneInvKept
<1> QED
  BY <1>1, <1>2, TrackerInvariance, CommitInvariance, PTL DEF Spec

\* Where no pull runs, features and issues never share a number, and the counter
\* never wraps, however many are created at once and whatever is edited, moved or
\* dropped beside them.
THEOREM NumbersStayUnique == Spec => []NumbersAreUnique
<1>1. AloneInv => NumbersAreUnique
  <2> SUFFICES ASSUME AloneInv, Alone
               PROVE  Distinct(Tip)
    BY DEF NumbersAreUnique
  <2>1. PICK r : Sound(r) /\ EditedFrom(main, r)
    BY DEF AloneInv, GroupInv, LeftBy
  <2>2. Sound(main)
    BY <2>1, EditedIsSound
  <2> QED
    BY <2>2 DEF Sound, Tip
<1> QED
  BY <1>1, GroupInvariance, PTL

\* Where no pull runs, a back link of the supersede flow always names a ticket that
\* main has had.
THEOREM LinksStayResolved == Spec => []LinksResolve
<1>1. RepoInv /\ AloneInv => LinksResolve
  <2> SUFFICES ASSUME RepoInv, AloneInv, Alone, NEW c \in Hist(main), NEW p \in Linked(c),
                      Tree(c)[p].successor \in Tasks
               PROVE  Tree(c)[p].successor \in Known(c)
    BY DEF LinksResolve
  <2>1. c \in CommitIds
    BY DEF RepoInv, RepoShape, HistoriesAreClosed
  <2> QED
    BY <2>1 DEF AloneInv, GroupInv, LinksAreKnown, Linked
<1> QED
  BY <1>1, TrackerInvariance, GroupInvariance, PTL

\* Where no pull runs, a supersede that replied ok is whole, and no two take one
\* ticket.
THEOREM SupersedesAreWhole == Spec => []SupersedeIsWhole
<1>1. AloneInv => SupersedeIsWhole
  BY DEF AloneInv, GroupInv, SupersedeHolds, SupersedeIsWhole
<1> QED
  BY <1>1, GroupInvariance, PTL

\* Where no pull runs, two updates of one ticket compose, if no commit written
\* between them drops the earlier one's: however many other calls commit beside
\* them, whatever those drop, and whatever the ticket is called by then.
THEOREM UpdatesDoCompose == Spec => []UpdatesCompose
<1>1. AloneInv => UpdatesCompose
  <2> SUFFICES ASSUME AloneInv, Alone, NEW t \in Tasks, NEW u \in Tasks,
                      SameTicket(t, u), goal[t] <= goal[u], \A c \in goal[t]..goal[u] : goal[t] \in Hist(c)
               PROVE  Composed(t, u)
    BY DEF UpdatesCompose
  <2>1. UpdateHolds(t) /\ UpdateHolds(u)
    BY DEF SameTicket, AloneInv, UpdateInv
  <2>2. CarriedTo(t, goal[u]) /\ KeptTo(t, goal[u])
    BY <2>1 DEF UpdateHolds, KeptTo
  <2>3. path[u] \in DOMAIN Tree(goal[u]) /\ path[u][2] = path[t][2]
    BY <2>1 DEF UpdateHolds, SameTicket
  <2> QED
    BY <2>2, <2>3 DEF CarriedTo, Composed
<1> QED
  BY <1>1, GroupInvariance, PTL

\* What a commit that wins makes of a ticket that a supersede has taken.
LEMMA WinKeepsClosed ==
  ASSUME RepoInv, RouteInv, CommitInv, LinkInv, Alone, GroupInv, NEW s \in Tasks, CommitEnds(s), CanSwap(s),
         NEW p \in DOMAIN Tip, Tip[p].successor \in Tasks,
         NEW g, g = goal[s], NEW q \in DOMAIN Tree(g), q[2] = p[2]
  PROVE  Tree(g)[q].successor # NoId
<1>0. PICK r \in CommitIds : LeftBy(r)
  BY DEF GroupInv
<1>1. PICK old : old = Tip
  OBVIOUS
<1>2. Committing(s) /\ phase[s] = "written" /\ NoId \notin Tasks
  BY WonIs, IdsAssumption
<1>3. CASE Leaf(s)
  <2>1. EditedFrom(main, r) /\ EditedFrom(g, r) /\ Sound(r)
    BY <1>0, <1>2, <1>3 DEF LeftBy, LeafFollows
  <2>2. p \in DOMAIN Tree(r) /\ Tree(r)[p].successor \in Tasks
    BY <2>1 DEF EditedFrom, Grows, Tip
  <2>3. q = p
    BY <2>1, <2>2 DEF EditedFrom, Sound
  <2> QED
    BY <1>2, <2>1, <2>2, <2>3 DEF EditedFrom, Grows
<1>4. CASE Grouped(s)
  <2>1. WonByGroup(s, g, old)
    BY <1>0, <1>1, <1>4, GroupWins
  <2>2. \A x, y \in DOMAIN old : x[2] = y[2] => x = y
    BY <2>1 DEF WonByGroup, TreeSound
  <2>3. CASE Drafting(s)
    <3>1. p \in DOMAIN Tree(g) /\ Tree(g)[p] = old[p] /\ TreeSound(Tree(g), Superseding)
      BY <1>1, <2>1, <2>3 DEF WonByGroup
    <3>2. q = p
      BY <3>1 DEF TreeSound
    <3> QED
      BY <1>1, <1>2, <3>1, <3>2
  <2>4. CASE call[s].op = "supersede" /\ at[s] = 6
    <3>1. BackLinked(s, old, Tree(g))
      BY <2>1, <2>4 DEF WonByGroup
    <3>2. q \in DOMAIN old /\ (q = path[s] \/ Tree(g)[q] = old[q]) /\ Tree(g)[path[s]].successor = s
      BY <3>1 DEF BackLinked
    <3>3. q = p
      BY <1>1, <2>2, <3>2
    <3> QED
      BY <1>1, <1>2, <3>2, <3>3
  <2>5. CASE call[s].op = "rename"
    <3>1. PICK x \in DOMAIN old : x[2] = q[2] /\ Tree(g)[q] = old[x]
      BY <2>1, <2>5 DEF WonByGroup
    <3>2. x = p
      BY <1>1, <2>2, <3>1
    <3> QED
      BY <1>1, <1>2, <3>1, <3>2
  <2> QED
    BY <2>1, <2>3, <2>4, <2>5 DEF WonByGroup
<1> QED
  BY <1>2, <1>3, <1>4, CommittingIs

\* Where no pull runs, no step reopens a ticket that the supersede flow has closed,
\* wherever it is by then and whatever commit the step drops.
THEOREM SupersededStaysFinal == Spec => SupersededIsFinal
<1> DEFINE Closed == \A p \in DOMAIN Tip : Tip[p].successor \in Tasks =>
                       \A q \in DOMAIN Tree(main)' : q[2] = p[2] => Tree(main)'[q].status = "superseded"
<1>1. ASSUME RepoInv, RouteInv, CommitInv, LinkInv, AloneInv, Next, Alone
      PROVE  Closed
  <2>1. PICK s \in Tasks : Acts(s)
    BY <1>1, NextActs
  <2>2. GroupInv /\ NoId \notin Tasks /\ main \in CommitIds
    BY <1>1, IdsAssumption DEF AloneInv, RepoInv, RepoShape
  <2>3. ~In(s, "forward")
    BY <1>1, StepsOfRoutes DEF RouteInv, Alone, Pull
  <2>4. Quiet(s) \/ CommitIsWritten(s) \/ (CommitEnds(s) /\ CanSwap(s))
    BY <2>1, <2>3 DEF Acts, Quiet, PullFetches, PullBegins, PullCompares, PullRefinds, PullEnds
  <2>5. CASE Quiet(s) \/ CommitIsWritten(s)
    <3>1. main' = main /\ CommitsStay
      BY <1>1, <2>1, <2>5, QuietChanges, WrittenIs, StepsKeepCommits
    <3>2. Tree(main)' = Tip
      BY <2>2, <3>1 DEF Tree, Tip, CommitsStay
    <3>3. Sound(main)
      BY <2>2, EditedIsSound DEF GroupInv, LeftBy
    <3>4. ASSUME NEW p \in DOMAIN Tip, NEW q \in DOMAIN Tip, Tip[p].successor \in Tasks, q[2] = p[2]
          PROVE  Tip[q].status = "superseded"
      <4>1. q = p
        BY <3>3, <3>4 DEF Sound, Tip
      <4> QED
        BY <1>1, <2>2, <3>4, <4>1 DEF LinkInv, LinkCloses, Tip
    <3> QED
      BY <3>2, <3>4
  <2>6. CASE CommitEnds(s) /\ CanSwap(s)
    <3>1. PICK g : g = goal[s]
      OBVIOUS
    <3>2. commits' = commits /\ main' = g /\ g \in CommitIds
      BY <1>1, <2>6, <3>1, WonIs
    <3>3. Tree(main)' = Tree(g)
      BY <3>2 DEF Tree
    <3>4. ASSUME NEW p \in DOMAIN Tip, NEW q \in DOMAIN Tree(g), Tip[p].successor \in Tasks, q[2] = p[2]
          PROVE  Tree(g)[q].status = "superseded"
      <4>1. Tree(g)[q].successor # NoId
        BY <1>1, <2>2, <2>6, <3>1, <3>4, WinKeepsClosed
      <4> QED
        BY <1>1, <3>2, <4>1 DEF LinkInv, LinkCloses
    <3> QED
      BY <3>3, <3>4
  <2> QED
    BY <2>4, <2>5, <2>6
<1>2. RepoInv /\ RouteInv /\ CommitInv /\ LinkInv /\ AloneInv /\ [Next]_vars => [Alone => Closed]_vars
  BY <1>1
<1> QED
  BY <1>2, TrackerInvariance, CommitInvariance, GroupInvariance, PTL DEF Spec, SupersededIsFinal
=============================================================================
