------------------------------- MODULE Tracker -------------------------------
(***************************************************************************)
(* The feature, issue and milestone trackers of a group                    *)
(* (crates/mmcp-store/src/features.rs, issues.rs, tracker.rs and           *)
(* milestones/crud.rs): tickets kept as memory files; features and issues  *)
(* numbered from one counter per group, and closed in favour of a          *)
(* successor by a flow of two commits.                                     *)
(*                                                                         *)
(* The first two are the same program over two vocabularies; a ticket's    *)
(* kind says which tracker it belongs to, and its status only whether it   *)
(* is superseded.  A milestone has no number and no successor, and is only *)
(* added and updated.  Every task is one call.  Locks are LockTable's and  *)
(* commits GroupRepo's, as in MemoryTools.                                 *)
(***************************************************************************)
EXTENDS GroupRepo, FiniteSets, FiniteSetsExt

CONSTANTS
  Group,
  Slugs, Ids,
  NoSlug, NoId, NoPath,
  MaxNumber,  \* the largest ticket number, u32::MAX in the code
  Seeds,      \* trees main may start with
  Asks,       \* Asks[t]: the calls t may be
  MaxFetched  \* bound: commits that peers push while the calls run

Kinds == {"feature", "issue", "milestone"}
Statuses == {"open", "superseded"}

\* number 0 is a ticket without one; successor is the target of superseded_by;
\* applied holds the updates that are in the ticket.
Tickets == [kind : Kinds, number : 0..MaxNumber, status : Statuses,
            successor : Ids \union {NoId}, applied : SUBSET Tasks]

\* The id a call mints is a fresh UUIDv7: the call itself.
ASSUME IdsAssumption == Tasks \subseteq Ids /\ NoId \notin Ids /\ NoSlug \notin Slugs
ASSUME TicketPathsAssumption == Paths = Slugs \X Ids /\ NoPath \notin Paths
ASSUME TicketsAssumption == Contents = Tickets
ASSUME MaxNumberAssumption == MaxNumber \in Nat \ {0}
ASSUME MaxFetchedAssumption == MaxFetched \in Nat

\* Status and back link agree.
Paired(ticket) == ticket.status = "superseded" <=> ticket.successor # NoId

\* No two tickets share a number, and the calls' own features and issues have one.
Distinct(tree) ==
  /\ \A p, q \in DOMAIN tree :
       tree[p].number = tree[q].number /\ tree[p].number # 0 => p = q
  /\ \A p \in DOMAIN tree : p[2] \in Tasks /\ tree[p].kind # "milestone" => tree[p].number # 0

\* main as the trackers leave it: an id has one file, numbers differ, links are
\* paired, and the calls to come have left nothing yet.
ASSUME SeedsAssumption ==
  \A seed \in Seeds :
    /\ DOMAIN seed \subseteq Paths /\ seed \in [DOMAIN seed -> Contents]
    /\ Distinct(seed)
    /\ \A p, q \in DOMAIN seed : p[2] = q[2] => p = q
    /\ \A p \in DOMAIN seed : /\ Paired(seed[p])
                               /\ p[2] \notin Tasks /\ seed[p].successor \notin Tasks

VARIABLES
  held,      \* held[t]: the links t has guards on
  call,      \* call[t]: the operation and its arguments
  at,        \* at[t]: the step of the operation's route t is in
  path,      \* path[t]: the file the operation is about
  files,     \* files[t]: the CommitSpec made ready
  result     \* result[t]: the reply

trackerVars == <<held, call, at, path, files, result>>
vars == <<repoVars, trackerVars>>

L == INSTANCE LockTable WITH Groups <- {Group}, Memories <- Ids

AddCall(k, s, old, st) ==
  [op |-> IF old = NoSlug THEN "add" ELSE "supersede",
   kind |-> k, slug |-> s, to |-> old, status |-> st, link |-> NoId]
UpdateCall(k, s, st, l) ==
  [op |-> "update", kind |-> k, slug |-> s, to |-> NoSlug, status |-> st, link |-> l]
RenameCall(k, s, to) ==
  [op |-> "rename", kind |-> k, slug |-> s, to |-> to, status |-> "keep", link |-> NoId]
DeleteCall(k, s) ==
  [op |-> "delete", kind |-> k, slug |-> s, to |-> NoSlug, status |-> "keep", link |-> NoId]
PullCall ==
  [op |-> "pull", kind |-> "feature", slug |-> NoSlug, to |-> NoSlug, status |-> "keep", link |-> NoId]

\* A caller links to a ticket it knows of, never to one that a call of this run
\* is about to mint.
TicketCalls(k) ==
  {AddCall(k, s, old, st) : s \in Slugs, old \in Slugs \union {NoSlug}, st \in Statuses}
    \union {UpdateCall(k, s, st, l) : s \in Slugs, st \in Statuses \union {"keep"},
                                     l \in (Ids \ Tasks) \union {NoId}}
    \union {RenameCall(k, s, to) : s, to \in Slugs}
    \union {DeleteCall(k, s) : s \in Slugs}

MilestoneCalls ==
  {AddCall("milestone", s, NoSlug, "open") : s \in Slugs}
    \union {UpdateCall("milestone", s, "keep", NoId) : s \in Slugs}

\* Features and issues have every operation; a milestone, which is never
\* superseded, is added and updated.
Calls == TicketCalls("feature") \union TicketCalls("issue") \union MilestoneCalls \union {PullCall}

ASSUME AsksAssumption == Asks \in [Tasks -> SUBSET Calls]

\* Faulty variant: the number is minted before the group is locked.
RouteMintEarly ==
  [add       |-> <<"mint", "lock", "commit", "unlock">>,
   supersede |-> <<"target", "mint", "lock", "commit", "backlink", "commit", "unlock">>,
   update    |-> <<"ancestors", "resolve", "leaf", "compose", "commit", "unlock">>,
   rename    |-> <<"lock", "plan", "commit", "list", "unlock">>,
   delete    |-> <<"ancestors", "resolve", "leaf", "remove", "commit", "unlock">>,
   pull      |-> <<"forward">>]

\* Faulty variant: the update is composed before the leaf lock is had.
RouteComposeEarly ==
  [add       |-> <<"lock", "mint", "commit", "unlock">>,
   supersede |-> <<"lock", "target", "mint", "commit", "backlink", "commit", "unlock">>,
   update    |-> <<"ancestors", "resolve", "compose", "leaf", "commit", "unlock">>,
   rename    |-> <<"lock", "plan", "commit", "list", "unlock">>,
   delete    |-> <<"ancestors", "resolve", "leaf", "remove", "commit", "unlock">>,
   pull      |-> <<"forward">>]

\* Faulty variant: the old ticket is marked before its successor is written.
RouteBackLinkFirst ==
  [add       |-> <<"lock", "mint", "commit", "unlock">>,
   supersede |-> <<"lock", "target", "backlink", "commit", "mint", "commit", "unlock">>,
   update    |-> <<"ancestors", "resolve", "leaf", "compose", "commit", "unlock">>,
   rename    |-> <<"lock", "plan", "commit", "list", "unlock">>,
   delete    |-> <<"ancestors", "resolve", "leaf", "remove", "commit", "unlock">>,
   pull      |-> <<"forward">>]

\* The order of the awaits in each operation.
Route ==
  [add       |-> <<"lock", "mint", "commit", "unlock">>,
   supersede |-> <<"lock", "target", "mint", "commit", "backlink", "commit", "unlock">>,
   update    |-> <<"ancestors", "resolve", "leaf", "compose", "commit", "unlock">>,
   rename    |-> <<"lock", "plan", "commit", "list", "unlock">>,
   delete    |-> <<"ancestors", "resolve", "leaf", "remove", "commit", "unlock">>,
   pull      |-> <<"forward">>]

Steps(t) == Route[call[t].op]
In(t, step) == at[t] \in DOMAIN Steps(t) /\ Steps(t)[at[t]] = step

NoFiles == [put |-> [p \in {} |-> {}], drop |-> {}]

Results == {"none", "ok", "already", "not_found", "ambiguous", "not_a", "invalid",
            "overflow", "race", "diverged", "cache"}

TypeOK ==
  /\ \A c \in CommitIds : /\ DOMAIN Tree(c) \subseteq Paths
                          /\ \A p \in DOMAIN Tree(c) : Tree(c)[p] \in Contents
  /\ held \in [Tasks -> SUBSET L!Links]
  /\ at \in [Tasks -> 1..8]
  /\ path \in [Tasks -> Paths \union {NoPath}]
  /\ result \in [Tasks -> Results]

Init ==
  /\ \E seed \in Seeds : RepoInit(seed)
  /\ L!Init
  /\ call \in {f \in [Tasks -> UNION {Asks[t] : t \in Tasks}] : \A t \in Tasks : f[t] \in Asks[t]}
  /\ at = [t \in Tasks |-> 1]
  /\ path = [t \in Tasks |-> NoPath]
  /\ files = [t \in Tasks |-> NoFiles]
  /\ result = [t \in Tasks |-> "none"]

-----------------------------------------------------------------------------
(* Replies and locks.                                                      *)

Advance(t) ==
  /\ at' = [at EXCEPT ![t] = @ + 1]
  /\ UNCHANGED result

\* The call returns r; guards it has, if any, die on the way out.
Reply(t, r) ==
  /\ at' = [at EXCEPT ![t] = IF held[t] = {} THEN Len(Steps(t)) + 1 ELSE Len(Steps(t))]
  /\ result' = [result EXCEPT ![t] = r]

LockLinks(t, step, links) ==
  /\ In(t, step)
  /\ L!Acquire(t, links)
  /\ Advance(t)
  /\ UNCHANGED <<repoVars, call, path, files>>

\* Faulty variant: a create or a rename shares the group.
LockGroupShared(t) == LockLinks(t, "lock", {L!Shared(L!ProcessScope), L!Shared(L!GroupScope(Group))})

\* create_chain and coarsen_group_chain; the ancestors of a leaf; the leaf.
LockGroup(t) == LockLinks(t, "lock", L!LinkSet(L!ExclusiveGroupChain(Group)))
LockAncestors(t) ==
  LockLinks(t, "ancestors", {L!Shared(L!ProcessScope), L!Shared(L!GroupScope(Group))})
LockLeaf(t) == LockLinks(t, "leaf", {L!Exclusive(L!MemoryScope(path[t][2]))})

Unlock(t) ==
  /\ In(t, "unlock")
  /\ L!Release(t, held[t])
  /\ Advance(t)
  /\ UNCHANGED <<repoVars, call, path, files>>

-----------------------------------------------------------------------------
(* Slugs.                                                                  *)

Under(s) == {p \in DOMAIN Tip : p[1] = s}
FileOf(s) == CHOOSE p \in Under(s) : TRUE

\* Why resolve_memory fails on slug s, if it does.
Unresolved(s) ==
  IF Under(s) = {} THEN "not_found"
  ELSE IF Under(s) = {FileOf(s)} THEN "none" ELSE "ambiguous"

\* Why read_feature or read_issue fails on slug s, if it does.
Unreadable(s, k) ==
  IF Unresolved(s) = "none" /\ Tip[FileOf(s)].kind # k THEN "not_a" ELSE Unresolved(s)

\* Locks the leaf of whatever file the slug has under the shared ancestors.
Resolve(t) ==
  /\ In(t, "resolve")
  /\ LET s == call[t].slug IN
     IF Unresolved(s) = "none"
       THEN Advance(t) /\ path' = [path EXCEPT ![t] = FileOf(s)]
       ELSE Reply(t, Unresolved(s)) /\ UNCHANGED path
  /\ UNCHANGED <<repoVars, held, call, files>>

-----------------------------------------------------------------------------
(* add_feature and add_issue                                               *)

\* resolve_supersede_target: a superseded ticket cannot be superseded again.
PickTarget(t) ==
  /\ In(t, "target")
  /\ LET old == call[t].to
         why == IF /\ Unreadable(old, call[t].kind) = "none"
                   /\ Tip[FileOf(old)].status = "superseded"
                  THEN "invalid" ELSE Unreadable(old, call[t].kind) IN
     IF why = "none"
       THEN Advance(t) /\ path' = [path EXCEPT ![t] = FileOf(old)]
       ELSE Reply(t, why) /\ UNCHANGED path
  /\ UNCHANGED <<repoVars, held, call, files>>

\* The largest number of both kinds, duplicate slugs included.
TopNumber(c) == Max({0} \union {Tree(c)[p].number : p \in DOMAIN Tree(c)})

NewTicket(t, n) ==
  [kind |-> call[t].kind, number |-> n, status |-> call[t].status, successor |-> NoId, applied |-> {}]

Numbered(t) == call[t].kind # "milestone"

\* Faulty variant: the counter is not checked for its end.
MintUnchecked(t) ==
  /\ In(t, "mint") /\ Numbered(t)
  /\ Advance(t)
  /\ files' = [files EXCEPT ![t] =
       [put |-> [p \in {<<call[t].slug, t>>} |-> NewTicket(t, TopNumber(main) + 1)], drop |-> {}]]
  /\ UNCHANGED <<repoVars, held, call, path>>

\* next_ticket_number, and the file of the new ticket.  write_memory_by_id
\* never finds a file there: the id is fresh, whatever the slug has already.
Mint(t) ==
  /\ In(t, "mint") /\ Numbered(t)
  /\ IF TopNumber(main) = MaxNumber
       THEN Reply(t, "overflow") /\ UNCHANGED files
       ELSE /\ Advance(t)
            /\ files' = [files EXCEPT ![t] =
                 [put |-> [p \in {<<call[t].slug, t>>} |-> NewTicket(t, TopNumber(main) + 1)], drop |-> {}]]
  /\ UNCHANGED <<repoVars, held, call, path>>

\* add_milestone: a milestone takes no number.
DraftMilestone(t) ==
  /\ In(t, "mint") /\ ~Numbered(t)
  /\ Advance(t)
  /\ files' = [files EXCEPT ![t] =
       [put |-> [p \in {<<call[t].slug, t>>} |-> NewTicket(t, 0)], drop |-> {}]]
  /\ UNCHANGED <<repoVars, held, call, path>>

\* update_*_unlocked on the slug of the target, which by now may have two
\* files; the group is still locked.
BackLink(t) ==
  /\ In(t, "backlink")
  /\ LET old == call[t].to
         why == Unreadable(old, call[t].kind)
         p == FileOf(old) IN
     IF why # "none"
       THEN Reply(t, why) /\ UNCHANGED files
       ELSE /\ Advance(t)
            /\ files' = [files EXCEPT ![t] =
                 [put |-> [q \in {p} |-> [Tip[p] EXCEPT !.status = "superseded", !.successor = t]],
                  drop |-> {}]]
  /\ UNCHANGED <<repoVars, held, call, path>>

-----------------------------------------------------------------------------
(* update_*, delete_* and rename_*                                         *)

\* Faulty variant: an update that leaves the status alone does not validate.
UpdatedUnchecked(t, old) ==
  [old EXCEPT !.status = IF call[t].status = "keep" THEN @ ELSE call[t].status,
              !.successor = NoId,
              !.applied = @ \union {t}]

\* The ticket an update makes of old: what is not given stays, and a link
\* cannot be taken back.
Updated(t, old) ==
  [old EXCEPT !.status = IF call[t].status = "keep" THEN @ ELSE call[t].status,
              !.successor = IF call[t].link = NoId THEN @ ELSE call[t].link,
              !.applied = @ \union {t}]

\* Faulty variant: half of validate_supersede_invariant.
AcceptsByStatus(ticket) == ticket.status = "superseded" => ticket.successor # NoId

\* validate_supersede_invariant
Accepts(ticket) == Paired(ticket)

\* update_*_unlocked under the leaf: the slug is resolved and read again.
Compose(t) ==
  /\ In(t, "compose") /\ Numbered(t)
  /\ LET s == call[t].slug
         p == FileOf(s)
         why == IF Unreadable(s, call[t].kind) = "none" /\ ~Accepts(Updated(t, Tip[p]))
                  THEN "invalid" ELSE Unreadable(s, call[t].kind) IN
     IF why # "none"
       THEN Reply(t, why) /\ UNCHANGED files
       ELSE /\ Advance(t)
            /\ files' = [files EXCEPT ![t] =
                 [put |-> [q \in {p} |-> Updated(t, Tip[p])], drop |-> {}]]
  /\ UNCHANGED <<repoVars, held, call, path>>

\* What read_milestone may say of slug s: the rollup that comes with a milestone
\* fails where the local cache does.
MilestoneReads(s) ==
  IF Unreadable(s, "milestone") = "none" THEN {"none", "cache"} ELSE {Unreadable(s, "milestone")}

\* update_milestone under the leaf: the slug is resolved and read again, and what
\* comes of it is written where the slug was found before the leaf was locked.
ComposeMilestone(t) ==
  /\ In(t, "compose") /\ ~Numbered(t)
  /\ \E why \in MilestoneReads(call[t].slug) :
       IF why # "none"
         THEN Reply(t, why) /\ UNCHANGED files
         ELSE /\ Advance(t)
              /\ files' = [files EXCEPT ![t] =
                   [put |-> [q \in {path[t]} |-> Updated(t, Tip[FileOf(call[t].slug)])], drop |-> {}]]
  /\ UNCHANGED <<repoVars, held, call, path>>

Remove(t) ==
  /\ In(t, "remove")
  /\ LET s == call[t].slug
         why == Unreadable(s, call[t].kind) IN
     IF why # "none"
       THEN Reply(t, why) /\ UNCHANGED files
       ELSE /\ Advance(t)
            /\ files' = [files EXCEPT ![t] = [put |-> [p \in {} |-> {}], drop |-> {FileOf(s)}]]
  /\ UNCHANGED <<repoVars, held, call, path>>

\* Why plan_slug_rename refuses slug s, if it does.
Unmovable(s, k) ==
  IF Under(s) = {} THEN "not_found"
  ELSE IF \E p \in Under(s) : Tip[p].kind # k THEN "not_a" ELSE "none"

\* plan_slug_rename: every file under the slug moves, or none does.  A rename
\* to the same slug goes straight to the listing.
Plan(t) ==
  /\ In(t, "plan")
  /\ LET s == call[t].slug
         to == call[t].to
         why == Unmovable(s, call[t].kind) IN
     IF s = to
       THEN at' = [at EXCEPT ![t] = @ + 2] /\ UNCHANGED <<result, files>>
       ELSE IF why # "none"
       THEN Reply(t, why) /\ UNCHANGED files
       ELSE /\ Advance(t)
            /\ files' = [files EXCEPT ![t] =
                 [put |-> [q \in {<<to, p[2]>> : p \in Under(s)} |-> Tip[<<s, q[2]>>]],
                  drop |-> Under(s)]]
  /\ UNCHANGED <<repoVars, held, call, path>>

\* list_*_for_slug reads the tickets back by slug, one read for each file, and
\* fails when the slug has more than one file.
List(t) ==
  /\ In(t, "list")
  /\ LET why == Unreadable(call[t].to, call[t].kind) IN
     Reply(t, IF why = "none" \/ Under(call[t].to) = {} THEN "ok" ELSE why)
  /\ UNCHANGED <<repoVars, held, call, path, files>>

-----------------------------------------------------------------------------
(* The three steps of write_commit, and sync_pull.                         *)

CommitBegins(t) ==
  /\ In(t, "commit")
  /\ FindParent(t)
  /\ UNCHANGED trackerVars

CommitIsWritten(t) ==
  /\ In(t, "commit")
  /\ WriteObject(t, files[t])
  /\ UNCHANGED trackerVars

LastCommit(t) == Steps(t)[at[t] + 1] = "unlock"

CommitEnds(t) ==
  /\ In(t, "commit")
  /\ SwapMain(t)
  /\ IF ~CanSwap(t) THEN Reply(t, "race")
     ELSE IF LastCommit(t) THEN Reply(t, "ok") ELSE Advance(t)
  /\ UNCHANGED <<held, call, path, files>>

PullFetches(t, e) ==
  /\ In(t, "forward")
  /\ phase[t] = "none"
  /\ Cardinality({c \in CommitIds : commits[c].by = Peer}) <= MaxFetched
  /\ Fetch(e)
  /\ UNCHANGED trackerVars

PullBegins(t) == In(t, "forward") /\ FindTarget(t) /\ UNCHANGED trackerVars

PullCompares(t) ==
  /\ In(t, "forward")
  /\ FindLocal(t)
  /\ IF phase'[t] = "ancestor"
       THEN UNCHANGED <<at, result>>
       ELSE Reply(t, IF main = goal[t] THEN "already" ELSE "diverged")
  /\ UNCHANGED <<held, call, path, files>>

PullRefinds(t) == In(t, "forward") /\ Refind(t) /\ UNCHANGED trackerVars

PullEnds(t) ==
  /\ In(t, "forward")
  /\ SwapMain(t)
  /\ Reply(t, IF CanSwap(t) THEN "ok" ELSE "race")
  /\ UNCHANGED <<held, call, path, files>>

\* What a peer adds: a ticket with the number its own counter gives.
PeerTicket(s, i, c) ==
  [put |-> [p \in {<<s, i>>} |->
              [kind |-> "feature", number |-> TopNumber(c) + 1,
               status |-> "open", successor |-> NoId, applied |-> {}]],
   drop |-> {}]

RemoteEdits ==
  {PeerTicket(s, i, tracking) : s \in Slugs,
     i \in {j \in Ids \ Tasks : /\ TopNumber(tracking) < MaxNumber
                               /\ \A c \in CommitIds : \A p \in DOMAIN Tree(c) : p[2] # j}}

Next ==
  \E t \in Tasks :
    \/ LockGroup(t) \/ LockAncestors(t) \/ LockLeaf(t) \/ Unlock(t)
    \/ Resolve(t) \/ PickTarget(t) \/ Mint(t) \/ DraftMilestone(t) \/ BackLink(t)
    \/ Compose(t) \/ ComposeMilestone(t) \/ Remove(t) \/ Plan(t) \/ List(t)
    \/ CommitBegins(t) \/ CommitIsWritten(t) \/ CommitEnds(t)
    \/ \E e \in RemoteEdits : PullFetches(t, e)
    \/ PullBegins(t) \/ PullCompares(t) \/ PullRefinds(t) \/ PullEnds(t)

Spec == Init /\ [][Next]_vars

-----------------------------------------------------------------------------
(* Properties.  The locks order the calls of one process with each other,  *)
(* and sync_pull takes none: what the locks promise is stated for runs     *)
(* without it.                                                             *)

Alone == \A t \in Tasks : call[t].op # "pull"

\* The ids some commit on main has had a file for.
Known(c) == UNION {{p[2] : p \in DOMAIN Tree(b)} : b \in Hist(c)}

Linked(c) == {p \in DOMAIN Tree(c) : Tree(c)[p].successor # NoId}

\* The doc of the lock registry: the exclusive group lock gives a create the
\* stable view the shared ticket counter relies on, so features and issues
\* never share a number and an exhausted counter never wraps.
NumbersAreUnique == Alone => Distinct(Tip)

\* The same sentence where sync_pull may run beside the create.
NumbersAreUniqueUnderPull == Distinct(Tip)

\* validate_supersede_invariant, "so partial states never reach the on-disk
\* frontmatter": status and back link agree in every commit.
LinksArePaired == \A c \in CommitIds : \A p \in DOMAIN Tree(c) : Paired(Tree(c)[p])

\* Commit A comes before commit B: a back link set by the supersede flow names
\* a ticket that main has had, in that commit or before it.
LinksResolve ==
  Alone => \A c \in Hist(main) : \A p \in Linked(c) :
             Tree(c)[p].successor \in Tasks => Tree(c)[p].successor \in Known(c)

Superseding == {t \in Tasks : call[t].op = "supersede" /\ result[t] = "ok"}

\* A supersede call that replies ok has marked the ticket it picked, has its own
\* ticket beside it, and no other supersede call took that ticket.
SupersedeIsWhole ==
  Alone => \A t \in Superseding :
             /\ path[t] \in DOMAIN Tree(goal[t])
             /\ Tree(goal[t])[path[t]].successor = t
             /\ t \in Known(goal[t])
             /\ \A u \in Superseding \ {t} : path[u][2] # path[t][2]

\* The id an update worked on, by its leaf lock.
Updating(t) == call[t].op = "update" /\ result[t] = "ok"
SameTicket(t, u) == Updating(t) /\ Updating(u) /\ path[t][2] = path[u][2]

\* The later of two updates of one ticket has what the earlier put in it.
Composed(t, u) ==
  path[u] \in DOMAIN Tree(goal[u]) /\ t \in Tree(goal[u])[path[u]].applied

\* Two updates of one ticket compose: what the earlier put in it is in the later
\* one's commit, if no commit written between the two drops the earlier one's.
UpdatesCompose ==
  Alone => \A t, u \in Tasks :
             /\ SameTicket(t, u) /\ goal[t] <= goal[u]
             /\ \A c \in goal[t]..goal[u] : goal[t] \in Hist(c)
             => Composed(t, u)

\* A ticket that the supersede flow has closed is closed for good: whatever
\* commits are dropped, it stays superseded under whatever slug until it is
\* deleted.  (A link that an update sets can be lost like any update.)
SupersededIsFinal ==
  [][Alone => \A p \in DOMAIN Tip : Tip[p].successor \in Tasks =>
       \A q \in DOMAIN Tree(main)' : q[2] = p[2] => Tree(main)'[q].status = "superseded"]_vars
=============================================================================
