----------------------------- MODULE MemoryTools -----------------------------
(***************************************************************************)
(* The memory tools of the MCP server (crates/mmcp-client/src/commands/    *)
(* serve.rs) and the store operations under them                           *)
(* (crates/mmcp-store/src/memory.rs), on the repository of one group.      *)
(*                                                                         *)
(* Every task is one tool call.  It goes through the steps of its tool     *)
(* (Route), which say where the call takes its locks: write_memory and     *)
(* move_memory look at the repository under the locks, edit_memory and     *)
(* delete_memory resolve their address, and read, before they take them.   *)
(* sync_pull takes none.                                                   *)
(*                                                                         *)
(* Locks are LockTable's, which ScopeLocks is shown to implement: a chain  *)
(* is had at once and given back at once, which allows everything taking   *)
(* its links one by one does.                                              *)
(***************************************************************************)
EXTENDS GroupRepo, FiniteSets

CONSTANTS
  Group,     \* the group of the repository
  Slugs, Ids,
  Names,     \* names of files that are no ids, as of files made by hand
  NoSlug, NoId,    \* an address without a slug, an address or a file without an id
  NoPath,
  Asks,      \* Asks[t]: the calls t may be
  Seeds,     \* files main may have to start with
  Sent,      \* files peers may push: a path, and the id inside
  MaxFetched \* bound: commits that peers push while the calls run

\* A file's content: the id in its frontmatter, and the calls whose changes are
\* in it.  The id need not be the one the file is named after.
Content(i, who) == [id |-> i, by |-> who]
ASSUME ContentsAssumption == Contents = [id : Ids \union {NoId}, by : SUBSET Tasks]
ASSUME PathsAssumption == Paths = Slugs \X (Ids \union Names)
ASSUME MaxFetchedAssumption == MaxFetched \in Nat
ASSUME NoneAssumption ==
  NoSlug \notin Slugs /\ NoId \notin Ids /\ NoPath \notin Paths /\ Names \intersect Ids = {}
ASSUME FilesAssumption ==
  /\ \A seed \in Seeds : IsTree(seed)
  /\ Sent \subseteq Paths \X (Ids \union {NoId})

VARIABLES
  held,      \* held[t]: the links t has guards on
  call,      \* call[t]: the tool and its arguments
  at,        \* at[t]: the step of Route t is in; after the last one, the reply is out
  path,      \* path[t]: the path the address was resolved to
  text,      \* text[t]: the content read from there
  result     \* result[t]: the reply

toolVars == <<held, call, at, path, text, result>>
vars == <<repoVars, toolVars>>

L == INSTANCE LockTable WITH Groups <- {Group}, Memories <- Ids

-----------------------------------------------------------------------------
(* Calls.  An edit or a delete is addressed by slug, by id or by both;     *)
(* a write names its path; a move has an address and a new slug.  `sure` is *)
(* the override of a write, the force of an edit.                          *)

CallOf(tool, s, i, to, sure) == [tool |-> tool, slug |-> s, id |-> i, to |-> to, sure |-> sure]
WriteCall(s, i, override) == CallOf("write", s, i, s, override)
EditCall(s, i, force) == CallOf("edit", s, i, s, force)
DeleteCall(s, i) == CallOf("delete", s, i, s, FALSE)
MoveCall(s, i, to) == CallOf("move", s, i, to, FALSE)
PullCall == CallOf("pull", NoSlug, NoId, NoSlug, FALSE)

\* An address has a slug, an id or both: a call with neither is refused.
Addresses == ((Slugs \union {NoSlug}) \X (Ids \union {NoId})) \ {<<NoSlug, NoId>>}

Calls ==
  {WriteCall(s, i, o) : s \in Slugs, i \in Ids, o \in BOOLEAN}
    \union {EditCall(a[1], a[2], f) : a \in Addresses, f \in BOOLEAN}
    \union {DeleteCall(a[1], a[2]) : a \in Addresses}
    \union {MoveCall(a[1], a[2], to) : a \in Addresses, to \in Slugs}
    \union {PullCall}

ASSUME AsksAssumption == Asks \in [Tasks -> SUBSET Calls]

\* Faulty variant: move_memory resolves and reads before it locks, as edit does.
RouteLockLate ==
  [write  |-> <<"lock", "probe", "commit", "unlock">>,
   edit   |-> <<"resolve", "read", "lock", "commit", "unlock">>,
   delete |-> <<"resolve", "lock", "commit", "unlock">>,
   move   |-> <<"resolve", "probe", "read", "lock", "commit", "unlock">>,
   pull   |-> <<"forward">>]

\* Faulty variant: write_memory looks for the file before it locks.
RouteProbeEarly ==
  [write  |-> <<"probe", "lock", "commit", "unlock">>,
   edit   |-> <<"resolve", "read", "lock", "commit", "unlock">>,
   delete |-> <<"resolve", "lock", "commit", "unlock">>,
   move   |-> <<"lock", "resolve", "probe", "read", "commit", "unlock">>,
   pull   |-> <<"forward">>]

\* The order of the awaits in each tool.
Route ==
  [write  |-> <<"lock", "probe", "commit", "unlock">>,
   edit   |-> <<"resolve", "read", "lock", "commit", "unlock">>,
   delete |-> <<"resolve", "lock", "commit", "unlock">>,
   move   |-> <<"lock", "resolve", "probe", "read", "commit", "unlock">>,
   pull   |-> <<"forward">>]

Steps(t) == Route[call[t].tool]
Running(t) == at[t] \in DOMAIN Steps(t)
In(t, step) == Running(t) /\ Steps(t)[at[t]] = step

\* The id resolve_memory answers with: the one it was asked for, or the one it
\* found the file named after.
MemoryOf(t) == IF call[t].id # NoId THEN call[t].id ELSE path[t][2]

\* Faulty variant: the leaf lock alone, as if no ancestor existed.
LinksOfLeafOnly(t) ==
  IF call[t].tool \in {"edit", "delete"}
    THEN {L!Exclusive(L!MemoryScope(MemoryOf(t)))}
    ELSE L!LinkSet(L!ExclusiveGroupChain(Group))

\* Faulty variant: the leaf is taken shared.
LinksOfSharedLeaf(t) ==
  IF call[t].tool \in {"edit", "delete"}
    THEN L!LinkSet(L!MemoryChain(Group, MemoryOf(t), "shared"))
    ELSE L!LinkSet(L!ExclusiveGroupChain(Group))

\* The links the tool takes: the leaf is that of the resolved id.  A file that
\* has drifted has two, as it is addressed by the id inside or by its slug.
LinksOf(t) ==
  IF call[t].tool \in {"edit", "delete"}
    THEN L!LinkSet(L!MemoryChain(Group, MemoryOf(t), "exclusive"))
    ELSE L!LinkSet(L!ExclusiveGroupChain(Group))

Results == {"none", "ok", "already", "not_found", "ambiguous", "mismatch", "exists", "race", "diverged"}

TypeOK ==
  /\ RepoTypeOK
  /\ held \in [Tasks -> SUBSET L!Links]
  /\ call \in [Tasks -> Calls]
  /\ at \in [Tasks -> 1..7]
  /\ path \in [Tasks -> Paths \union {NoPath}]
  /\ text \in [Tasks -> Contents]
  /\ result \in [Tasks -> Results]

Init ==
  /\ \E seed \in Seeds : RepoInit(seed)
  /\ L!Init
  /\ call \in {f \in [Tasks -> UNION {Asks[t] : t \in Tasks}] : \A t \in Tasks : f[t] \in Asks[t]}
  /\ at = [t \in Tasks |-> 1]
  /\ path = [t \in Tasks |-> NoPath]
  /\ text = [t \in Tasks |-> Content(NoId, {})]
  /\ result = [t \in Tasks |-> "none"]

-----------------------------------------------------------------------------
(* Steps.                                                                  *)

\* On to the next step.
Advance(t) ==
  /\ at' = [at EXCEPT ![t] = @ + 1]
  /\ UNCHANGED result

\* The call returns r; guards it has, if any, die on the way out.
Reply(t, r) ==
  /\ at' = [at EXCEPT ![t] = IF held[t] = {} THEN Len(Steps(t)) + 1 ELSE Len(Steps(t))]
  /\ result' = [result EXCEPT ![t] = r]

Lock(t) ==
  /\ In(t, "lock")
  /\ L!Acquire(t, LinksOf(t))
  /\ Advance(t)
  /\ UNCHANGED <<repoVars, call, path, text>>

Unlock(t) ==
  /\ In(t, "unlock")
  /\ L!Release(t, held[t])
  /\ Advance(t)
  /\ UNCHANGED <<repoVars, call, path, text>>

\* The files of main an address stands for.  With an id it is the id inside that
\* counts: of the file at the path of slug and id; or of an id alone the files
\* named after it, if there are none those made by hand, and at last those named
\* after another id.  A slug alone has the files named after any id.
Inside(i) == {p \in DOMAIN Tip : Tip[p].id = i}
FirstOf(sets) == IF sets[1] # {} THEN sets[1] ELSE IF sets[2] # {} THEN sets[2] ELSE sets[3]
Candidates(c) ==
  IF c.id = NoId THEN {p \in DOMAIN Tip : p[1] = c.slug /\ p[2] \in Ids}
  ELSE IF c.slug # NoSlug THEN Inside(c.id) \intersect {<<c.slug, c.id>>}
  ELSE LET named == {p \in Inside(c.id) : p[2] = c.id}
           crafted == {p \in Inside(c.id) : p[2] \in Names}
       IN FirstOf(<<named, crafted, Inside(c.id)>>)

Ambiguous(c) == c.id = NoId /\ Cardinality(Candidates(c)) > 1
\* verify_id_match: the file at the path has another id.
Mismatch(c) ==
  /\ c.id # NoId /\ <<c.slug, c.id>> \in DOMAIN Tip
  /\ Tip[<<c.slug, c.id>>].id \notin {NoId, c.id}

\* A slug alone must have one file; an id alone takes the first slug directory
\* that has it, whichever that is.
Resolve(t) ==
  /\ In(t, "resolve")
  /\ ~Ambiguous(call[t])
  /\ \E p \in Candidates(call[t]) :
       /\ path' = [path EXCEPT ![t] = p]
       /\ IF call[t].tool = "move" /\ p[1] = call[t].to
            THEN Reply(t, "already")
            ELSE Advance(t)
  /\ UNCHANGED <<repoVars, held, call, text>>

ResolveFails(t) ==
  /\ In(t, "resolve")
  /\ \/ Candidates(call[t]) = {} /\ Reply(t, IF Mismatch(call[t]) THEN "mismatch" ELSE "not_found")
     \/ Ambiguous(call[t]) /\ Reply(t, "ambiguous")
  /\ UNCHANGED <<repoVars, held, call, path, text>>

\* Faulty variant: a move uses the id of the address, which may have none.
DestinationOfAddress(t) == <<call[t].to, call[t].id>>

\* Where a write or a move puts the memory.
Destination(t) == <<call[t].to, MemoryOf(t)>>

\* write_memory_by_id and move_memory_path look for a file at the destination.
Probe(t) ==
  /\ In(t, "probe")
  /\ IF Destination(t) \in DOMAIN Tip /\ ~call[t].sure
       THEN Reply(t, "exists")
       ELSE Advance(t)
  /\ UNCHANGED <<repoVars, held, call, path, text>>

\* read_file at the resolved path; a file that went away meanwhile is an error.
Read(t) ==
  /\ In(t, "read")
  /\ IF path[t] \notin DOMAIN Tip
       THEN Reply(t, "not_found") /\ UNCHANGED text
       ELSE Advance(t) /\ text' = [text EXCEPT ![t] = Tip[path[t]]]
  /\ UNCHANGED <<repoVars, held, call, path>>

\* An edit and a move leave the id inside alone; a write has its own.
PutsOf(t) ==
  IF call[t].tool = "edit"
    THEN [p \in {path[t]} |-> Content(text[t].id, text[t].by \union {t})]
    ELSE [p \in (IF call[t].tool = "delete" THEN {} ELSE {Destination(t)}) |->
            IF call[t].tool = "move" THEN text[t] ELSE Content(call[t].id, {t})]

\* The files of the tool's CommitSpec.
EditsOf(t) ==
  [put |-> PutsOf(t),
   drop |-> IF call[t].tool \in {"move", "delete"} THEN {path[t]} ELSE {}]

\* validate_id_mismatch: an edit that was addressed by the id the file is named
\* after does not write another one back, unless forced to.
Refused(t) ==
  /\ call[t].tool = "edit" /\ call[t].id = path[t][2] /\ ~call[t].sure
  /\ text[t].id \notin {NoId, path[t][2]}

CommitIsRefused(t) ==
  /\ In(t, "commit")
  /\ phase[t] = "none" /\ Refused(t)
  /\ Reply(t, "mismatch")
  /\ UNCHANGED <<repoVars, held, call, path, text>>

\* The three steps of write_commit.
CommitBegins(t) ==
  /\ In(t, "commit")
  /\ ~Refused(t)
  /\ FindParent(t)
  /\ UNCHANGED toolVars

CommitIsWritten(t) ==
  /\ In(t, "commit")
  /\ WriteObject(t, EditsOf(t))
  /\ UNCHANGED toolVars

CommitEnds(t) ==
  /\ In(t, "commit")
  /\ SwapMain(t)
  /\ Reply(t, IF CanSwap(t) THEN "ok" ELSE "race")
  /\ UNCHANGED <<held, call, path, text>>

\* sync_pull: the fetch, then the steps of fast_forward.
PullFetches(t, e) ==
  /\ In(t, "forward")
  /\ phase[t] = "none"
  /\ Cardinality({c \in CommitIds : commits[c].by = Peer}) <= MaxFetched
  /\ Fetch(e)
  /\ UNCHANGED toolVars

PullBegins(t) ==
  /\ In(t, "forward")
  /\ FindTarget(t)
  /\ UNCHANGED toolVars

PullCompares(t) ==
  /\ In(t, "forward")
  /\ FindLocal(t)
  /\ IF phase'[t] = "ancestor"
       THEN UNCHANGED <<at, result>>
       ELSE Reply(t, IF main = goal[t] THEN "already" ELSE "diverged")
  /\ UNCHANGED <<held, call, path, text>>

PullRefinds(t) ==
  /\ In(t, "forward")
  /\ Refind(t)
  /\ UNCHANGED toolVars

PullEnds(t) ==
  /\ In(t, "forward")
  /\ SwapMain(t)
  /\ Reply(t, IF CanSwap(t) THEN "ok" ELSE "race")
  /\ UNCHANGED <<held, call, path, text>>

RemoteEdits == {[put |-> [p \in {f[1]} |-> Content(f[2], {})], drop |-> {}] : f \in Sent}

Next ==
  \E t \in Tasks :
    \/ Lock(t) \/ Unlock(t)
    \/ Resolve(t) \/ ResolveFails(t) \/ Probe(t) \/ Read(t)
    \/ CommitIsRefused(t) \/ CommitBegins(t) \/ CommitIsWritten(t) \/ CommitEnds(t)
    \/ \E e \in RemoteEdits : PullFetches(t, e)
    \/ PullBegins(t) \/ PullCompares(t) \/ PullRefinds(t) \/ PullEnds(t)

Spec == Init /\ [][Next]_vars

-----------------------------------------------------------------------------
(* Properties of the tools.                                                *)

Leaf(t) == call[t].tool \in {"edit", "delete"}
Pull(t) == call[t].tool = "pull"
Written(t) == phase[t] = "written" \/ result[t] = "ok"

\* t moves main in this step.
Moves(t) == main' # main /\ phase[t] \in {"written", "refound"} /\ phase'[t] = "none"

\* The contract of lock.rs: the exclusive group lock gives its holder a stable
\* view of every memory.  While a task has it, nobody else moves main, except
\* a pull, which takes no lock.
StableView ==
  [][\A t, u \in Tasks :
       L!Exclusive(L!GroupScope(Group)) \in held[t] /\ Moves(u) => u = t \/ Pull(u)]_vars

\* A pull has moved main.
PullLanded == \E t \in Tasks : Pull(t) /\ result[t] = "ok"

\* c, a commit of memory m, has been dropped before: a call on another memory
\* wrote its commit after c, not on top of it, and got it in.
LostBefore(c, m) ==
  \E t \in Tasks : /\ Leaf(t) /\ result[t] = "ok" /\ MemoryOf(t) # m
                   /\ c < goal[t] /\ c \notin Hist(goal[t])

\* As long as no pull moves main, creates and moves are never dropped from it:
\* only an edit or a delete is, by an edit or a delete, of another memory.  (The
\* call that still has a dropped commit below it may bring the commit back; then
\* a later call on the same memory may drop it once more.)  A memory is what the
\* call was answered and locks: a file that has drifted counts as two, and two
\* edits of it, by its slug and by the id inside, may drop one another.
OnlySiblingCommitsAreLost ==
  [][\A u \in Tasks : Moves(u) => \A c \in Hist(main) \ Hist(main)' :
       LET t == commits[c].by IN
       \/ PullLanded \/ Pull(u)
       \/ /\ t \in Tasks /\ Leaf(t) /\ Leaf(u)
          /\ MemoryOf(t) = MemoryOf(u) => LostBefore(c, MemoryOf(t))]_vars

\* No pull among the calls: the locks are all there is to it.
Alone == \A t \in Tasks : ~Pull(t)

\* A create that went through found no file on the commit it was applied to,
\* although it looked before write_commit looked the branch up again.
CreateNeverOverwrites ==
  Alone => \A t \in Tasks :
    call[t].tool = "write" /\ ~call[t].sure /\ Written(t) =>
      Destination(t) \notin DOMAIN Tree(base[t])

\* A move carries the content its parent commit has, unchanged, to a place
\* that was free there, although it read both before.
MoveCarriesContent ==
  Alone => \A t \in Tasks :
    call[t].tool = "move" /\ Written(t) =>
      /\ Destination(t) \notin DOMAIN Tree(base[t])
      /\ path[t] \in DOMAIN Tree(base[t])
      /\ Tree(goal[t])[Destination(t)] = Tree(base[t])[path[t]]
      /\ path[t] \notin DOMAIN Tree(goal[t])

-----------------------------------------------------------------------------
(* What the documentation says and the code does not do.                   *)

\* backend.rs on write_commit: "The commit is applied on top of the current
\* tip".  So a call that was told its commit id finds it in main's history.
AcknowledgedCommitsStay ==
  \A t \in Tasks : result[t] = "ok" => goal[t] \in Hist(main)

\* No memory, by the id inside its file, is at two places of commit c.
OnePlaceEach(c) ==
  \A p, q \in DOMAIN Tree(c) : Tree(c)[p].id = Tree(c)[q].id /\ Tree(c)[p].id # NoId => p = q

\* memory.rs on move_memory_path: "`git log` never shows a half-moved state",
\* a commit in which a memory is at its old path and at its new one.
NoHalfMovedState == OnePlaceEach(1) => \A c \in Hist(main) : OnePlaceEach(c)
=============================================================================
