----------------------------- MODULE ContentCache -----------------------------
(***************************************************************************)
(* The local content cache (crates/mmcp-store/src/cache), a SQLite index   *)
(* over the memories of every mirrored group, beside the operations that   *)
(* change what it indexes: the writes, deletes and moves of memories, the  *)
(* replay of an archive, and pulls.                                        *)
(*                                                                         *)
(* A rebuild runs inside one write transaction, which SQLite gives to one  *)
(* connection at a time; everybody reads what was last committed.  The     *)
(* git side of an operation commits first and tells the cache afterwards,  *)
(* and what it tells may fail, come late, or never be said.                *)
(*                                                                         *)
(* Whatever moves main looks it up twice (see GroupRepo): it builds on what *)
(* the first lookup found, and compares with what the second one found.    *)
(***************************************************************************)
EXTENDS Naturals, FiniteSets, ArchiveImport

CONSTANTS
  Workers,       \* tasks, each with one operation to do
  Groups,
  CacheScenarios,  \* files, operations and index to start with
  Nobody,
  MaxMishaps     \* bound: failed statements, timeouts of a lock, crashes

VARIABLES
  tree,      \* tree[g]: the files of main
  rows,      \* the rows of the index
  built,     \* whether a full build was ever committed
  work,      \* work[t]: the operation of t
  at,        \* at[t]: how far it is
  edit,      \* edit[t]: the files that t puts and the paths that it drops
  base,      \* base[t]: the files t builds on, and whether main has moved since
  tell,      \* tell[t]: files t has yet to tell the cache
  scan,      \* scan[t]: the rebuild of t: groups to do and done, paths listed, rows staged
  owner,     \* the task in a write transaction
  untold,    \* history: keys that changed without the cache being told, or in time
  mishaps

cacheVars == <<tree, rows, built, work, at, edit, base, tell, scan, owner, untold, mishaps>>

NoScan == [todo |-> {}, now |-> {}, listed |-> {}, done |-> {}, staged |-> {}, forgiven |-> {}]
NoEdit == [put |-> {}, drop |-> {}]
NoBase == [files |-> {}, stale |-> FALSE]

\* build_tree, or what a peer made of main.
Edited(files, e) == Put({f \in files : Path(f) \notin e.drop}, e.put)

\* A rebuild keys a row by the stem of the file, a write by the file's own id.
Row(g, key, f) == [group |-> g, key |-> key, slug |-> f.slug, stem |-> f.stem, text |-> f.text]
Upserted(new) == {r \in rows : r.group # new.group \/ r.key # new.key} \union {new}

\* The rows of a rebuild on which nothing intrudes.
Rebuilt(main) == UNION {{Row(g, f.stem, f) : f \in main[g]} : g \in Groups}

\* One file lies at a path.
IsTree(files) ==
  /\ \A f \in files : f = File(f.slug, f.stem, f.id, f.text)
  /\ \A f, e \in files : Path(f) = Path(e) => f = e

\* What an operation is given.  Its leaf is the id that resolve_memory answers
\* with, which it locks: of a file that has drifted the one in the file or the
\* one in its name, as it was addressed.  Two entries of one archive are of two memories,
\* as they are in an export of a main that has no id twice.
IsWork(w) ==
  /\ w.op \in {"none", "search", "write", "delete", "move", "import", "pull"}
  /\ w.op # "none" => w.group \in Groups
  /\ w.op = "write" => IsTree({w.file})
  /\ w.op \in {"write", "delete", "move"} => w.leaf \in {w.file.id, w.file.stem}
  /\ w.op = "pull" => IsTree(w.files)
  /\ w.op = "import" =>
       /\ w.archive \in Seq({w.archive[i] : i \in DOMAIN w.archive}) /\ w.overwrite \in BOOLEAN
       /\ \A i, j \in DOMAIN w.archive : Identity(w.archive[i]) = Identity(w.archive[j]) => i = j

ASSUME CacheAssumption ==
  /\ Nobody \notin Workers
  /\ \A s \in CacheScenarios :
       /\ s.tree = [g \in Groups |-> s.tree[g]] /\ s.built \in BOOLEAN
       /\ \A g \in Groups : IsTree(s.tree[g])
       /\ s.built => s.rows = Rebuilt(s.tree)
       /\ \A t \in Workers : IsWork(s.work[t])

CacheInit ==
  /\ \E s \in CacheScenarios : tree = s.tree /\ work = s.work /\ rows = s.rows /\ built = s.built
  /\ at = [t \in Workers |-> IF work[t].op = "none" THEN "done" ELSE "start"]
  /\ edit = [t \in Workers |-> NoEdit]
  /\ base = [t \in Workers |-> NoBase]
  /\ tell = [t \in Workers |-> {}]
  /\ scan = [t \in Workers |-> NoScan]
  /\ owner = Nobody
  /\ untold = {}
  /\ mishaps = 0

CacheTypeOK ==
  /\ \A g \in Groups : \A f, e \in tree[g] : Path(f) = Path(e) => f = e
  /\ \A r, s \in rows : r.group = s.group /\ r.key = s.key => r = s
  /\ at \in [Workers -> {"start", "planned", "based", "telling", "pulled", "waiting", "scanning",
                         "reading", "read", "done"}]
  /\ owner \in Workers \union {Nobody}
  /\ \A t \in Workers : (at[t] \in {"scanning", "reading", "read"}) <=> owner = t

Mishap == mishaps < MaxMishaps /\ mishaps' = mishaps + 1
Go(t, stage) == at' = [at EXCEPT ![t] = stage]

\* Keys under which the rows of files may be: told of, and left behind.
Ids(g, files) == {<<g, f.id>> : f \in files}
Keys(g, files) == Ids(g, files) \union {<<g, f.stem>> : f \in files}
\* Files that give way to files of another id at their path.
Displaced(g, new) == {f \in tree[g] : \E n \in new : Path(n) = Path(f) /\ n.id # f.id}

-----------------------------------------------------------------------------
(* Operations on memories, under the scoped locks (see LockChains): a      *)
(* write or delete has its memory, a move or an import the whole group.    *)

Holds(t) == at[t] \in {"planned", "based", "telling"} /\ work[t].op # "pull"
Single(t) == work[t].op \in {"write", "delete"}
Free(t) ==
  \A u \in Workers \ {t} :
    Holds(u) /\ work[u].group = work[t].group
    => Single(u) /\ Single(t) /\ work[u].leaf # work[t].leaf

\* The first lookup of main.
LooksUp(t) ==
  /\ base' = [base EXCEPT ![t] = [files |-> tree[work[t].group], stale |-> FALSE]]
  /\ Go(t, "based")

\* write_file_at_path and delete_file_at_path.
WriteFile(t) ==
  /\ at[t] = "start" /\ work[t].op = "write" /\ Free(t)
  /\ edit' = [edit EXCEPT ![t] = [NoEdit EXCEPT !.put = {work[t].file}]]
  /\ LooksUp(t)
  /\ UNCHANGED <<tree, rows, built, work, tell, scan, owner, untold, mishaps>>

DeleteFile(t) ==
  /\ at[t] = "start" /\ work[t].op = "delete" /\ Free(t)
  /\ edit' = [edit EXCEPT ![t] = [NoEdit EXCEPT !.drop = {Path(work[t].file)}]]
  /\ LooksUp(t)
  /\ UNCHANGED <<tree, rows, built, work, tell, scan, owner, untold, mishaps>>

\* move_memory_path: the bytes of the source, if nothing lies at the destination.
MoveFile(t) ==
  /\ at[t] = "start" /\ work[t].op = "move" /\ Free(t)
  /\ LET main == tree[work[t].group]
         from == {f \in main : Path(f) = Path(work[t].file) /\ f.slug # work[t].slug}
         to == {File(work[t].slug, work[t].leaf, f.id, f.text) : f \in from}
     IN IF from = {} \/ \E f \in main, n \in to : Path(f) = Path(n)
        THEN Go(t, "done") /\ UNCHANGED edit
        ELSE /\ edit' = [edit EXCEPT ![t] = [put |-> to, drop |-> {Path(work[t].file)}]]
             /\ Go(t, "planned")
  /\ UNCHANGED <<tree, rows, built, work, base, tell, scan, owner, untold, mishaps>>

\* import_one_group: the snapshot and the plan of one commit.
PlanImport(t) ==
  /\ at[t] = "start" /\ work[t].op = "import" /\ Free(t)
  /\ LET files == Plan(tree[work[t].group], work[t].archive, work[t].overwrite).files IN
       IF files = {} THEN Go(t, "done") /\ UNCHANGED edit
       ELSE edit' = [edit EXCEPT ![t] = [NoEdit EXCEPT !.put = files]] /\ Go(t, "planned")
  /\ UNCHANGED <<tree, rows, built, work, base, tell, scan, owner, untold, mishaps>>

FindParent(t) ==
  /\ at[t] = "planned"
  /\ LooksUp(t)
  /\ UNCHANGED <<tree, rows, built, work, edit, tell, scan, owner, untold, mishaps>>

\* fast_forward, without a lock: what was fetched has the main that is compared
\* with it among its ancestors.
PullMain(t) ==
  /\ at[t] = "start" /\ work[t].op = "pull"
  /\ edit' = [edit EXCEPT ![t] = [put |-> work[t].files, drop |-> {Path(f) : f \in work[t].gone}]]
  /\ LooksUp(t)
  /\ UNCHANGED <<tree, rows, built, work, tell, scan, owner, untold, mishaps>>

\* The second lookup and the swap: main becomes what was made of the base, and
\* what others landed in between is gone from it.  A write or an import goes on
\* to tell the cache of its own files, a pull to have the group read again; a
\* delete, a move, and the commits that are dropped, nobody tells of.
Told(t) == IF work[t].op \in {"write", "import"} THEN edit[t].put ELSE {}
Land(t) ==
  /\ at[t] = "based"
  /\ LET g == work[t].group
         now == Edited(base[t].files, edit[t])
         changed == (tree[g] \ now) \union (now \ tree[g])
     IN /\ tree' = [tree EXCEPT ![g] = now]
        /\ base' = [u \in Workers |->
                      IF u = t THEN NoBase
                      ELSE IF at[u] = "based" /\ work[u].group = g THEN [base[u] EXCEPT !.stale = TRUE]
                      ELSE base[u]]
        /\ untold' = untold \union Ids(g, Displaced(g, Told(t)))
              \union Keys(g, {f \in changed : \A n \in Told(t) : Path(n) # Path(f)})
  /\ tell' = [tell EXCEPT ![t] = Told(t)]
  /\ edit' = [edit EXCEPT ![t] = NoEdit]
  /\ Go(t, IF work[t].op = "pull" THEN "pulled" ELSE IF Told(t) # {} THEN "telling" ELSE "done")
  /\ UNCHANGED <<rows, built, work, scan, owner, mishaps>>

\* Main moved between the second lookup and the swap, which fails.
LosesRace(t) ==
  /\ at[t] = "based" /\ base[t].stale
  /\ edit' = [edit EXCEPT ![t] = NoEdit] /\ base' = [base EXCEPT ![t] = NoBase]
  /\ Go(t, "done")
  /\ UNCHANGED <<tree, rows, built, work, tell, scan, owner, untold, mishaps>>

\* notify_write: one upsert, outside any transaction, which waits for the one
\* that is open.  What main has meanwhile become is not looked at.
Tell(t) ==
  /\ at[t] = "telling" /\ owner = Nobody
  /\ \E f \in tell[t] :
       /\ rows' = Upserted(Row(work[t].group, f.id, f))
       /\ tell' = [tell EXCEPT ![t] = @ \ {f}]
       /\ Go(t, IF tell[t] = {f} THEN "done" ELSE "telling")
       /\ untold' = IF f \in tree[work[t].group] THEN untold
                    ELSE untold \union Ids(work[t].group, {f})
  /\ UNCHANGED <<tree, built, work, edit, base, scan, owner, mishaps>>

\* A failed upsert, or one that waited too long, is logged and forgotten.
TellFails(t) ==
  /\ at[t] = "telling" /\ Mishap
  /\ \E f \in tell[t] :
       /\ tell' = [tell EXCEPT ![t] = @ \ {f}]
       /\ Go(t, IF tell[t] = {f} THEN "done" ELSE "telling")
       /\ untold' = untold \union Ids(work[t].group, {f})
  /\ UNCHANGED <<tree, rows, built, work, edit, base, scan, owner>>

-----------------------------------------------------------------------------
(* Rebuilds *)

\* notify_pull: no index, nothing to do; the next search builds it whole.  One
\* that is being built right now may have read the group already.
NotifyPull(t) ==
  /\ at[t] = "pulled"
  /\ IF built
     THEN Go(t, "waiting") /\ scan' = [scan EXCEPT ![t] = [NoScan EXCEPT !.todo = {work[t].group}]]
     ELSE Go(t, "done") /\ UNCHANGED scan
  /\ UNCHANGED <<tree, rows, built, work, edit, base, tell, owner, untold, mishaps>>

\* ensure_built, before every search.
EnsureBuilt(t) ==
  /\ at[t] = "start" /\ work[t].op = "search"
  /\ IF built THEN Go(t, "done") /\ UNCHANGED scan
     ELSE Go(t, "waiting") /\ scan' = [scan EXCEPT ![t] = [NoScan EXCEPT !.todo = Groups]]
  /\ UNCHANGED <<tree, rows, built, work, edit, base, tell, owner, untold, mishaps>>

\* The transaction begins with the DELETE, which takes the write lock.
Begin(t) ==
  /\ at[t] = "waiting" /\ owner = Nobody
  /\ owner' = t
  /\ Go(t, "scanning")
  /\ UNCHANGED <<tree, rows, built, work, edit, base, tell, scan, untold, mishaps>>

\* index_group: the paths of a group are listed at HEAD, then their contents
\* read at HEAD, which may be another; a path that has gone is skipped.  Of two
\* files with one stem the last one upserted stays.
ListGroup(t) ==
  /\ at[t] = "scanning"
  /\ \E g \in scan[t].todo :
       /\ scan' = [scan EXCEPT ![t] =
            [todo |-> @.todo \ {g}, now |-> {g}, listed |-> {Path(f) : f \in tree[g]}, done |-> @.done,
             staged |-> @.staged, forgiven |-> @.forgiven \union {u \in untold : u[1] = g}]]
       /\ untold' = {u \in untold : u[1] # g}
  /\ Go(t, "reading")
  /\ UNCHANGED <<tree, rows, built, work, edit, base, tell, owner, mishaps>>

ReadGroup(t) ==
  /\ at[t] = "reading"
  /\ \E g \in scan[t].now :
       LET read == {f \in tree[g] : Path(f) \in scan[t].listed} IN
       \E last \in SUBSET read :
         /\ \A f \in read : \E l \in last : {m \in last : m.stem = f.stem} = {l}
         /\ scan' = [scan EXCEPT ![t] =
              [todo |-> @.todo, now |-> {}, listed |-> @.listed, done |-> @.done \union {g},
               staged |-> @.staged \union {Row(g, f.stem, f) : f \in last}, forgiven |-> @.forgiven]]
  /\ Go(t, IF scan[t].todo = {} THEN "read" ELSE "scanning")
  /\ UNCHANGED <<tree, rows, built, work, edit, base, tell, owner, untold, mishaps>>

\* Faulty variant: the rows of the groups are not cleared.
CommitScanKeepsRows(t) ==
  /\ at[t] = "read"
  /\ rows' = {r \in rows : \A n \in scan[t].staged : r.group # n.group \/ r.key # n.key}
             \union scan[t].staged
  /\ built' = (built \/ work[t].op = "search")
  /\ owner' = Nobody
  /\ scan' = [scan EXCEPT ![t] = NoScan]
  /\ Go(t, "done")
  /\ UNCHANGED <<tree, work, edit, base, tell, untold, mishaps>>

\* The cleared rows, the new ones and the mark of a full build, all at once.
CommitScan(t) ==
  /\ at[t] = "read"
  /\ rows' = {r \in rows : r.group \notin scan[t].done} \union scan[t].staged
  /\ built' = (built \/ work[t].op = "search")
  /\ owner' = Nobody
  /\ scan' = [scan EXCEPT ![t] = NoScan]
  /\ Go(t, "done")
  /\ UNCHANGED <<tree, work, edit, base, tell, untold, mishaps>>

\* Faulty variant: the transaction of a rebuild that failed stays open.
RebuildFailsOpen(t) ==
  /\ at[t] \in {"waiting", "scanning", "reading", "read"} /\ Mishap
  /\ untold' = untold \union scan[t].forgiven
  /\ scan' = [scan EXCEPT ![t] = NoScan]
  /\ Go(t, "done")
  /\ UNCHANGED <<tree, rows, built, work, edit, base, tell, owner>>

\* An error rolls everything back; so does a lock that is waited for too long.
RebuildFails(t) ==
  /\ at[t] \in {"waiting", "scanning", "reading", "read"} /\ Mishap
  /\ owner' = IF owner = t THEN Nobody ELSE owner
  /\ untold' = untold \union scan[t].forgiven
  /\ scan' = [scan EXCEPT ![t] = NoScan]
  /\ Go(t, "done")
  /\ UNCHANGED <<tree, rows, built, work, edit, base, tell>>

\* The process dies: what had begun is over, what had not comes afterwards.
Crash ==
  /\ Mishap
  /\ untold' = untold \union UNION {scan[t].forgiven \union Ids(work[t].group, tell[t]) : t \in Workers}
  /\ at' = [t \in Workers |-> IF at[t] = "start" THEN "start" ELSE "done"]
  /\ scan' = [t \in Workers |-> NoScan]
  /\ tell' = [t \in Workers |-> {}]
  /\ edit' = [t \in Workers |-> NoEdit] /\ base' = [t \in Workers |-> NoBase]
  /\ owner' = Nobody
  /\ UNCHANGED <<tree, rows, built, work>>

CacheNext ==
  \/ Crash
  \/ \E t \in Workers :
       \/ WriteFile(t) \/ DeleteFile(t) \/ MoveFile(t) \/ PlanImport(t) \/ PullMain(t)
       \/ FindParent(t) \/ Land(t) \/ LosesRace(t)
       \/ Tell(t) \/ TellFails(t) \/ NotifyPull(t) \/ EnsureBuilt(t)
       \/ Begin(t) \/ ListGroup(t) \/ ReadGroup(t) \/ CommitScan(t) \/ RebuildFails(t)

CacheSpec == CacheInit /\ [][CacheNext]_cacheVars

-----------------------------------------------------------------------------
(* Properties *)

\* Between operations, an index that was ever built whole agrees with main: it
\* has every memory, with its text and its path, and no row of another.  But
\* for the keys of which it was not told, or too late, since their group was
\* last read: of files that were deleted, moved or replaced by another memory's,
\* and of commits that another one dropped between its two lookups of main; for
\* files that have drifted, which a write and a rebuild file under different
\* ids; and for an id that two files have, which a pull beside an import leaves
\* behind.
Quiet == owner = Nobody /\ \A t \in Workers : at[t] \in {"start", "done"}
Drifted(g) == UNION {{f.id, f.stem} : f \in {d \in tree[g] : d.id # d.stem}}
Doubled(g) == {f.id : f \in {d \in tree[g] : \E e \in tree[g] : e # d /\ e.id = d.id}}
Excused(g) == {u[2] : u \in {x \in untold : x[1] = g}} \union Drifted(g) \union Doubled(g)
IndexIsTrue ==
  Quiet /\ built => \A g \in Groups :
    {r \in rows : r.group = g /\ r.key \notin Excused(g)}
      = {Row(g, f.id, f) : f \in {x \in tree[g] : x.id \notin Excused(g)}}

\* A replay of an archive that was replayed before, in whole or in part, under
\* any slug, changes nothing (see Settles), on every main that can come about.
ImportSettles ==
  \A t \in Workers : work[t].op = "import" =>
    \A g \in Groups, ow \in BOOLEAN : Settles(tree[g], work[t].archive, ow)
=============================================================================
