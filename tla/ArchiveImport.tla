----------------------------- MODULE ArchiveImport -----------------------------
(***************************************************************************)
(* What the replay of a snapshot archive does to one group                 *)
(* (crates/mmcp-store/src/archive/import.rs), as a function of the files   *)
(* of its main.  A file lies at memories/<slug>/<stem>.md and carries an   *)
(* id of its own in its frontmatter, which is the identity of the memory;  *)
(* the stem is the same unless the file has drifted.                       *)
(***************************************************************************)
EXTENDS Naturals, FiniteSets, Sequences

CONSTANT NoId  \* a file, or an archived entry, without an id

File(slug, stem, id, text) == [slug |-> slug, stem |-> stem, id |-> id, text |-> text]
Path(f) == <<f.slug, f.stem>>

\* Files written over a tree: one file lies at a path.
Put(tree, files) ==
  {f \in tree : \A n \in files : Path(f) # Path(n)} \union files

Start(tree) == [ok |-> TRUE, known |-> tree, files |-> {}, skipped |-> 0, conflicts |-> 0]
Staged(p, f) == [p EXCEPT !.known = Put(@, {f}), !.files = Put(@, {f})]
Failed(p) == [p EXCEPT !.ok = FALSE, !.files = {}]

\* ensure_id: the frontmatter's id, else the name of the archived file.
Identity(e) == IF e.id # NoId THEN e.id ELSE e.stem

\* Of the files of one memory the snapshot keeps the one at the last path,
\* whatever they say.
Kept(files) ==
  LET last == CHOOSE path \in {Path(f) : f \in files} : TRUE
  IN CHOOSE f \in files : Path(f) = last

\* Faulty variant: a memory is looked for under the archived slug only.
AccumulateAtSlug(p, e, overwrite) ==
  LET same == {f \in p.known : f.id = Identity(e) /\ f.slug = e.slug}
  IN IF ~p.ok \/ Identity(e) = NoId THEN Failed(p)
     ELSE IF same = {} THEN Staged(p, File(e.slug, Identity(e), Identity(e), e.text))
     ELSE LET old == Kept(same)
          IN IF old.text = e.text \/ ~overwrite THEN p
             ELSE Staged(p, [old EXCEPT !.text = e.text])

\* accumulate_one_memory: what is known by its id is skipped, reported or
\* replaced where it lies; anything else becomes a file named after its id.
Accumulate(p, e, overwrite) ==
  LET id == Identity(e)
      same == {f \in p.known : f.id = id}
      new == File(e.slug, id, id, e.text)
  IN CASE ~p.ok \/ id = NoId -> Failed(p)
       [] p.ok /\ id # NoId /\ same = {} ->
            IF \E f \in p.known : Path(f) = Path(new) THEN Failed(p) ELSE Staged(p, new)
       [] OTHER ->
            LET old == Kept(same)
            IN IF old.text = e.text THEN [p EXCEPT !.skipped = @ + 1]
               ELSE IF overwrite THEN Staged(p, [old EXCEPT !.text = e.text])
               ELSE [p EXCEPT !.conflicts = @ + 1]

\* The entries are replayed in the order of their paths, over one snapshot of
\* the group; an error leaves nothing to commit.
Plan(tree, archive, overwrite) ==
  LET replay[n \in 0..Len(archive)] ==
        IF n = 0 THEN Start(tree) ELSE Accumulate(replay[n - 1], archive[n], overwrite)
  IN replay[Len(archive)]

\* An archive replayed gives no memory a second file, and replayed again changes
\* nothing, whatever of it was there before, under other slugs or in drifted
\* files: so a retry rewrites nothing.
Files(tree, id) == {f \in tree : f.id = id}
Settles(tree, archive, overwrite) ==
  LET p == Plan(tree, archive, overwrite)
      after == Put(tree, p.files)
      again == Plan(after, archive, overwrite)
  IN p.ok =>
       /\ again.ok /\ again.files = {} /\ again.conflicts = p.conflicts
       /\ \A f \in p.files : \/ Files(after, f.id) = {f}
                              \/ \E g, h \in Files(tree, f.id) : g # h
=============================================================================
