----------------------------- MODULE SectionEdits -----------------------------
(***************************************************************************)
(* Section-level editing of a memory's body: the section parser            *)
(* (crates/mmcp-core/src/memory/body.rs), the splice that joins edited     *)
(* text (splice.rs beside it) and the edit operations                      *)
(* (crates/mmcp-store/src/memory_ops.rs).                                  *)
(*                                                                         *)
(* A body is a sequence of lines.  A heading's name is a sequence so that  *)
(* the suffix of a repeated name can be told, and so that a heading can be *)
(* written with that very suffix: the second <<"a">> is <<"a", 2>>, which  *)
(* is also the name of a heading "A 2".                                    *)
(***************************************************************************)
EXTENDS Naturals, Sequences, FiniteSets, SequencesExt, FiniteSetsExt

CONSTANTS
  Bodies,    \* bodies to start from
  Batches,   \* the lists of operations a client may send
  Probes,    \* the single operations the properties ask about
  MaxLines   \* bound: a longer body is not edited further

VARIABLES
  body,      \* the body of the memory
  draft,     \* the body as the operations applied so far have left it
  todo       \* the operations still to apply

bodyVars == <<body, draft, todo>>

Heading(level, name) == [kind |-> "heading", level |-> level, name |-> name]
\* A heading inside a block quote or a list item.
Quoted(level, name) == [kind |-> "quoted", level |-> level, name |-> name]
Text(word) == [kind |-> "text", level |-> 0, name |-> word]
Blank == [kind |-> "blank", level |-> 0, name |-> <<>>]

\* What there is to start from: lines, bodies of them, and operations.
IsList(s) == Len(s) \in Nat /\ s = [k \in 1..Len(s) |-> s[k]]
IsLine(l) ==
  /\ l.kind \in {"heading", "quoted", "text", "blank"} /\ (l.kind = "blank" => l = Blank)
  /\ l.level \in Nat /\ IsList(l.name)
IsBody(b) == IsList(b) /\ \A i \in DOMAIN b : IsLine(b[i])
IsOp(o) ==
  /\ o.op \in {"upsert", "delete", "insert", "move", "replace", "lines"}
  /\ o.op \in {"upsert", "insert"} => IsList(o.name)
  /\ o.op \in {"upsert", "insert", "replace", "lines"} => IsBody(o.text)
  /\ o.op = "lines" => o.start \in Nat /\ o.end \in Nat

ASSUME BodiesAssumption ==
  /\ \A b \in Bodies : IsBody(b)
  /\ \A ops \in Batches : IsList(ops) /\ \A i \in DOMAIN ops : IsOp(ops[i])
  /\ \A o \in Probes : IsOp(o)

-----------------------------------------------------------------------------
(* parse_sections.  A section is known by the line of its heading, the     *)
(* preamble by 0.                                                          *)

Outline(b) == {i \in DOMAIN b : b[i].kind = "heading"}
Headed(b) == {i \in DOMAIN b : b[i].kind \in {"heading", "quoted"}}
Preamble == <<<<"preamble">>>>

\* Faulty variant: a heading of the same level does not close the section.
ParentAtLevel(b, i) ==
  LET open == {j \in Outline(b) : j < i /\ (i \in Outline(b) => b[j].level <= b[i].level)}
  IN Max({0} \union open)

\* The top of the parser's stack when it reaches heading i: only a heading of
\* the outline closes the sections of its level and deeper.
Parent(b, i) ==
  LET open == {j \in Outline(b) : j < i /\ (i \in Outline(b) => b[j].level < b[i].level)}
  IN Max({0} \union open)

\* A name that is repeated under one parent gets its number as a suffix.
Segment(name, n) == IF n = 1 THEN name ELSE Append(name, n)
Paths(b) ==
  LET path[i \in {0} \union Headed(b)] ==
        IF i = 0 THEN <<>>
        ELSE LET up == path[Parent(b, i)]
                 same == {k \in Headed(b) : /\ k <= i /\ b[k].name = b[i].name
                                            /\ path[Parent(b, k)] = up}
             IN Append(up, Segment(b[i].name, Cardinality(same)))
  IN path

At(b, path) ==
  LET paths == Paths(b)
  IN {i \in {0} \union Headed(b) : IF i = 0 THEN path = Preamble ELSE paths[i] = path}
First(b, path) == Min(At(b, path))

\* The lines of a section and all that is nested in it: From to To - 1.  The
\* preamble and a heading in a container own no more than their own lines.
From(i) == IF i = 0 THEN 1 ELSE i
To(b, i) ==
  Min({Len(b) + 1} \union {j \in Headed(b) :
         /\ j > i
         /\ i \in Outline(b) => j \in Outline(b) /\ b[j].level <= b[i].level})
Lines(b, i) == SubSeq(b, From(i), To(b, i) - 1)

-----------------------------------------------------------------------------
(* splice: a heading keeps a blank line on both sides of a seam.           *)

IsHeading(line) == line.kind = "heading"
Seam(left, apart) ==
  IF left # <<>> /\ apart /\ Last(left) # Blank THEN Append(left, Blank) ELSE left
Join(left, right) ==
  IF right = <<>> THEN left
  ELSE Seam(left, (left # <<>> /\ IsHeading(Last(left))) \/ IsHeading(Head(right))) \o right
Splice(b, from, to, fragment) ==
  Join(Join(SubSeq(b, 1, from - 1), fragment), SubSeq(b, to, Len(b)))

-----------------------------------------------------------------------------
(* The operations *)

Done(b) == [ok |-> TRUE, body |-> b]
Refused(b) == [ok |-> FALSE, body |-> b]

NewSection(o) ==
  <<Heading(o.level, o.name)>> \o (IF o.text = <<>> THEN <<>> ELSE <<Blank>> \o o.text)
LevelOk(o) == o.level \in 1..6

\* The written section must be found again under the path it was asked for,
\* and hold all that was written: else a repeated upsert would add copies.
Upsert(b, o) ==
  LET found == At(b, o.path) # {}
      new == NewSection(o)
      from == IF found THEN From(First(b, o.path)) ELSE Len(b) + 1
      to == IF found THEN To(b, First(b, o.path)) ELSE Len(b) + 1
      after == Splice(b, from, to, new)
      written == Min({i \in Headed(after) : i >= from})
  IN IF /\ LevelOk(o) /\ o.path # Preamble
        /\ Paths(after)[written] = o.path
        /\ To(after, written) - written >= Len(new)
     THEN Done(after) ELSE Refused(b)

Delete(b, o) ==
  IF At(b, o.path) = {} THEN Refused(b)
  ELSE LET i == First(b, o.path) IN Done(Splice(b, From(i), To(b, i), <<>>))

Beside(b, anchor, before) == IF before THEN From(anchor) ELSE To(b, anchor)

Insert(b, o) ==
  IF ~LevelOk(o) \/ At(b, o.path) = {} THEN Refused(b)
  ELSE LET at == Beside(b, First(b, o.path), o.before)
       IN Done(Splice(b, at, at, NewSection(o)))

DropOneBlank(b) == IF b # <<>> /\ Last(b) = Blank THEN Front(b) ELSE b

\* A move that cuts the end of the body drops the blank line left there.  The
\* anchor is looked up again, by its path, in what is left.
Without(b, target) ==
  LET rest == Splice(b, From(target), To(b, target), <<>>)
  IN IF To(b, target) = Len(b) + 1 THEN DropOneBlank(rest) ELSE rest

Movable(b, o) ==
  /\ o.path # o.anchor /\ At(b, o.path) # {} /\ At(b, o.anchor) # {}
  /\ LET target == First(b, o.path) IN
       /\ ~(target < First(b, o.anchor) /\ First(b, o.anchor) < To(b, target))
       /\ At(Without(b, target), o.anchor) # {}

\* Faulty variant: the place is that of the anchor before the cut.
MoveToOldPlace(b, o) ==
  IF ~Movable(b, o) THEN Refused(b)
  ELSE LET target == First(b, o.path)
           rest == Without(b, target)
           at == Min({Beside(b, First(b, o.anchor), o.before), Len(rest) + 1})
       IN Done(Splice(rest, at, at, Lines(b, target)))

Move(b, o) ==
  IF ~Movable(b, o) THEN Refused(b)
  ELSE LET target == First(b, o.path)
           rest == Without(b, target)
           at == Beside(rest, First(rest, o.anchor), o.before)
       IN Done(Splice(rest, at, at, Lines(b, target)))

\* The text of a section, up to the first section nested in it.
OwnText(b, i) ==
  [from |-> i + 1,
   to |-> Min({To(b, i)} \union {j \in Outline(b) : i < j /\ j < To(b, i)})]

ReplaceText(b, o) ==
  IF At(b, o.path) = {} THEN Refused(b)
  ELSE LET own == OwnText(b, First(b, o.path))
       IN Done(Splice(b, own.from, own.to, o.text))

\* Lines are counted from 0; the range excludes its end.
ReplaceLines(b, o) ==
  IF o.start <= o.end /\ o.end <= Len(b)
  THEN Done(Splice(b, o.start + 1, o.end + 1, o.text)) ELSE Refused(b)

ApplyOne(b, o) ==
  CASE o.op = "upsert" -> Upsert(b, o)
    [] o.op = "delete" -> Delete(b, o)
    [] o.op = "insert" -> Insert(b, o)
    [] o.op = "move" -> Move(b, o)
    [] o.op = "replace" -> ReplaceText(b, o)
    [] o.op = "lines" -> ReplaceLines(b, o)

-----------------------------------------------------------------------------
(* apply_ops: every operation of a list or none.                           *)

BodyInit == body \in Bodies /\ draft = body /\ todo = <<>>

BeginEdit(ops) ==
  /\ todo = <<>> /\ Len(body) <= MaxLines
  /\ draft' = body /\ todo' = ops
  /\ UNCHANGED body

ApplyNext ==
  /\ todo # <<>>
  /\ LET r == ApplyOne(draft, Head(todo)) IN
       IF r.ok
       THEN /\ draft' = r.body /\ todo' = Tail(todo)
            /\ body' = IF Tail(todo) = <<>> THEN r.body ELSE body
       ELSE draft' = body /\ todo' = <<>> /\ UNCHANGED body

BodyNext == ApplyNext \/ \E ops \in Batches : BeginEdit(ops)
BodySpec == BodyInit /\ [][BodyNext]_bodyVars

-----------------------------------------------------------------------------
(* Properties *)

BodyTypeOK ==
  /\ \A i \in DOMAIN body : IsLine(body[i])
  /\ \A i \in DOMAIN draft : IsLine(draft[i])
  /\ todo = <<>> => draft = body

\* A path names one section, and the sections whose paths begin with it are
\* those the edits of that section take along: the parser's stack and the level
\* arithmetic of the edits agree, repeated names and quoted headings included.
\* A heading may not be written with the suffix of a repeated name.
Plain(b) == \A i \in Headed(b) : Len(b[i].name) = 1 /\ b[i].name # Preamble[1]
PathsNameSections ==
  todo = <<>> /\ Plain(body) =>
    LET paths == Paths(body) IN
      \A i \in Headed(body) :
        /\ At(body, paths[i]) = {i}
        /\ i \in Outline(body) =>
             {k \in Headed(body) : i <= k /\ k < To(body, i)}
               = {k \in Headed(body) : IsPrefix(paths[i], paths[k])}

\* An upsert that was accepted reaches a fixed point: repeated, it finds what
\* it wrote and changes nothing, so no retry of a client ever adds a copy;
\* unless the upsert lifts the section to a shallower level, or out of a
\* container, where it comes to own the sections that follow it.
Lifts(b, o) ==
  At(b, o.path) # {} /\ LET i == First(b, o.path) IN i \notin Outline(b) \/ o.level < b[i].level
UpsertSettles ==
  todo = <<>> => \A o \in Probes :
    o.op = "upsert" /\ Upsert(body, o).ok /\ ~Lifts(body, o)
      => Upsert(Upsert(body, o).body, o) = Upsert(body, o)

\* A move that is accepted loses no line, keeps every other line in its order
\* and puts the section with all that is nested in it right beside the anchor;
\* unless the cut renumbers sections of the moved names, and with them maybe
\* the anchor, whose path then names another section.
Solid(lines) == SelectSeq(lines, LAMBDA l : l # Blank)
Renumbers(b, target) ==
  \E i, k \in Headed(b) : /\ From(target) <= i /\ i < To(b, target)
                          /\ To(b, target) <= k /\ b[i].name = b[k].name
MovesLandAtTheAnchor ==
  todo = <<>> => \A o \in Probes :
    o.op = "move" /\ Movable(body, o) /\ ~Renumbers(body, First(body, o.path)) =>
      LET target == First(body, o.path)
          anchor == First(body, o.anchor)
          at == Beside(body, anchor, o.before)
          cut(lo, hi) == SelectSeq([k \in 1..Len(body) |-> <<k, body[k]>>], LAMBDA l :
                           /\ lo <= l[1] /\ l[1] < hi /\ l[2] # Blank
                           /\ ~(From(target) <= l[1] /\ l[1] < To(body, target)))
          plain(lines) == [k \in DOMAIN lines |-> lines[k][2]]
      IN Solid(Move(body, o).body)
           = plain(cut(1, at)) \o Solid(Lines(body, target)) \o plain(cut(at, Len(body) + 1))

\* Both, of every probe and every body that edits reach.
EditsLand == UpsertSettles /\ MovesLandAtTheAnchor
=============================================================================
