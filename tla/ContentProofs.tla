----------------------------- MODULE ContentProofs -----------------------------
(***************************************************************************)
(* What memories and archives contain.                                     *)
(*                                                                         *)
(* The replay of an archive: for every tree and every archive, a replay    *)
(* that is repeated changes nothing.  The sections of a body: for every    *)
(* body and every list of edits, what the parser names and what the edits  *)
(* move are the same.                                                      *)
(***************************************************************************)
EXTENDS ContentCache, SectionEdits, SequenceTheorems, FiniteSetTheorems,
        WellFoundedInduction, TLAPS

-----------------------------------------------------------------------------
(* Induction and recursion over numbers, as facts about sets.              *)

\* A set of numbers that has 0, and with a number the next up to N, has all up to N.
LEMMA CountedUp ==
  ASSUME NEW N \in Nat, NEW S, 0 \in S, \A n \in 0..(N - 1) : n \in S => n + 1 \in S
  PROVE  0..N \subseteq S
<1> DEFINE T == {n \in 0..N : n \notin S}
           R == OpToRel(<, Nat)
<1> SUFFICES ASSUME T # {} PROVE FALSE
  OBVIOUS
<1>1. IsWellFoundedOn(R, Nat)
  BY NatLessThanWellFounded
<1>2. T \subseteq Nat /\ \E n : n \in T
  OBVIOUS
<1>3. PICK x \in T : \A y \in T : ~(<<y, x>> \in R)
  <2> HIDE DEF T, R
  <2> QED
    BY <1>1, <1>2, WFMin, Zenon
<1>4. x # 0 /\ x - 1 \in 0..(N - 1) /\ x - 1 \notin T
  <2>1. x \in 0..N /\ x \notin S /\ x # 0
    OBVIOUS
  <2>2. x - 1 \in Nat /\ x - 1 < x /\ x - 1 \in 0..(N - 1)
    BY <2>1
  <2>3. <<x - 1, x>> \in R
    BY <2>1, <2>2 DEF OpToRel
  <2> HIDE DEF T, R
  <2> QED
    BY <1>3, <2>1, <2>2, <2>3
<1>5. x - 1 \in S
  BY <1>4
<1> QED
  BY <1>4, <1>5

\* A set of numbers has a least one, and one that is bounded a greatest.
LEMMA MinIsLeast ==
  ASSUME NEW S, S \subseteq Nat, S # {}
  PROVE  Min(S) \in S /\ \A y \in S : Min(S) <= y
<1> DEFINE R == OpToRel(<, Nat)
<1>1. IsWellFoundedOn(R, Nat)
  BY NatLessThanWellFounded
<1>2. PICK x \in S : \A y \in S : ~(<<y, x>> \in R)
  <2> HIDE DEF R
  <2> QED
    BY <1>1, WFMin, Zenon
<1>3. \A y \in S : x <= y
  <2> SUFFICES ASSUME NEW y \in S, y < x PROVE FALSE
    OBVIOUS
  <2>1. <<y, x>> \in R
    BY DEF OpToRel
  <2> HIDE DEF R
  <2> QED
    BY <1>2, <2>1
<1>4. \E m \in S : \A y \in S : m <= y
  BY <1>3
<1> QED
  BY <1>4 DEF Min

LEMMA MaxIsGreatest ==
  ASSUME NEW N \in Nat, NEW S, S \subseteq 0..N, S # {}
  PROVE  Max(S) \in S /\ \A y \in S : y <= Max(S)
<1> DEFINE T == {N - y : y \in S}
<1>1. T \subseteq Nat /\ T # {}
  <2>1. \A y \in S : N - y \in Nat /\ N - y \in T
    OBVIOUS
  <2> QED
    BY <2>1
<1>2. Min(T) \in T /\ \A y \in T : Min(T) <= y
  <2> HIDE DEF T
  <2> QED
    BY <1>1, MinIsLeast
<1>3. PICK m \in S : Min(T) = N - m
  BY <1>2
<1>4. \A y \in S : y <= m
  <2> SUFFICES ASSUME NEW y \in S PROVE y <= m
    OBVIOUS
  <2>1. N - m <= N - y
    BY <1>2, <1>3
  <2> QED
    BY <2>1
<1>5. \E x \in S : \A y \in S : x >= y
  BY <1>4
<1>6. Max(S) \in S /\ \A y \in S : Max(S) >= y
  BY <1>5 DEF Max
<1> QED
  BY <1>6

-----------------------------------------------------------------------------
(* One entry of an archive.                                                *)

Entry(archive, n) == Identity(archive[n])

\* What a step of the replay does to a known tree.
Creates(p, e) == Files(p.known, Identity(e)) = {}
Rewrites(p, e, ow) ==
  ~Creates(p, e) /\ ow /\ Kept(Files(p.known, Identity(e))).text # e.text
New(e) == File(e.slug, Identity(e), Identity(e), e.text)
Rewritten(p, e) == [Kept(Files(p.known, Identity(e))) EXCEPT !.text = e.text]

\* The file that is kept is one of them, at a path that depends on their paths alone.
LEMMA KeptIsOne ==
  ASSUME NEW files, files # {}
  PROVE  /\ Kept(files) \in files
         /\ Path(Kept(files)) = CHOOSE path \in {Path(f) : f \in files} : TRUE
<1> DEFINE last == CHOOSE path \in {Path(f) : f \in files} : TRUE
<1>1. last \in {Path(f) : f \in files}
  OBVIOUS
<1>2. \E f \in files : Path(f) = last
  BY <1>1
<1> HIDE DEF last
<1>3. (CHOOSE f \in files : Path(f) = last) \in files /\ Path(CHOOSE f \in files : Path(f) = last) = last
  BY <1>2
<1> QED
  BY <1>3 DEF Kept, last

IsPlan(p) ==
  p \in [ok : BOOLEAN, known : {p.known}, files : {p.files}, skipped : {p.skipped},
         conflicts : {p.conflicts}]

LEMMA StartIsPlan ==
  ASSUME NEW tree0
  PROVE  /\ IsPlan(Start(tree0)) /\ Start(tree0).ok /\ Start(tree0).known = tree0
         /\ Start(tree0).files = {} /\ Start(tree0).conflicts = 0
<1>1. Start(tree0) \in [ok : {TRUE}, known : {tree0}, files : {{}}, skipped : {0}, conflicts : {0}]
  BY DEF Start
<1> QED
  BY <1>1 DEF IsPlan

\* What is staged is known, and a failure stages nothing.
LEMMA PlanParts ==
  ASSUME NEW p, IsPlan(p), NEW f
  PROVE  /\ IsPlan(Failed(p)) /\ ~Failed(p).ok
         /\ IsPlan(Staged(p, f)) /\ Staged(p, f).ok = p.ok
         /\ Staged(p, f).known = Put(p.known, {f}) /\ Staged(p, f).files = Put(p.files, {f})
         /\ Staged(p, f).conflicts = p.conflicts
<1>1. Failed(p) \in [ok : {FALSE}, known : {p.known}, files : {{}}, skipped : {p.skipped},
                     conflicts : {p.conflicts}]
  BY DEF IsPlan, Failed
<1>2. Staged(p, f) \in [ok : {p.ok}, known : {Put(p.known, {f})}, files : {Put(p.files, {f})},
                        skipped : {p.skipped}, conflicts : {p.conflicts}]
  BY DEF IsPlan, Staged
<1>3. p.ok \in BOOLEAN
  BY DEF IsPlan
<1> QED
  BY <1>1, <1>2, <1>3 DEF IsPlan

\* What a step makes of a replay that goes on.
LEMMA StepCases ==
  ASSUME NEW p, IsPlan(p), NEW e, NEW ow \in BOOLEAN, Accumulate(p, e, ow).ok
  PROVE  LET q == Accumulate(p, e, ow) IN
         /\ p.ok /\ Identity(e) # NoId
         /\ \/ /\ Creates(p, e)
               /\ \A f \in p.known : Path(f) # Path(New(e))
               /\ q = Staged(p, New(e))
            \/ /\ Rewrites(p, e, ow)
               /\ q = Staged(p, Rewritten(p, e))
            \/ /\ ~Creates(p, e)
               /\ Kept(Files(p.known, Identity(e))).text = e.text
               /\ q = [p EXCEPT !.skipped = @ + 1]
            \/ /\ ~Creates(p, e) /\ ~ow
               /\ Kept(Files(p.known, Identity(e))).text # e.text
               /\ q = [p EXCEPT !.conflicts = @ + 1]
<1> USE DEF IsPlan
<1> DEFINE id == Identity(e)
           same == Files(p.known, id)
<1>0. Failed(p).ok = FALSE
  BY DEF Failed
<1>1. p.ok /\ id # NoId
  <2> SUFFICES ASSUME ~(p.ok /\ id # NoId) PROVE FALSE
    OBVIOUS
  <2>1. Accumulate(p, e, ow) = Failed(p)
    BY DEF Accumulate
  <2> QED
    BY <1>0, <2>1
<1>2. CASE same = {}
  <2>1. Accumulate(p, e, ow) = IF \E f \in p.known : Path(f) = Path(New(e)) THEN Failed(p) ELSE Staged(p, New(e))
    BY <1>1, <1>2 DEF Accumulate, Files, New
  <2> QED
    BY <1>0, <1>1, <1>2, <2>1 DEF Creates
<1>3. CASE same # {}
  <2>1. Accumulate(p, e, ow) =
          IF Kept(same).text = e.text THEN [p EXCEPT !.skipped = @ + 1]
          ELSE IF ow THEN Staged(p, [Kept(same) EXCEPT !.text = e.text])
          ELSE [p EXCEPT !.conflicts = @ + 1]
    BY <1>1, <1>3 DEF Accumulate, Files
  <2> QED
    BY <1>1, <1>3, <2>1 DEF Creates, Rewrites, Rewritten
<1> QED
  BY <1>2, <1>3

\* A step that fails, or follows one that did, leaves nothing to commit.
LEMMA StepsArePlans ==
  ASSUME NEW p, IsPlan(p), NEW e, NEW ow \in BOOLEAN
  PROVE  IsPlan(Accumulate(p, e, ow))
<1>1. IsPlan(Failed(p)) /\ \A f : IsPlan(Staged(p, f))
  BY PlanParts
<1>2. IsPlan([p EXCEPT !.skipped = @ + 1]) /\ IsPlan([p EXCEPT !.conflicts = @ + 1])
  BY DEF IsPlan
<1> QED
  BY <1>1, <1>2 DEF Accumulate

LEMMA FailedStep ==
  ASSUME NEW p, IsPlan(p), NEW e, NEW ow \in BOOLEAN
  PROVE  Accumulate(p, e, ow).ok \/ Accumulate(p, e, ow).files = {}
<1>1. Failed(p).files = {}
  BY DEF IsPlan, Failed
<1>2. [p EXCEPT !.skipped = @ + 1].ok = p.ok /\ [p EXCEPT !.conflicts = @ + 1].ok = p.ok
  BY DEF IsPlan
<1>3. \A f : Staged(p, f).ok = p.ok
  BY PlanParts
<1> QED
  BY <1>1, <1>2, <1>3 DEF Accumulate

\* A file put over a tree where its path is free, or in the place of the old one.
LEMMA PutOne ==
  ASSUME NEW tree0, IsTree(tree0), NEW f, IsTree({f})
  PROVE  /\ IsTree(Put(tree0, {f}))
         /\ Put(tree0, {f}) = {g \in tree0 : Path(g) # Path(f)} \union {f}
         /\ \A files : Put(Put(tree0, files), {f}) = Put(tree0, Put(files, {f}))
BY DEF IsTree, Put

\* What a step writes is the only file of its memory, or stands for one of several.
Wrote(p, q, e) ==
  LET id == Identity(e) IN
  \/ q.files = p.files /\ q.known = p.known
  \/ \E f : /\ IsTree({f}) /\ f.id = id
             /\ q.files = Put(p.files, {f}) /\ q.known = Put(p.known, {f})
             /\ \/ Files(q.known, id) = {f}
                \/ \E g, h \in Files(p.known, id) : g # h

\* What a step does to the files of the entry's memory and to those of others.
Settled(p, q, e, ow) ==
  LET id == Identity(e) IN
  /\ IsTree(q.known)
  /\ \A j : j # id => Files(q.known, j) = Files(p.known, j)
  /\ Files(q.known, id) # {}
  /\ Kept(Files(q.known, id)).text = e.text \/ ~ow
  /\ q.conflicts = IF Kept(Files(q.known, id)).text = e.text THEN p.conflicts ELSE p.conflicts + 1
  /\ Wrote(p, q, e)
LEMMA StepSettles ==
  ASSUME NEW p, IsPlan(p), IsTree(p.known), NEW e, NEW ow \in BOOLEAN, Accumulate(p, e, ow).ok
  PROVE  Settled(p, Accumulate(p, e, ow), e, ow)
<1> DEFINE id == Identity(e)
           same == Files(p.known, id)
           q == Accumulate(p, e, ow)
<1>1. CASE /\ Creates(p, e)
           /\ \A f \in p.known : Path(f) # Path(New(e))
           /\ q = Staged(p, New(e))
  <2>1. New(e).id = id /\ New(e).text = e.text /\ IsTree({New(e)})
    BY DEF New, File, IsTree
  <2>2. q.known = p.known \union {New(e)} /\ q.conflicts = p.conflicts /\ IsTree(q.known)
    <3>1. q.known = Put(p.known, {New(e)}) /\ q.conflicts = p.conflicts
      BY <1>1, PlanParts
    <3>2. {g \in p.known : Path(g) # Path(New(e))} = p.known
      BY <1>1
    <3>3. /\ IsTree(Put(p.known, {New(e)}))
          /\ Put(p.known, {New(e)}) = {g \in p.known : Path(g) # Path(New(e))} \union {New(e)}
      BY <2>1, PutOne
    <3> QED
      BY <3>1, <3>2, <3>3
  <2>3. Files(q.known, id) = {New(e)} /\ \A j : j # id => Files(q.known, j) = Files(p.known, j)
    BY <1>1, <2>1, <2>2 DEF Files, Creates
  <2>4. Kept({New(e)}) = New(e)
    BY KeptIsOne
  <2>5. q.files = Put(p.files, {New(e)}) /\ q.known = Put(p.known, {New(e)})
    BY <1>1, PlanParts
  <2>6. Wrote(p, q, e)
    BY <2>1, <2>3, <2>5 DEF Wrote
  <2> QED
    BY <2>1, <2>2, <2>3, <2>4, <2>6 DEF Settled
<1>2. CASE /\ Rewrites(p, e, ow)
           /\ q = Staged(p, Rewritten(p, e))
  <2> DEFINE old == Kept(same)
             new == Rewritten(p, e)
  <2>1. old \in same /\ old \in p.known /\ old.id = id /\ old = File(old.slug, old.stem, old.id, old.text)
    BY <1>2, KeptIsOne DEF Rewrites, Creates, Files, IsTree
  <2>2. new = File(old.slug, old.stem, id, e.text)
    BY <2>1 DEF Rewritten, File
  <2>3. Path(new) = Path(old) /\ new.id = id /\ new.text = e.text /\ IsTree({new})
    BY <2>1, <2>2 DEF File, Path, IsTree
  <2> HIDE DEF new, old
  <2>4. q.known = {g \in p.known : Path(g) # Path(old)} \union {new} /\ q.conflicts = p.conflicts
        /\ IsTree(q.known)
    <3>1. q.known = Put(p.known, {new}) /\ q.conflicts = p.conflicts
      BY <1>2, PlanParts DEF new
    <3>2. /\ IsTree(Put(p.known, {new}))
          /\ Put(p.known, {new}) = {g \in p.known : Path(g) # Path(new)} \union {new}
      BY <2>3, PutOne
    <3>3. {g \in p.known : Path(g) # Path(new)} = {g \in p.known : Path(g) # Path(old)}
      BY <2>3
    <3> QED
      BY <3>1, <3>2, <3>3
  <2>5. \A g \in p.known : Path(g) = Path(old) => g = old
    BY <2>1 DEF IsTree
  <2>6. \A j : j # id => Files(q.known, j) = Files(p.known, j)
    BY <2>1, <2>3, <2>4, <2>5 DEF Files
  <2>7. Files(q.known, id) = (same \ {old}) \union {new}
    BY <2>1, <2>3, <2>4, <2>5 DEF Files
  <2>8. {Path(f) : f \in Files(q.known, id)} = {Path(f) : f \in same}
    <3>1. \A f \in Files(q.known, id) : \E g \in same : Path(f) = Path(g)
      BY <2>1, <2>3, <2>7
    <3>2. \A g \in same : \E f \in Files(q.known, id) : Path(f) = Path(g)
      BY <2>3, <2>7
    <3> QED
      BY <3>1, <3>2
  <2>9. Path(Kept(Files(q.known, id))) = Path(old) /\ Kept(Files(q.known, id)) \in Files(q.known, id)
    <3>1. Files(q.known, id) # {} /\ same # {}
      BY <2>1, <2>7
    <3>2. /\ Kept(Files(q.known, id)) \in Files(q.known, id)
          /\ Path(Kept(Files(q.known, id))) = CHOOSE path \in {Path(f) : f \in Files(q.known, id)} : TRUE
      BY <3>1, KeptIsOne
    <3>3. Path(old) = CHOOSE path \in {Path(f) : f \in same} : TRUE
      BY <3>1, KeptIsOne DEF old
    <3> QED
      BY <2>8, <3>2, <3>3
  <2>10. Kept(Files(q.known, id)) = new
    BY <2>3, <2>4, <2>7, <2>9 DEF Files, IsTree
  <2>11. q.files = Put(p.files, {new}) /\ q.known = Put(p.known, {new})
    BY <1>2, PlanParts DEF new
  <2>12. Files(q.known, id) = {new} \/ \E g, h \in same : g # h
    BY <2>1, <2>7
  <2>13. Wrote(p, q, e)
    BY <2>3, <2>11, <2>12 DEF Wrote
  <2> QED
    BY <2>3, <2>4, <2>6, <2>7, <2>10, <2>13 DEF Settled
<1>3. CASE q.known = p.known /\ q.files = p.files /\ ~Creates(p, e)
           /\ Kept(same).text = e.text /\ q.conflicts = p.conflicts
  BY <1>3 DEF Settled, Creates, Wrote
<1>4. CASE q.known = p.known /\ q.files = p.files /\ ~Creates(p, e) /\ ~ow
           /\ Kept(same).text # e.text /\ q.conflicts = p.conflicts + 1
  BY <1>4 DEF Settled, Creates, Wrote
<1>5. /\ [p EXCEPT !.skipped = @ + 1].known = p.known
      /\ [p EXCEPT !.skipped = @ + 1].files = p.files
      /\ [p EXCEPT !.conflicts = @ + 1].files = p.files
      /\ [p EXCEPT !.skipped = @ + 1].conflicts = p.conflicts
      /\ [p EXCEPT !.conflicts = @ + 1].known = p.known
      /\ [p EXCEPT !.conflicts = @ + 1].conflicts = p.conflicts + 1
  BY DEF IsPlan
<1>6. \/ /\ Creates(p, e)
         /\ \A f \in p.known : Path(f) # Path(New(e))
         /\ q = Staged(p, New(e))
      \/ /\ Rewrites(p, e, ow)
         /\ q = Staged(p, Rewritten(p, e))
      \/ /\ ~Creates(p, e)
         /\ Kept(same).text = e.text
         /\ q = [p EXCEPT !.skipped = @ + 1]
      \/ /\ ~Creates(p, e) /\ ~ow
         /\ Kept(same).text # e.text
         /\ q = [p EXCEPT !.conflicts = @ + 1]
  BY StepCases
<1> HIDE DEF q, same, id
<1> QED
  BY <1>1, <1>2, <1>3, <1>4, <1>5, <1>6 DEF q

\* Over the files that a step has left, the same entry is skipped or reported again.
LEMMA RepeatedStep ==
  ASSUME NEW p, NEW q, NEW e, NEW ow \in BOOLEAN, Settled(p, q, e, ow), Identity(e) # NoId,
         NEW r, IsPlan(r), r.ok, Files(r.known, Identity(e)) = Files(q.known, Identity(e))
  PROVE  LET s == Accumulate(r, e, ow) IN
         /\ IsPlan(s) /\ s.ok /\ s.known = r.known /\ s.files = r.files
         /\ r.conflicts = p.conflicts => s.conflicts = q.conflicts
<1> DEFINE same == Files(r.known, Identity(e))
           s == Accumulate(r, e, ow)
<1>1. same # {} /\ (Kept(same).text = e.text \/ ~ow)
  BY DEF Settled
<1>2. s = IF Kept(same).text = e.text THEN [r EXCEPT !.skipped = @ + 1]
          ELSE [r EXCEPT !.conflicts = @ + 1]
  BY <1>1 DEF Accumulate, Files
<1>3. IsPlan(s)
  BY StepsArePlans
<1> QED
  BY <1>1, <1>2, <1>3 DEF Settled, IsPlan

-----------------------------------------------------------------------------
(* A whole archive.                                                        *)

\* f[n] is the replay after n entries.
IsRun(f, tree0, archive, ow) ==
  /\ f[0] = Start(tree0)
  /\ \A n \in 1..Len(archive) : f[n] = Accumulate(f[n - 1], archive[n], ow)

\* A plan is where such a run ends.
LEMMA PlanIsARun ==
  ASSUME NEW tree0, NEW archive, Len(archive) \in Nat, NEW ow
  PROVE  \E f : IsRun(f, tree0, archive, ow) /\ Plan(tree0, archive, ow) = f[Len(archive)]
<1> DEFINE N == Len(archive)
           Rec(f, m) == f = [n \in 0..m |-> IF n = 0 THEN Start(tree0)
                                            ELSE Accumulate(f[n - 1], archive[n], ow)]
           S == {m \in Nat : \E f : Rec(f, m)}
<1>1. 0 \in S
  <2> DEFINE f == [n \in 0..0 |-> Start(tree0)]
  <2>1. f = [n \in 0..0 |-> IF n = 0 THEN Start(tree0) ELSE Accumulate(f[n - 1], archive[n], ow)]
    OBVIOUS
  <2> QED
    BY <2>1
<1>2. ASSUME NEW m \in 0..(N - 1), m \in S
      PROVE  m + 1 \in S
  <2>1. PICK f : Rec(f, m)
    BY <1>2
  <2> DEFINE g == [n \in 0..(m + 1) |-> IF n = m + 1 THEN Accumulate(f[m], archive[m + 1], ow) ELSE f[n]]
  <2>2. \A n \in 0..m : f[n] = IF n = 0 THEN Start(tree0) ELSE Accumulate(f[n - 1], archive[n], ow)
    BY <2>1
  <2>3. ASSUME NEW n \in 0..(m + 1)
        PROVE  g[n] = IF n = 0 THEN Start(tree0) ELSE Accumulate(g[n - 1], archive[n], ow)
    BY <2>2
  <2>4. \E x : Rec(x, m + 1)
    <3>1. g = [n \in 0..(m + 1) |-> IF n = 0 THEN Start(tree0) ELSE Accumulate(g[n - 1], archive[n], ow)]
      BY <2>3
    <3> HIDE DEF g
    <3> QED
      BY <3>1
  <2>5. m + 1 \in Nat
    OBVIOUS
  <2> HIDE DEF Rec
  <2> QED
    BY <2>4, <2>5
<1>3. \E f : Rec(f, N)
  <2> HIDE DEF S
  <2>1. 0..N \subseteq S
    BY <1>1, <1>2, CountedUp
  <2> QED
    BY <2>1 DEF S
<1> DEFINE r == CHOOSE f : Rec(f, N)
<1>4. Rec(r, N)
  BY <1>3
<1>5. Plan(tree0, archive, ow) = r[N]
  BY DEF Plan
<1> HIDE DEF r
<1>6. IsRun(r, tree0, archive, ow)
  BY <1>4 DEF IsRun
<1> QED
  BY <1>5, <1>6

\* A run that ends well went well all along.
LEMMA RunIsOk ==
  ASSUME NEW f, NEW tree0, NEW archive, Len(archive) \in Nat, NEW ow \in BOOLEAN,
         IsRun(f, tree0, archive, ow), f[Len(archive)].ok
  PROVE  \A n \in 0..Len(archive) : IsPlan(f[n]) /\ f[n].ok
<1> DEFINE N == Len(archive)
           P == {n \in 0..N : IsPlan(f[n])}
           Q == {k \in 0..N : f[N - k].ok}
<1>1. 0 \in P
  <2>1. f[0] = Start(tree0)
    BY DEF IsRun
  <2>2. IsPlan(Start(tree0))
    BY StartIsPlan
  <2> QED
    BY <2>1, <2>2
<1>2. ASSUME NEW n \in 0..(N - 1), n \in P
      PROVE  n + 1 \in P
  <2>1. n + 1 \in 1..N /\ (n + 1) - 1 = n
    OBVIOUS
  <2>2. f[n + 1] = Accumulate(f[n], archive[n + 1], ow)
    BY <2>1 DEF IsRun
  <2>3. IsPlan(f[n + 1])
    BY <1>2, <2>2, StepsArePlans
  <2> QED
    BY <2>1, <2>3
<1>3. \A n \in 0..N : IsPlan(f[n])
  <2>1. 0..N \subseteq P
    <3> HIDE DEF P
    <3> QED
      BY <1>1, <1>2, CountedUp
  <2> QED
    BY <2>1
<1>4. 0 \in Q
  OBVIOUS
<1>5. ASSUME NEW k \in 0..(N - 1), k \in Q
      PROVE  k + 1 \in Q
  <2>1. N - k \in 1..N /\ (N - k) - 1 = N - (k + 1) /\ N - (k + 1) \in 0..N /\ k + 1 \in 0..N
    OBVIOUS
  <2>2. f[N - k] = Accumulate(f[N - (k + 1)], archive[N - k], ow) /\ f[N - k].ok
    BY <1>5, <2>1 DEF IsRun
  <2>3. f[N - (k + 1)].ok
    BY <1>3, <2>1, <2>2, StepCases
  <2> QED
    BY <2>1, <2>3
<1>6. \A k \in 0..N : f[N - k].ok
  <2>1. 0..N \subseteq Q
    <3> HIDE DEF Q
    <3> QED
      BY <1>4, <1>5, CountedUp
  <2> QED
    BY <2>1
<1>7. ASSUME NEW n \in 0..N
      PROVE  f[n].ok
  <2>1. N - n \in 0..N /\ N - (N - n) = n
    OBVIOUS
  <2> QED
    BY <1>6, <2>1
<1> QED
  BY <1>3, <1>7

\* No memory is in an archive twice.
HasNoneTwice(archive) ==
  \A i, j \in 1..Len(archive) : Entry(archive, i) = Entry(archive, j) => i = j

\* Where a run is after n entries: what it knows is what it has staged over the
\* tree; the memories it has replayed are as their entries left them, the others
\* as they were; and what is staged for a memory is all it has, or it had two files.
Stands(f, tree0, archive, n) ==
  /\ IsTree(f[n].known)
  /\ f[n].known = Put(tree0, f[n].files)
  /\ \A j : (\A m \in 1..n : Entry(archive, m) # j) => Files(f[n].known, j) = Files(tree0, j)
  /\ \A m \in 1..n :
       Files(f[n].known, Entry(archive, m)) = Files(f[m].known, Entry(archive, m))
  /\ \A x \in f[n].files : /\ \E m \in 1..n : Entry(archive, m) = x.id
                            /\ \/ Files(f[n].known, x.id) = {x}
                               \/ \E g, h \in Files(tree0, x.id) : g # h
  /\ IsTree(f[n].files)

LEMMA StandsNext ==
  ASSUME NEW f, NEW tree0, IsTree(tree0), NEW archive, Len(archive) \in Nat,
         HasNoneTwice(archive), NEW ow \in BOOLEAN,
         NEW n \in 0..(Len(archive) - 1), Stands(f, tree0, archive, n),
         Settled(f[n], f[n + 1], archive[n + 1], ow)
  PROVE  Stands(f, tree0, archive, n + 1)
<1> DEFINE p == f[n]
           q == f[n + 1]
           id == Entry(archive, n + 1)
<1>1. n + 1 \in 1..Len(archive) /\ \A m \in 1..n : m \in 1..Len(archive) /\ m # n + 1 /\ m \in 1..(n + 1)
  OBVIOUS
<1>2. \A m \in 1..n : Entry(archive, m) # id
  BY <1>1 DEF HasNoneTwice
<1>3. Files(p.known, id) = Files(tree0, id)
  BY <1>2 DEF Stands
<1>4. /\ IsTree(q.known)
      /\ \A j : j # id => Files(q.known, j) = Files(p.known, j)
      /\ \/ q.files = p.files /\ q.known = p.known
         \/ \E x : /\ IsTree({x}) /\ x.id = id
                    /\ q.files = Put(p.files, {x}) /\ q.known = Put(p.known, {x})
                    /\ \/ Files(q.known, id) = {x}
                       \/ \E g, h \in Files(p.known, id) : g # h
  BY DEF Settled, Wrote, Entry
<1>5. q.known = Put(tree0, q.files) /\ IsTree(q.files)
  <2>1. CASE q.files = p.files /\ q.known = p.known
    BY <2>1 DEF Stands
  <2>2. ASSUME NEW x, IsTree({x}), q.files = Put(p.files, {x}), q.known = Put(p.known, {x})
        PROVE  q.known = Put(tree0, q.files) /\ IsTree(q.files)
    <3>1. Put(Put(tree0, p.files), {x}) = Put(tree0, Put(p.files, {x}))
      <4>1. IsTree({x})
        BY <2>2
      <4>2. \A files : Put(Put(tree0, files), {x}) = Put(tree0, Put(files, {x}))
        BY <4>1, PutOne
      <4> QED
        BY <4>2
    <3>2. p.known = Put(tree0, p.files) /\ IsTree(p.files)
      BY DEF Stands
    <3>3. IsTree(Put(p.files, {x}))
      BY <2>2, <3>2, PutOne
    <3> QED
      BY <2>2, <3>1, <3>2, <3>3
  <2> QED
    BY <1>4, <2>1, <2>2
<1>6. ASSUME NEW j, \A m \in 1..(n + 1) : Entry(archive, m) # j
      PROVE  Files(q.known, j) = Files(tree0, j)
  <2>1. j # id /\ \A m \in 1..n : Entry(archive, m) # j
    BY <1>6
  <2> QED
    BY <1>4, <2>1 DEF Stands
<1>7. ASSUME NEW m \in 1..(n + 1)
      PROVE  Files(q.known, Entry(archive, m)) = Files(f[m].known, Entry(archive, m))
  <2>1. CASE m = n + 1
    BY <2>1
  <2>2. CASE m \in 1..n
    <3>1. Files(q.known, Entry(archive, m)) = Files(p.known, Entry(archive, m))
      BY <1>2, <1>4, <2>2
    <3> QED
      BY <2>2, <3>1 DEF Stands
  <2> QED
    BY <2>1, <2>2
<1>8. ASSUME NEW y \in p.files
      PROVE  /\ \E m \in 1..(n + 1) : Entry(archive, m) = y.id
             /\ \/ Files(q.known, y.id) = {y}
                \/ \E g, h \in Files(tree0, y.id) : g # h
  <2>1. PICK m \in 1..n : Entry(archive, m) = y.id
    BY DEF Stands
  <2>2. Files(q.known, y.id) = Files(p.known, y.id)
    BY <1>2, <1>4, <2>1
  <2>3. Files(p.known, y.id) = {y} \/ \E g, h \in Files(tree0, y.id) : g # h
    BY DEF Stands
  <2> QED
    BY <1>1, <2>1, <2>2, <2>3
<1>9. ASSUME NEW y \in q.files
      PROVE  /\ \E m \in 1..(n + 1) : Entry(archive, m) = y.id
             /\ \/ Files(q.known, y.id) = {y}
                \/ \E g, h \in Files(tree0, y.id) : g # h
  <2>1. CASE y \in p.files
    BY <1>8, <2>1
  <2>2. CASE y \notin p.files
    <3>1. PICK x : /\ x.id = id
                   /\ q.files = Put(p.files, {x})
                   /\ \/ Files(q.known, id) = {x}
                      \/ \E g, h \in Files(p.known, id) : g # h
      BY <1>4, <2>2
    <3>2. y = x
      BY <2>2, <3>1 DEF Put
    <3>3. n + 1 \in 1..(n + 1)
      OBVIOUS
    <3> QED
      BY <1>3, <3>1, <3>2, <3>3
  <2> QED
    BY <2>1, <2>2
<1> QED
  BY <1>4, <1>5, <1>6, <1>7, <1>9 DEF Stands

\* A run that ends well stands, and settles what every entry is about.
LEMMA RunStands ==
  ASSUME NEW f, NEW tree0, IsTree(tree0), NEW archive, Len(archive) \in Nat,
         HasNoneTwice(archive), NEW ow \in BOOLEAN,
         IsRun(f, tree0, archive, ow), f[Len(archive)].ok
  PROVE  \A n \in 0..Len(archive) :
           /\ Stands(f, tree0, archive, n)
           /\ n > 0 => /\ Settled(f[n - 1], f[n], archive[n], ow)
                       /\ Entry(archive, n) # NoId
<1> DEFINE N == Len(archive)
           P == {n \in 0..N : Stands(f, tree0, archive, n)}
<1>1. \A n \in 0..N : IsPlan(f[n]) /\ f[n].ok
  BY RunIsOk
<1>2. ASSUME NEW n \in 0..(N - 1), Stands(f, tree0, archive, n)
      PROVE  Settled(f[n], f[n + 1], archive[n + 1], ow) /\ Entry(archive, n + 1) # NoId
  <2>1. n + 1 \in 1..N /\ (n + 1) - 1 = n /\ n \in 0..N /\ n + 1 \in 0..N
    OBVIOUS
  <2>2. f[n + 1] = Accumulate(f[n], archive[n + 1], ow)
    BY <2>1 DEF IsRun
  <2>3. IsPlan(f[n]) /\ f[n + 1].ok /\ IsTree(f[n].known)
    BY <1>1, <1>2, <2>1 DEF Stands
  <2>4. Settled(f[n], f[n + 1], archive[n + 1], ow)
    BY <2>2, <2>3, StepSettles
  <2>5. Identity(archive[n + 1]) # NoId
    BY <2>2, <2>3, StepCases
  <2> QED
    BY <2>4, <2>5 DEF Entry
<1>3. 0 \in P
  <2>1. f[0].known = tree0 /\ f[0].files = {}
    BY DEF IsRun, Start
  <2>2. Put(tree0, {}) = tree0 /\ IsTree({})
    BY DEF Put, IsTree
  <2>3. Stands(f, tree0, archive, 0)
    BY <2>1, <2>2 DEF Stands
  <2> QED
    BY <2>3
<1>4. ASSUME NEW n \in 0..(N - 1), n \in P
      PROVE  n + 1 \in P
  <2>1. Stands(f, tree0, archive, n + 1)
    BY <1>2, <1>4, StandsNext
  <2> QED
    BY <2>1
<1>5. 0..N \subseteq P
  <2> HIDE DEF P
  <2> QED
    BY <1>3, <1>4, CountedUp
<1>6. ASSUME NEW n \in 0..N, n > 0
      PROVE  Settled(f[n - 1], f[n], archive[n], ow) /\ Entry(archive, n) # NoId
  <2>1. n - 1 \in 0..(N - 1) /\ (n - 1) + 1 = n /\ n - 1 \in 0..N
    BY <1>6
  <2>2. Stands(f, tree0, archive, n - 1)
    BY <1>5, <2>1
  <2> QED
    BY <1>2, <2>1, <2>2
<1> QED
  BY <1>5, <1>6

\* A second run over what the first has left stages nothing and reports the same.
LEMMA RunRepeats ==
  ASSUME NEW f, NEW tree0, IsTree(tree0), NEW archive, Len(archive) \in Nat,
         HasNoneTwice(archive), NEW ow \in BOOLEAN,
         IsRun(f, tree0, archive, ow), f[Len(archive)].ok,
         NEW h, IsRun(h, f[Len(archive)].known, archive, ow)
  PROVE  LET r == h[Len(archive)] IN
         r.ok /\ r.files = {} /\ r.conflicts = f[Len(archive)].conflicts
<1> DEFINE N == Len(archive)
           tree1 == f[N].known
           Same(n) == /\ IsPlan(h[n]) /\ h[n].ok /\ h[n].known = tree1
                      /\ h[n].files = {} /\ h[n].conflicts = f[n].conflicts
           P == {n \in 0..N : Same(n)}
<1>1. 0 \in P
  <2>1. h[0] = Start(tree1) /\ f[0] = Start(tree0)
    BY DEF IsRun
  <2>2. Same(0)
    BY <2>1, StartIsPlan
  <2> QED
    BY <2>2
<1>2. ASSUME NEW n \in 0..(N - 1), n \in P
      PROVE  n + 1 \in P
  <2> DEFINE e == archive[n + 1]
  <2>1. n + 1 \in 1..N /\ (n + 1) - 1 = n /\ n + 1 > 0 /\ n + 1 \in 0..N /\ N \in 0..N
    OBVIOUS
  <2>2. Settled(f[n], f[n + 1], e, ow) /\ Identity(e) # NoId
    BY <2>1, RunStands DEF Entry
  <2>3. Stands(f, tree0, archive, N)
    BY <2>1, RunStands
  <2>4. Files(h[n].known, Identity(e)) = Files(f[n + 1].known, Identity(e))
    BY <1>2, <2>1, <2>3 DEF Stands, Entry
  <2>5. h[n + 1] = Accumulate(h[n], e, ow)
    BY <2>1 DEF IsRun
  <2>6. Same(n)
    BY <1>2
  <2>7. Same(n + 1)
    BY <2>2, <2>4, <2>5, <2>6, RepeatedStep
  <2> QED
    BY <2>1, <2>7
<1>3. 0..N \subseteq P
  <2> HIDE DEF P
  <2> QED
    BY <1>1, <1>2, CountedUp
<1>4. N \in P
  BY <1>3
<1> QED
  BY <1>4

\* Whatever the tree holds, and whatever of the archive: a replay settles.
LEMMA Settling ==
  ASSUME NEW tree0, IsTree(tree0), NEW archive, Len(archive) \in Nat,
         HasNoneTwice(archive), NEW ow \in BOOLEAN
  PROVE  Settles(tree0, archive, ow)
<1> DEFINE N == Len(archive)
           p == Plan(tree0, archive, ow)
           after == Put(tree0, p.files)
<1>1. PICK f : IsRun(f, tree0, archive, ow) /\ p = f[N]
  BY PlanIsARun
<1>2. SUFFICES ASSUME p.ok
               PROVE  /\ Plan(after, archive, ow).ok /\ Plan(after, archive, ow).files = {}
                      /\ Plan(after, archive, ow).conflicts = p.conflicts
                      /\ \A x \in p.files : \/ Files(after, x.id) = {x}
                                             \/ \E g, h \in Files(tree0, x.id) : g # h
  BY DEF Settles
<1>3. N \in 0..N
  OBVIOUS
<1>4. Stands(f, tree0, archive, N)
  BY <1>1, <1>2, <1>3, RunStands
<1>5. after = f[N].known
  BY <1>1, <1>4 DEF Stands
<1>6. PICK h : IsRun(h, after, archive, ow) /\ Plan(after, archive, ow) = h[N]
  BY PlanIsARun
<1>7. h[N].ok /\ h[N].files = {} /\ h[N].conflicts = f[N].conflicts
  <2> HIDE DEF after
  <2> QED
    BY <1>1, <1>2, <1>5, <1>6, RunRepeats
<1>8. \A x \in p.files : Files(after, x.id) = {x} \/ \E g, k \in Files(tree0, x.id) : g # k
  BY <1>1, <1>4, <1>5 DEF Stands
<1> HIDE DEF p, after
<1> QED
  BY <1>1, <1>6, <1>7, <1>8

\* What a replay stages lies at one path each; what failed stages nothing.
LEMMA StagedIsTree ==
  ASSUME NEW tree0, IsTree(tree0), NEW archive, Len(archive) \in Nat,
         HasNoneTwice(archive), NEW ow \in BOOLEAN
  PROVE  IsPlan(Plan(tree0, archive, ow)) /\ IsTree(Plan(tree0, archive, ow).files)
<1> DEFINE N == Len(archive)
<1>1. PICK f : IsRun(f, tree0, archive, ow) /\ Plan(tree0, archive, ow) = f[N]
  BY PlanIsARun
<1>2. N \in 0..N
  OBVIOUS
<1> DEFINE P == {n \in 0..N : IsPlan(f[n]) /\ (f[n].ok \/ f[n].files = {})}
<1>3. 0 \in P
  <2>1. f[0] = Start(tree0)
    BY <1>1 DEF IsRun
  <2>2. IsPlan(f[0]) /\ f[0].ok
    BY <2>1, StartIsPlan
  <2> QED
    BY <2>2
<1>4. ASSUME NEW n \in 0..(N - 1), n \in P
      PROVE  n + 1 \in P
  <2>1. n + 1 \in 1..N /\ (n + 1) - 1 = n
    OBVIOUS
  <2>2. f[n + 1] = Accumulate(f[n], archive[n + 1], ow)
    BY <1>1, <2>1 DEF IsRun
  <2>3. IsPlan(f[n])
    BY <1>4
  <2>4. IsPlan(f[n + 1])
    BY <2>2, <2>3, StepsArePlans
  <2>5. f[n + 1].ok \/ f[n + 1].files = {}
    BY <2>2, <2>3, FailedStep
  <2> QED
    BY <2>1, <2>4, <2>5
<1>5. 0..N \subseteq P
  <2> HIDE DEF P
  <2> QED
    BY <1>3, <1>4, CountedUp
<1>6. IsPlan(f[N]) /\ (f[N].ok \/ f[N].files = {})
  BY <1>2, <1>5
<1>7. CASE f[N].ok
  <2>1. Stands(f, tree0, archive, N)
    BY <1>1, <1>2, <1>7, RunStands
  <2> QED
    BY <1>1, <1>6, <2>1 DEF Stands
<1>8. CASE f[N].files = {}
  BY <1>1, <1>6, <1>8 DEF IsTree
<1> QED
  BY <1>6, <1>7, <1>8

-----------------------------------------------------------------------------
(* Every main of the cache's runs.                                         *)

\* What the operations keep: one file at a path, in every main, also in those
\* that the tasks build on, and in all that they put.
TreeInv ==
  /\ tree = [g \in Groups |-> tree[g]]
  /\ \A g \in Groups : IsTree(tree[g])
  /\ \A t \in Workers : IsWork(work[t])
  /\ edit = [t \in Workers |-> edit[t]] /\ base = [t \in Workers |-> base[t]]
  /\ \A t \in Workers : IsTree(edit[t].put) /\ (work[t].group \in Groups => IsTree(base[t].files))

LEMMA PutIsTree ==
  ASSUME NEW files, IsTree(files), NEW new, IsTree(new)
  PROVE  IsTree(Put(files, new))
BY DEF IsTree, Put

LEMMA FewerIsTree ==
  ASSUME NEW files, IsTree(files), NEW few, few \subseteq files
  PROVE  IsTree(few)
BY DEF IsTree

LEMMA EditedIsTree ==
  ASSUME NEW files, IsTree(files), NEW e, IsTree(e.put)
  PROVE  IsTree(Edited(files, e))
<1>1. IsTree({f \in files : Path(f) \notin e.drop})
  BY FewerIsTree
<1> QED
  BY <1>1, PutIsTree DEF Edited

LEMMA ArchiveParts ==
  ASSUME NEW w, IsWork(w), w.op = "import"
  PROVE  Len(w.archive) \in Nat /\ HasNoneTwice(w.archive)
<1>1. /\ w.archive \in Seq({w.archive[i] : i \in DOMAIN w.archive})
      /\ \A i, j \in DOMAIN w.archive : Identity(w.archive[i]) = Identity(w.archive[j]) => i = j
  BY DEF IsWork
<1>2. Len(w.archive) \in Nat /\ DOMAIN w.archive = 1..Len(w.archive)
  BY <1>1
<1> QED
  BY <1>1, <1>2 DEF HasNoneTwice, Entry

LEMMA TreeStart == CacheInit => TreeInv
<1> SUFFICES ASSUME CacheInit PROVE TreeInv
  OBVIOUS
<1>1. PICK s \in CacheScenarios : tree = s.tree /\ work = s.work
  BY DEF CacheInit
<1>2. /\ s.tree = [g \in Groups |-> s.tree[g]]
      /\ \A g \in Groups : IsTree(s.tree[g])
      /\ \A t \in Workers : IsWork(s.work[t])
  BY CacheAssumption
<1>3. edit = [t \in Workers |-> NoEdit] /\ base = [t \in Workers |-> NoBase]
  BY DEF CacheInit
<1>4. IsTree(NoEdit.put) /\ IsTree(NoBase.files)
  BY DEF NoEdit, NoBase, IsTree
<1> QED
  BY <1>1, <1>2, <1>3, <1>4 DEF TreeInv

\* A move puts one file.
Leaving(files, path, slug) == {f \in files : Path(f) = path /\ f.slug # slug}
Arriving(files, path, slug, leaf) == {File(slug, leaf, f.id, f.text) : f \in Leaving(files, path, slug)}
LEMMA MovedIsTree ==
  ASSUME NEW files, IsTree(files), NEW path, NEW slug, NEW leaf
  PROVE  IsTree(Arriving(files, path, slug, leaf))
<1>1. \A f, e \in Leaving(files, path, slug) : f = e
  BY DEF IsTree, Leaving
<1>2. \A f, e \in Arriving(files, path, slug, leaf) : f = e
  BY <1>1 DEF Arriving
<1>3. \A n \in Arriving(files, path, slug, leaf) : n = File(n.slug, n.stem, n.id, n.text)
  BY DEF File, Arriving
<1> QED
  BY <1>2, <1>3 DEF IsTree

LEMMA TreeStep == TreeInv /\ [CacheNext]_cacheVars => TreeInv'
<1> SUFFICES ASSUME TreeInv, [CacheNext]_cacheVars PROVE TreeInv'
  OBVIOUS
<1>1. IsTree(NoEdit.put) /\ IsTree(NoBase.files)
  BY DEF NoEdit, NoBase, IsTree
\* A step that puts a tree into what it is about to do, or nothing.
<1>2. ASSUME NEW t \in Workers, NEW e, IsTree(e.put), edit' = edit \/ edit' = [edit EXCEPT ![t] = e]
      PROVE  edit' = [u \in Workers |-> edit'[u]] /\ \A u \in Workers : IsTree(edit'[u].put)
  BY <1>2 DEF TreeInv
<1>3. ASSUME NEW t \in Workers, LooksUp(t)
      PROVE  /\ base' = [u \in Workers |-> base'[u]]
             /\ \A u \in Workers : work[u].group \in Groups => IsTree(base'[u].files)
  BY <1>3 DEF TreeInv, LooksUp
<1>4. ASSUME tree' = tree, work' = work,
             edit' = [u \in Workers |-> edit'[u]] /\ \A u \in Workers : IsTree(edit'[u].put),
             \/ base' = base
             \/ /\ base' = [u \in Workers |-> base'[u]]
                /\ \A u \in Workers : work[u].group \in Groups => IsTree(base'[u].files)
      PROVE  TreeInv'
  BY <1>4 DEF TreeInv
<1>5. ASSUME NEW t \in Workers, work[t].op # "none" PROVE work[t].group \in Groups
  BY <1>5 DEF TreeInv, IsWork
<1>6. CASE UNCHANGED cacheVars
  BY <1>6 DEF TreeInv, cacheVars
<1>7. CASE Crash
  BY <1>1, <1>7 DEF TreeInv, Crash
<1>8. ASSUME NEW t \in Workers, WriteFile(t)
      PROVE  TreeInv'
  <2> DEFINE e == [NoEdit EXCEPT !.put = {work[t].file}]
  <2>1. IsTree({work[t].file})
    BY <1>8 DEF TreeInv, IsWork, WriteFile
  <2>2. e.put = {work[t].file}
    BY DEF NoEdit
  <2>3. edit' = [edit EXCEPT ![t] = e] /\ LooksUp(t) /\ tree' = tree /\ work' = work
    BY <1>8 DEF WriteFile
  <2> HIDE DEF e
  <2> QED
    BY <1>2, <1>3, <1>4, <2>1, <2>2, <2>3
<1>9. ASSUME NEW t \in Workers, DeleteFile(t)
      PROVE  TreeInv'
  <2> DEFINE e == [NoEdit EXCEPT !.drop = {Path(work[t].file)}]
  <2>1. e.put = NoEdit.put
    BY DEF NoEdit
  <2>2. edit' = [edit EXCEPT ![t] = e] /\ LooksUp(t) /\ tree' = tree /\ work' = work
    BY <1>9 DEF DeleteFile
  <2> HIDE DEF e
  <2> QED
    BY <1>1, <1>2, <1>3, <1>4, <2>1, <2>2
<1>10. ASSUME NEW t \in Workers, MoveFile(t)
       PROVE  TreeInv'
  <2> DEFINE g == work[t].group
             to == Arriving(tree[g], Path(work[t].file), work[t].slug, work[t].leaf)
             e == [put |-> to, drop |-> {Path(work[t].file)}]
  <2>1. IsTree(to)
    <3>1. IsTree(tree[g])
      BY <1>5, <1>10 DEF MoveFile, TreeInv
    <3> QED
      BY <3>1, MovedIsTree
  <2>2. /\ edit' = edit \/ edit' = [edit EXCEPT ![t] = e]
        /\ tree' = tree /\ work' = work /\ base' = base
    BY <1>10 DEF MoveFile, Leaving, Arriving
  <2>3. e.put = to
    OBVIOUS
  <2> HIDE DEF to, e
  <2> QED
    BY <1>2, <1>4, <2>1, <2>2, <2>3
<1>11. ASSUME NEW t \in Workers, PlanImport(t)
       PROVE  TreeInv'
  <2> DEFINE g == work[t].group
             a == work[t].archive
             p == Plan(tree[g], a, work[t].overwrite)
             e == [NoEdit EXCEPT !.put = p.files]
  <2>1. g \in Groups /\ IsTree(tree[g]) /\ Len(a) \in Nat /\ HasNoneTwice(a)
        /\ work[t].overwrite \in BOOLEAN
    BY <1>11, ArchiveParts DEF TreeInv, IsWork, PlanImport
  <2>2. IsTree(p.files)
    BY <2>1, StagedIsTree
  <2>3. e.put = p.files
    BY DEF NoEdit
  <2>4. (edit' = edit \/ edit' = [edit EXCEPT ![t] = e]) /\ tree' = tree /\ work' = work /\ base' = base
    BY <1>11 DEF PlanImport
  <2> HIDE DEF e, p
  <2> QED
    BY <1>2, <1>4, <2>2, <2>3, <2>4
<1>12. ASSUME NEW t \in Workers, PullMain(t)
       PROVE  TreeInv'
  <2> DEFINE e == [put |-> work[t].files, drop |-> {Path(f) : f \in work[t].gone}]
  <2>1. IsTree(e.put)
    BY <1>12 DEF TreeInv, IsWork, PullMain
  <2>2. edit' = [edit EXCEPT ![t] = e] /\ LooksUp(t) /\ tree' = tree /\ work' = work
    BY <1>12 DEF PullMain
  <2> HIDE DEF e
  <2> QED
    BY <1>2, <1>3, <1>4, <2>1, <2>2
<1>13. ASSUME NEW t \in Workers, FindParent(t)
       PROVE  TreeInv'
  <2>1. LooksUp(t) /\ tree' = tree /\ work' = work /\ edit' = edit
    BY <1>13 DEF FindParent
  <2>2. edit' = [u \in Workers |-> edit'[u]] /\ \A u \in Workers : IsTree(edit'[u].put)
    BY <2>1 DEF TreeInv
  <2> QED
    BY <1>3, <1>4, <2>1, <2>2
<1>14. ASSUME NEW t \in Workers, Land(t)
       PROVE  TreeInv'
  <2> DEFINE g == work[t].group
             now == Edited(base[t].files, edit[t])
  <2>1. g \in Groups => IsTree(now)
    BY EditedIsTree DEF TreeInv
  <2>2. /\ tree' = [tree EXCEPT ![g] = now] /\ work' = work /\ edit' = [edit EXCEPT ![t] = NoEdit]
        /\ base' = [u \in Workers |->
                      IF u = t THEN NoBase
                      ELSE IF at[u] = "based" /\ work[u].group = g THEN [base[u] EXCEPT !.stale = TRUE]
                      ELSE base[u]]
    BY <1>14 DEF Land
  <2>3. \A x : [x EXCEPT !.stale = TRUE].files = x.files
    OBVIOUS
  <2>4. base' = [u \in Workers |-> base'[u]] /\ \A u \in Workers : work[u].group \in Groups => IsTree(base'[u].files)
    BY <1>1, <2>2, <2>3 DEF TreeInv
  <2>5. edit' = [u \in Workers |-> edit'[u]] /\ \A u \in Workers : IsTree(edit'[u].put)
    BY <1>1, <1>2, <2>2
  <2>6. tree' = [h \in Groups |-> tree'[h]] /\ \A h \in Groups : IsTree(tree'[h])
    <3> HIDE DEF now
    <3> QED
      BY <2>1, <2>2 DEF TreeInv
  <2> QED
    BY <2>2, <2>4, <2>5, <2>6 DEF TreeInv
<1>15. ASSUME NEW t \in Workers, LosesRace(t)
       PROVE  TreeInv'
  BY <1>1, <1>15 DEF LosesRace, TreeInv
<1>16. ASSUME NEW t \in Workers,
              \/ Tell(t) \/ TellFails(t) \/ NotifyPull(t) \/ EnsureBuilt(t) \/ Begin(t) \/ ListGroup(t)
              \/ ReadGroup(t) \/ CommitScan(t) \/ RebuildFails(t)
       PROVE  TreeInv'
  <2>1. tree' = tree /\ work' = work /\ edit' = edit /\ base' = base
    BY <1>16 DEF Tell, TellFails, NotifyPull, EnsureBuilt, Begin, ListGroup, ReadGroup, CommitScan, RebuildFails
  <2> QED
    BY <2>1 DEF TreeInv
<1> QED
  BY <1>6, <1>7, <1>8, <1>9, <1>10, <1>11, <1>12, <1>13, <1>14, <1>15, <1>16 DEF CacheNext

\* On every main that can come about under the operations, the imports, the
\* pulls and the crashes, the replay of an archive settles: repeated at once, it
\* commits nothing and reports the conflicts it did (archive/import.rs).
THEOREM ImportsSettle == CacheSpec => []ImportSettles
<1>1. ASSUME TreeInv PROVE ImportSettles
  <2> SUFFICES ASSUME NEW t \in Workers, work[t].op = "import",
                      NEW g \in Groups, NEW ow \in BOOLEAN
               PROVE  Settles(tree[g], work[t].archive, ow)
    BY DEF ImportSettles
  <2>1. IsTree(tree[g]) /\ Len(work[t].archive) \in Nat /\ HasNoneTwice(work[t].archive)
    BY <1>1, ArchiveParts DEF TreeInv, IsWork
  <2> QED
    BY <2>1, Settling
<1> QED
  BY <1>1, TreeStart, TreeStep, PTL DEF CacheSpec

-----------------------------------------------------------------------------
(* Bodies: the sections of one, and what the edits leave.                  *)

LEMMA ListsAreSequences ==
  ASSUME NEW s
  PROVE  /\ IsList(s) => s \in Seq({s[k] : k \in 1..Len(s)}) /\ DOMAIN s = 1..Len(s)
         /\ \A T : s \in Seq(T) => IsList(s) /\ \A k \in DOMAIN s : s[k] \in T
<1>1. ASSUME IsList(s)
      PROVE  s \in Seq({s[k] : k \in 1..Len(s)}) /\ DOMAIN s = 1..Len(s)
  <2>1. s \in [1..Len(s) -> {s[k] : k \in 1..Len(s)}]
    BY <1>1 DEF IsList
  <2> QED
    BY <1>1, <2>1, SeqDef DEF IsList
<1>2. ASSUME NEW T, s \in Seq(T)
      PROVE  IsList(s) /\ \A k \in DOMAIN s : s[k] \in T
  BY <1>2 DEF IsList
<1> QED
  BY <1>1, <1>2

LEMMA BodyParts ==
  ASSUME NEW b, IsBody(b)
  PROVE  /\ Len(b) \in Nat /\ DOMAIN b = 1..Len(b)
         /\ Headed(b) \subseteq 1..Len(b) /\ Outline(b) \subseteq Headed(b)
         /\ \A i \in 1..Len(b) : b[i].level \in Nat /\ IsList(b[i].name) /\ IsLine(b[i])
<1>1. Len(b) \in Nat /\ DOMAIN b = 1..Len(b)
  BY ListsAreSequences DEF IsBody, IsList
<1> QED
  BY <1>1 DEF IsBody, Headed, Outline, IsLine

LEMMA PiecesAreBodies ==
  ASSUME NEW b, IsBody(b)
  PROVE  /\ \A m \in 1..(Len(b) + 1), n \in 0..Len(b) : IsBody(SubSeq(b, m, n))
         /\ \A l : IsLine(l) => IsBody(Append(b, l))
         /\ \A c : IsBody(c) => IsBody(b \o c)
<1> DEFINE B(s) == {s[k] : k \in 1..Len(s)}
<1>1. \A s : IsBody(s) => s \in Seq(B(s)) /\ \A l \in B(s) : IsLine(l)
  BY ListsAreSequences DEF IsBody
<1>2. \A s, T : s \in Seq(T) /\ (\A l \in T : IsLine(l)) => IsBody(s)
  BY ListsAreSequences DEF IsBody
<1> HIDE DEF B
<1>3. ASSUME NEW m \in 1..(Len(b) + 1), NEW n \in 0..Len(b)
      PROVE  IsBody(SubSeq(b, m, n))
  <2>1. b \in Seq(B(b)) /\ Len(b) \in Nat
    BY <1>1
  <2>2. SubSeq(b, m, n) \in Seq(B(b))
    BY <2>1
  <2> QED
    BY <1>1, <1>2, <2>2
<1>4. ASSUME NEW l, IsLine(l)
      PROVE  IsBody(Append(b, l))
  <2>1. b \in Seq(B(b) \union {l}) /\ l \in B(b) \union {l}
    BY <1>1
  <2>2. Append(b, l) \in Seq(B(b) \union {l})
    BY <2>1
  <2> QED
    BY <1>1, <1>2, <1>4, <2>2
<1>5. ASSUME NEW c, IsBody(c)
      PROVE  IsBody(b \o c)
  <2>1. b \in Seq(B(b) \union B(c)) /\ c \in Seq(B(b) \union B(c))
    BY <1>1, <1>5
  <2>2. b \o c \in Seq(B(b) \union B(c))
    BY <2>1
  <2> QED
    BY <1>1, <1>2, <1>5, <2>2
<1> QED
  BY <1>3, <1>4, <1>5

\* The lines of a section are lines of the body.
Ends(b, i) ==
  {j \in Headed(b) : j > i /\ (i \in Outline(b) => j \in Outline(b) /\ b[j].level <= b[i].level)}
LEMMA SectionBounds ==
  ASSUME NEW b, IsBody(b), NEW i \in {0} \union Headed(b)
  PROVE  /\ From(i) \in 1..(Len(b) + 1) /\ i \in 0..Len(b)
         /\ To(b, i) \in 1..(Len(b) + 1) /\ i < To(b, i)
<1> DEFINE S == {Len(b) + 1} \union Ends(b, i)
<1>1. Len(b) \in Nat /\ Headed(b) \subseteq 1..Len(b) /\ i \in 0..Len(b)
  BY BodyParts
<1>2. S \subseteq 1..(Len(b) + 1) /\ S # {} /\ \A j \in S : j > i
  BY <1>1 DEF Ends
<1>3. Min(S) \in S
  <2>1. S \subseteq Nat
    BY <1>2
  <2> HIDE DEF S
  <2> QED
    BY <1>2, <2>1, MinIsLeast
<1>4. To(b, i) = Min(S)
  BY DEF To, Ends
<1> HIDE DEF S
<1>5. To(b, i) \in 1..(Len(b) + 1) /\ To(b, i) > i
  BY <1>2, <1>3, <1>4
<1>6. From(i) \in 1..(Len(b) + 1)
  BY <1>1 DEF From
<1>7. i < To(b, i)
  BY <1>1, <1>5
<1> QED
  BY <1>1, <1>5, <1>6, <1>7

LEMMA FirstIsThere ==
  ASSUME NEW b, IsBody(b), NEW path, At(b, path) # {}
  PROVE  First(b, path) \in At(b, path) /\ First(b, path) \in {0} \union Headed(b)
<1>1. At(b, path) \subseteq {0} \union Headed(b)
  BY DEF At
<1>2. At(b, path) \subseteq Nat
  BY <1>1, BodyParts
<1>3. First(b, path) \in At(b, path)
  BY <1>2, MinIsLeast DEF First
<1> QED
  BY <1>1, <1>3

\* An edit joins pieces of the body and lines that were sent.
LEMMA SplicesAreBodies ==
  ASSUME NEW b, IsBody(b), NEW from \in 1..(Len(b) + 1), NEW to \in 1..(Len(b) + 1),
         NEW fragment, IsBody(fragment)
  PROVE  IsBody(Splice(b, from, to, fragment))
<1>1. IsLine(Blank) /\ Blank.kind = "blank"
  BY DEF IsLine, Blank, IsList
<1>2. ASSUME NEW left, IsBody(left), NEW apart
      PROVE  IsBody(Seam(left, apart))
  BY <1>1, <1>2, PiecesAreBodies DEF Seam
<1>3. ASSUME NEW left, NEW right, IsBody(left), IsBody(right)
      PROVE  IsBody(Join(left, right))
  <2>1. \A apart : IsBody(Seam(left, apart) \o right)
    BY <1>2, <1>3, PiecesAreBodies
  <2> QED
    BY <1>3, <2>1 DEF Join
<1>4. IsBody(SubSeq(b, 1, from - 1)) /\ IsBody(SubSeq(b, to, Len(b)))
  <2>1. Len(b) \in Nat /\ 1 \in 1..(Len(b) + 1) /\ from - 1 \in 0..Len(b) /\ Len(b) \in 0..Len(b)
    BY BodyParts
  <2> QED
    BY <2>1, PiecesAreBodies
<1> QED
  BY <1>3, <1>4 DEF Splice

LEMMA NewSectionsAreBodies ==
  ASSUME NEW o, IsOp(o), o.op \in {"upsert", "insert"}, LevelOk(o)
  PROVE  IsBody(NewSection(o))
<1>1. IsLine(Blank)
  BY DEF IsLine, Blank, IsList
<1>2. IsLine(Heading(o.level, o.name))
  BY DEF IsLine, Heading, IsOp, LevelOk
<1>3. IsBody(<<>>)
  BY DEF IsBody, IsList
<1>4. \A l : IsLine(l) => IsBody(<<l>>)
  <2>1. \A l : Append(<<>>, l) = <<l>>
    OBVIOUS
  <2> QED
    BY <1>3, <2>1, PiecesAreBodies
<1>5. IsBody(o.text)
  BY DEF IsOp
<1>6. IsBody(<<Blank>> \o o.text)
  BY <1>1, <1>4, <1>5, PiecesAreBodies
<1> QED
  BY <1>2, <1>3, <1>4, <1>6, PiecesAreBodies DEF NewSection

\* What is left of a body without one of its sections.
LEMMA RestIsABody ==
  ASSUME NEW b, IsBody(b), NEW i \in {0} \union Headed(b)
  PROVE  IsBody(Without(b, i)) /\ IsBody(Lines(b, i))
<1>1. From(i) \in 1..(Len(b) + 1) /\ To(b, i) \in 1..(Len(b) + 1) /\ Len(b) \in Nat
  BY SectionBounds, BodyParts
<1>2. IsBody(<<>>)
  BY DEF IsBody, IsList
<1>3. IsBody(Splice(b, From(i), To(b, i), <<>>))
  BY <1>1, <1>2, SplicesAreBodies
<1>4. ASSUME NEW c, IsBody(c)
      PROVE  IsBody(DropOneBlank(c))
  <2>1. CASE c # <<>>
    <3>1. Len(c) \in Nat /\ Len(c) # 0
      BY <1>4, <2>1, ListsAreSequences DEF IsBody
    <3>2. 1 \in 1..(Len(c) + 1) /\ Len(c) - 1 \in 0..Len(c)
      BY <3>1
    <3> QED
      BY <1>4, <3>2, PiecesAreBodies DEF DropOneBlank, Front
  <2> QED
    BY <1>4, <2>1 DEF DropOneBlank
<1>5. IsBody(Lines(b, i))
  <2>1. To(b, i) - 1 \in 0..Len(b)
    BY <1>1
  <2> QED
    BY <1>1, <2>1, PiecesAreBodies DEF Lines
<1> QED
  BY <1>3, <1>4, <1>5 DEF Without

LEMMA EditsAreBodies ==
  ASSUME NEW b, IsBody(b), NEW o, IsOp(o)
  PROVE  IsBody(ApplyOne(b, o).body)
<1>1. Done(b).body = b /\ Refused(b).body = b /\ \A c : Done(c).body = c
  BY DEF Done, Refused
<1>2. Len(b) \in Nat /\ Len(b) + 1 \in 1..(Len(b) + 1)
  BY BodyParts
<1>3. IsBody(<<>>)
  BY DEF IsBody, IsList
<1>4. \A path : At(b, path) # {} => First(b, path) \in {0} \union Headed(b)
  BY FirstIsThere
<1>5. CASE o.op = "upsert"
  <2> DEFINE found == At(b, o.path) # {}
             from == IF found THEN From(First(b, o.path)) ELSE Len(b) + 1
             to == IF found THEN To(b, First(b, o.path)) ELSE Len(b) + 1
  <2>1. from \in 1..(Len(b) + 1) /\ to \in 1..(Len(b) + 1)
    BY <1>2, <1>4, SectionBounds
  <2>2. LevelOk(o) => IsBody(Splice(b, from, to, NewSection(o)))
    <3> HIDE DEF from, to
    <3> QED
      BY <1>5, <2>1, NewSectionsAreBodies, SplicesAreBodies
  <2>3. ApplyOne(b, o) = Upsert(b, o)
    BY <1>5 DEF ApplyOne
  <2>4. \/ Upsert(b, o) = Refused(b)
        \/ LevelOk(o) /\ Upsert(b, o) = Done(Splice(b, from, to, NewSection(o)))
    BY DEF Upsert
  <2> QED
    BY <1>1, <2>2, <2>3, <2>4
<1>6. CASE o.op = "delete"
  <2>1. ApplyOne(b, o) = Delete(b, o)
    BY <1>6 DEF ApplyOne
  <2>2. ASSUME At(b, o.path) # {}
        PROVE  IsBody(Splice(b, From(First(b, o.path)), To(b, First(b, o.path)), <<>>))
    BY <1>3, <1>4, <2>2, SectionBounds, SplicesAreBodies
  <2> QED
    BY <1>1, <2>1, <2>2 DEF Delete
<1>7. ASSUME NEW c, IsBody(c), NEW path, At(c, path) # {}, NEW before
      PROVE  Beside(c, First(c, path), before) \in 1..(Len(c) + 1)
  <2>1. First(c, path) \in {0} \union Headed(c)
    BY <1>7, FirstIsThere
  <2> QED
    BY <1>7, <2>1, SectionBounds DEF Beside
<1>8. CASE o.op = "insert"
  <2>1. ApplyOne(b, o) = Insert(b, o)
    BY <1>8 DEF ApplyOne
  <2>2. ASSUME LevelOk(o), At(b, o.path) # {}
        PROVE  IsBody(Splice(b, Beside(b, First(b, o.path), o.before), Beside(b, First(b, o.path), o.before), NewSection(o)))
    BY <1>7, <1>8, <2>2, NewSectionsAreBodies, SplicesAreBodies
  <2> QED
    BY <1>1, <2>1, <2>2 DEF Insert
<1>9. CASE o.op = "move"
  <2> DEFINE target == First(b, o.path)
             rest == Without(b, target)
             place == Beside(rest, First(rest, o.anchor), o.before)
  <2>1. ApplyOne(b, o) = Move(b, o)
    BY <1>9 DEF ApplyOne
  <2>2. Move(b, o) = IF ~Movable(b, o) THEN Refused(b) ELSE Done(Splice(rest, place, place, Lines(b, target)))
    BY DEF Move
  <2>3. ASSUME Movable(b, o)
        PROVE  IsBody(Splice(rest, place, place, Lines(b, target)))
    <3>1. At(b, o.path) # {} /\ At(rest, o.anchor) # {}
      BY <2>3 DEF Movable
    <3>2. IsBody(rest) /\ IsBody(Lines(b, target))
      BY <1>4, <3>1, RestIsABody
    <3> HIDE DEF rest, target
    <3>3. place \in 1..(Len(rest) + 1)
      BY <1>7, <3>1, <3>2
    <3> HIDE DEF place
    <3> QED
      BY <3>2, <3>3, SplicesAreBodies
  <2> QED
    BY <1>1, <2>1, <2>2, <2>3
<1>10. CASE o.op = "replace"
  <2> DEFINE i == First(b, o.path)
  <2>1. ApplyOne(b, o) = ReplaceText(b, o) /\ IsBody(o.text)
    BY <1>10 DEF ApplyOne, IsOp
  <2>2. ASSUME At(b, o.path) # {}
        PROVE  IsBody(Splice(b, OwnText(b, i).from, OwnText(b, i).to, o.text))
    <3>1. i \in 0..Len(b) /\ To(b, i) \in 1..(Len(b) + 1)
      BY <1>4, <2>2, SectionBounds
    <3>2. OwnText(b, i).from \in 1..(Len(b) + 1)
      BY <1>2, <3>1 DEF OwnText
    <3> DEFINE S == {To(b, i)} \union {j \in Outline(b) : i < j /\ j < To(b, i)}
    <3>3. S \subseteq 1..(Len(b) + 1) /\ S # {}
      BY <1>2, <3>1, BodyParts
    <3>4. Min(S) \in S
      <4>1. S \subseteq Nat
        BY <3>3
      <4> HIDE DEF S
      <4> QED
        BY <3>3, <4>1, MinIsLeast
    <3>5. OwnText(b, i).to = Min(S)
      BY DEF OwnText
    <3>6. OwnText(b, i).to \in 1..(Len(b) + 1)
      <4> HIDE DEF S
      <4> QED
        BY <3>3, <3>4, <3>5
    <3> QED
      BY <2>1, <3>2, <3>6, SplicesAreBodies
  <2> QED
    BY <1>1, <2>1, <2>2 DEF ReplaceText
<1>11. CASE o.op = "lines"
  <2>1. ApplyOne(b, o) = ReplaceLines(b, o) /\ IsBody(o.text) /\ o.start \in Nat /\ o.end \in Nat
    BY <1>11 DEF ApplyOne, IsOp
  <2>2. ASSUME o.start <= o.end /\ o.end <= Len(b)
        PROVE  IsBody(Splice(b, o.start + 1, o.end + 1, o.text))
    <3>1. o.start + 1 \in 1..(Len(b) + 1) /\ o.end + 1 \in 1..(Len(b) + 1)
      BY <1>2, <2>1, <2>2
    <3> QED
      BY <2>1, <3>1, SplicesAreBodies
  <2> QED
    BY <1>1, <2>1, <2>2 DEF ReplaceLines
<1> QED
  BY <1>5, <1>6, <1>8, <1>9, <1>10, <1>11 DEF IsOp

-----------------------------------------------------------------------------
(* The paths of a body's sections.                                         *)

\* The parser's stack: a section's parent is a heading of the outline before it.
Open(b, i) == {j \in Outline(b) : j < i /\ (i \in Outline(b) => b[j].level < b[i].level)}
LEMMA ParentIsBefore ==
  ASSUME NEW b, IsBody(b), NEW i \in Headed(b)
  PROVE  /\ Parent(b, i) \in {0} \union Open(b, i) /\ \A j \in Open(b, i) : j <= Parent(b, i)
         /\ Parent(b, i) < i /\ Parent(b, i) \in 0..Len(b)
         /\ Parent(b, i) \in {0} \union Outline(b) /\ Parent(b, i) \in {0} \union Headed(b)
<1> DEFINE S == {0} \union Open(b, i)
<1>1. Len(b) \in Nat /\ Headed(b) \subseteq 1..Len(b) /\ Outline(b) \subseteq Headed(b)
  BY BodyParts
<1>2. S \subseteq 0..Len(b) /\ S # {} /\ \A j \in S : j < i
  BY <1>1 DEF Open
<1>3. Parent(b, i) = Max(S)
  BY DEF Parent, Open
<1>4. Max(S) \in S /\ \A j \in S : j <= Max(S)
  <2> HIDE DEF S
  <2> QED
    BY <1>1, <1>2, MaxIsGreatest
<1> HIDE DEF S
<1>5. Parent(b, i) \in S /\ \A j \in S : j <= Parent(b, i)
  BY <1>3, <1>4
<1>6. Parent(b, i) < i /\ Parent(b, i) \in 0..Len(b)
  BY <1>2, <1>5
<1> QED
  BY <1>1, <1>5, <1>6 DEF S, Open

\* The sections that are named alike under one parent, up to the i-th line.
Alike(b, p, i) ==
  {k \in Headed(b) : k <= i /\ b[k].name = b[i].name /\ p[Parent(b, k)] = p[Parent(b, i)]}
IsNaming(b, p) ==
  /\ p[0] = <<>>
  /\ \A i \in Headed(b) :
       p[i] = Append(p[Parent(b, i)], Segment(b[i].name, Cardinality(Alike(b, p, i))))

\* The recursion comes to an end: it looks at the parents of the sections before.
LEMMA PathsAreANaming ==
  ASSUME NEW b, IsBody(b)
  PROVE  IsNaming(b, Paths(b))
<1> DEFINE N == Len(b)
           H == Headed(b)
           Upto(m) == {i \in {0} \union H : i <= m}
           Step(p, i) == IF i = 0 THEN <<>>
                         ELSE LET up == p[Parent(b, i)]
                                  same == {k \in Headed(b) : /\ k <= i /\ b[k].name = b[i].name
                                                             /\ p[Parent(b, k)] = up}
                              IN Append(up, Segment(b[i].name, Cardinality(same)))
           Rec(p, D) == p = [i \in D |-> Step(p, i)]
           S == {m \in 0..N : \E p : Rec(p, Upto(m))}
<1>1. N \in Nat /\ H \subseteq 1..N
  BY BodyParts
<1>2. \A i \in H : Parent(b, i) < i /\ Parent(b, i) \in 0..N /\ Parent(b, i) \in {0} \union H
  BY ParentIsBefore
<1>3. ASSUME NEW m \in 0..N, NEW p, NEW q, NEW i \in {0} \union H, i <= m + 1,
             \A k \in Upto(m) : q[k] = p[k]
      PROVE  Step(q, i) = Step(p, i)
  <2>1. ASSUME NEW k \in H, k <= i
        PROVE  Parent(b, k) \in Upto(m)
    BY <1>1, <1>2, <1>3, <2>1
  <2> HIDE DEF Upto
  <2>2. CASE i # 0
    <3>1. \A k \in H : k <= i => q[Parent(b, k)] = p[Parent(b, k)]
      BY <1>3, <2>1
    <3>2. q[Parent(b, i)] = p[Parent(b, i)]
      BY <1>1, <2>2, <3>1
    <3>3. {k \in H : k <= i /\ b[k].name = b[i].name /\ q[Parent(b, k)] = q[Parent(b, i)]}
            = {k \in H : k <= i /\ b[k].name = b[i].name /\ p[Parent(b, k)] = p[Parent(b, i)]}
      BY <3>1, <3>2
    <3> QED
      BY <2>2, <3>2, <3>3
  <2> QED
    BY <2>2
<1>4. 0 \in S
  <2> DEFINE none == [i \in Upto(0) |-> <<>>]
  <2>1. \A i \in Upto(0) : i = 0
    BY <1>1
  <2>2. none = [i \in Upto(0) |-> Step(none, i)]
    BY <2>1
  <2>3. \E x : Rec(x, Upto(0))
    <3> HIDE DEF none, Step, Upto
    <3> QED
      BY <2>2
  <2>4. 0 \in 0..N
    BY <1>1
  <2> HIDE DEF Rec, Upto, N
  <2> QED
    BY <2>3, <2>4
<1>5. ASSUME NEW m \in 0..(N - 1), m \in S
      PROVE  m + 1 \in S
  <2>1. PICK p : Rec(p, Upto(m))
    BY <1>5
  <2> DEFINE q == [i \in Upto(m + 1) |-> IF i \in Upto(m) THEN p[i] ELSE Step(p, i)]
  <2>2. \A k \in Upto(m) : q[k] = p[k]
    BY <1>1
  <2>3. \A i \in Upto(m) : p[i] = Step(p, i)
    <3> HIDE DEF Step, Upto
    <3> QED
      BY <2>1
  <2>4. ASSUME NEW i \in Upto(m + 1)
        PROVE  q[i] = Step(q, i)
    <3>1. i \in {0} \union H /\ i <= m + 1 /\ m \in 0..N
      BY <1>1
    <3>2. Step(q, i) = Step(p, i)
      <4> HIDE DEF q, Step, Upto
      <4> QED
        BY <1>3, <2>2, <3>1
    <3> HIDE DEF Step, Upto
    <3>3. q[i] = IF i \in Upto(m) THEN p[i] ELSE Step(p, i)
      OBVIOUS
    <3> HIDE DEF q
    <3> QED
      BY <2>3, <3>2, <3>3
  <2>5. \E x : Rec(x, Upto(m + 1))
    <3>1. q = [i \in Upto(m + 1) |-> Step(q, i)]
      <4> HIDE DEF Step, Upto
      <4> QED
        BY <2>4
    <3> HIDE DEF q, Step, Upto
    <3> QED
      BY <3>1
  <2>6. m + 1 \in 0..N
    BY <1>1
  <2> HIDE DEF Rec, Upto, q
  <2> QED
    BY <2>5, <2>6
<1>6. \E p : Rec(p, {0} \union H)
  <2>1. N \in S
    <3> HIDE DEF S
    <3>1. 0..N \subseteq S
      <4> HIDE DEF N
      <4> QED
        BY <1>1, <1>4, <1>5, CountedUp
    <3> QED
      BY <1>1, <3>1
  <2>2. Upto(N) = {0} \union H
    BY <1>1
  <2> HIDE DEF Rec, Upto
  <2> QED
    BY <2>1, <2>2
<1> DEFINE r == CHOOSE p : Rec(p, {0} \union H)
<1>7. Rec(r, {0} \union H)
  <2> HIDE DEF Rec
  <2> QED
    BY <1>6
<1>8. Paths(b) = r
  BY DEF Paths
<1> HIDE DEF r
<1>9. \A i \in {0} \union H : r[i] = Step(r, i)
  <2> HIDE DEF Step
  <2> QED
    BY <1>7
<1>10. IsNaming(b, r)
  <2>1. r[0] = <<>>
    BY <1>9
  <2>2. ASSUME NEW i \in H
        PROVE  r[i] = Append(r[Parent(b, i)], Segment(b[i].name, Cardinality(Alike(b, r, i))))
    <3>1. i # 0
      BY <1>1
    <3> QED
      BY <1>9, <3>1 DEF Alike
  <2> QED
    BY <2>1, <2>2 DEF IsNaming
<1> QED
  BY <1>8, <1>10

\* What segments a path is made of.
Segments(b) == {Segment(b[i].name, n) : i \in Headed(b), n \in Nat}

LEMMA AlikeIsFinite ==
  ASSUME NEW b, IsBody(b), NEW p, NEW i \in Headed(b)
  PROVE  /\ IsFiniteSet(Alike(b, p, i)) /\ Cardinality(Alike(b, p, i)) \in Nat
         /\ Segment(b[i].name, Cardinality(Alike(b, p, i))) \in Segments(b)
<1>1. Len(b) \in Nat /\ Headed(b) \subseteq 1..Len(b)
  BY BodyParts
<1>2. Alike(b, p, i) \in SUBSET (1..Len(b))
  BY <1>1 DEF Alike
<1>3. IsFiniteSet(1..Len(b))
  BY <1>1, FS_Interval
<1>4. IsFiniteSet(Alike(b, p, i))
  BY <1>2, <1>3, FS_Subset
<1>5. Cardinality(Alike(b, p, i)) \in Nat
  BY <1>4, FS_CardinalityType
<1> QED
  BY <1>4, <1>5 DEF Segments

LEMMA PathsAreSequences ==
  ASSUME NEW b, IsBody(b), NEW p, IsNaming(b, p)
  PROVE  \A i \in {0} \union Headed(b) : p[i] \in Seq(Segments(b))
<1> DEFINE N == Len(b)
           S == {m \in 0..N : \A i \in {0} \union Headed(b) : i <= m => p[i] \in Seq(Segments(b))}
<1>1. N \in Nat /\ Headed(b) \subseteq 1..N
  BY BodyParts
<1>2. 0 \in S
  <2>1. p[0] \in Seq(Segments(b))
    BY DEF IsNaming
  <2> QED
    BY <1>1, <2>1
<1>3. ASSUME NEW m \in 0..(N - 1), m \in S
      PROVE  m + 1 \in S
  <2>1. ASSUME NEW i \in Headed(b), i <= m + 1
        PROVE  p[i] \in Seq(Segments(b))
    <3>1. Parent(b, i) < i /\ Parent(b, i) \in 0..N /\ Parent(b, i) \in {0} \union Headed(b)
      BY ParentIsBefore
    <3>2. Parent(b, i) <= m
      BY <1>1, <2>1, <3>1
    <3>3. p[Parent(b, i)] \in Seq(Segments(b))
      BY <1>3, <3>1, <3>2
    <3>4. p[i] = Append(p[Parent(b, i)], Segment(b[i].name, Cardinality(Alike(b, p, i))))
      BY DEF IsNaming
    <3> QED
      BY <3>3, <3>4, AlikeIsFinite, AppendProperties
  <2>2. p[0] \in Seq(Segments(b)) /\ m + 1 \in 0..N
    BY <1>1 DEF IsNaming
  <2> QED
    BY <2>1, <2>2
<1>4. 0..N \subseteq S
  <2> HIDE DEF S, N
  <2> QED
    BY <1>1, <1>2, <1>3, CountedUp
<1> QED
  BY <1>1, <1>4

LEMMA Appended ==
  ASSUME NEW T, NEW x \in Seq(T), NEW m \in T
  PROVE  /\ Len(Append(x, m)) = Len(x) + 1 /\ Append(x, m)[Len(x) + 1] = m
         /\ \A i \in 1..Len(x) : Append(x, m)[i] = x[i]
<1>1. Len(Append(x, m)) = Len(x) + 1
  BY AppendProperties
<1>2. \A i \in 1..Len(x) : Append(x, m)[i] = x[i]
  BY AppendProperties
<1>3. Append(x, m)[Len(x) + 1] = m
  BY AppendProperties
<1> QED
  BY <1>1, <1>2, <1>3

LEMMA OneWordAndANumber ==
  ASSUME NEW x, IsList(x), Len(x) = 1, NEW m \in Nat
  PROVE  Len(Append(x, m)) = 2 /\ Append(x, m)[1] = x[1] /\ Append(x, m)[2] = m
<1> DEFINE T == {x[k] : k \in 1..Len(x)} \union Nat
<1>1. x \in Seq(T) /\ m \in T
  <2>1. x \in Seq({x[k] : k \in 1..Len(x)})
    BY ListsAreSequences
  <2> QED
    BY <2>1
<1> HIDE DEF T
<1>2. /\ Len(Append(x, m)) = Len(x) + 1 /\ Append(x, m)[Len(x) + 1] = m
      /\ \A i \in 1..Len(x) : Append(x, m)[i] = x[i]
  BY <1>1, Appended, Zenon
<1>3. Append(x, m)[1] = x[1]
  BY <1>2
<1> QED
  BY <1>2, <1>3

\* A name of one word and its number can be told from the segment.
LEMMA SegmentsTell ==
  ASSUME NEW x, NEW y, IsList(x), IsList(y), Len(x) = 1, Len(y) = 1, NEW m \in Nat, NEW n \in Nat,
         Segment(x, m) = Segment(y, n)
  PROVE  x = y /\ m = n
<1>1. x[1] = y[1] => x = y
  <2>1. \A k \in 1..1 : k = 1
    OBVIOUS
  <2> QED
    BY <2>1 DEF IsList
<1>2. Len(Append(x, m)) = 2 /\ Append(x, m)[1] = x[1] /\ Append(x, m)[2] = m
  BY OneWordAndANumber
<1>3. Len(Append(y, n)) = 2 /\ Append(y, n)[1] = y[1] /\ Append(y, n)[2] = n
  BY OneWordAndANumber
<1>4. Segment(x, m) = (IF m = 1 THEN x ELSE Append(x, m)) /\ Segment(y, n) = IF n = 1 THEN y ELSE Append(y, n)
  BY DEF Segment
<1>5. (m = 1) <=> (n = 1)
  BY <1>2, <1>3, <1>4
<1> QED
  BY <1>1, <1>2, <1>3, <1>4, <1>5

LEMMA PathsAreUnique ==
  ASSUME NEW b, IsBody(b), Plain(b), NEW p, IsNaming(b, p),
         NEW i \in {0} \union Headed(b), NEW k \in {0} \union Headed(b), p[i] = p[k]
  PROVE  i = k
<1>1. Len(b) \in Nat /\ Headed(b) \subseteq 1..Len(b)
  BY BodyParts
<1>2. ASSUME NEW j \in Headed(b)
      PROVE  /\ Parent(b, j) \in {0} \union Headed(b) /\ p[Parent(b, j)] \in Seq(Segments(b))
             /\ p[j] = Append(p[Parent(b, j)], Segment(b[j].name, Cardinality(Alike(b, p, j))))
             /\ Segment(b[j].name, Cardinality(Alike(b, p, j))) \in Segments(b)
             /\ Cardinality(Alike(b, p, j)) \in Nat /\ IsFiniteSet(Alike(b, p, j))
             /\ IsList(b[j].name) /\ Len(b[j].name) = 1
  <2>1. Parent(b, j) \in {0} \union Headed(b)
    BY ParentIsBefore
  <2>2. p[Parent(b, j)] \in Seq(Segments(b))
    BY <2>1, PathsAreSequences
  <2> QED
    BY <1>1, <2>1, <2>2, AlikeIsFinite, BodyParts DEF IsNaming, Plain
<1>3. ASSUME NEW j \in Headed(b)
      PROVE  p[j] # p[0]
  <2>1. p[0] = <<>>
    BY DEF IsNaming
  <2>2. p[j] # <<>>
    BY <1>2, <1>3, AppendProperties
  <2> QED
    BY <2>1, <2>2
<1>4. ASSUME NEW j \in Headed(b), NEW l \in Headed(b), p[j] = p[l], j < l
      PROVE  FALSE
  <2>1. /\ p[Parent(b, j)] = p[Parent(b, l)]
        /\ Segment(b[j].name, Cardinality(Alike(b, p, j))) = Segment(b[l].name, Cardinality(Alike(b, p, l)))
    <3> DEFINE u == p[Parent(b, j)]
               v == p[Parent(b, l)]
               x == Segment(b[j].name, Cardinality(Alike(b, p, j)))
               y == Segment(b[l].name, Cardinality(Alike(b, p, l)))
    <3>1. u \in Seq(Segments(b)) /\ v \in Seq(Segments(b)) /\ x \in Segments(b) /\ y \in Segments(b)
      BY <1>2
    <3>2. Append(u, x) = Append(v, y)
      BY <1>2, <1>4
    <3> HIDE DEF u, v, x, y
    <3>3. u = v /\ x = y
      BY <3>1, <3>2, AppendInjective
    <3> QED
      BY <3>3 DEF u, v, x, y
  <2>2. b[j].name = b[l].name /\ Cardinality(Alike(b, p, j)) = Cardinality(Alike(b, p, l))
    BY <1>2, <2>1, SegmentsTell
  <2>3. Alike(b, p, j) \subseteq Alike(b, p, l) /\ l \in Alike(b, p, l) /\ l \notin Alike(b, p, j)
    BY <1>1, <1>4, <2>1, <2>2 DEF Alike
  <2>4. Alike(b, p, j) = Alike(b, p, l)
    <3>1. Alike(b, p, j) \in SUBSET Alike(b, p, l)
      BY <2>3
    <3> QED
      BY <1>2, <2>2, <3>1, FS_Subset
  <2> QED
    BY <2>3, <2>4
<1> QED
  <2>1. i \in Headed(b) /\ k \in Headed(b) => i = k
    <3> SUFFICES ASSUME i \in Headed(b), k \in Headed(b), i # k PROVE FALSE
      OBVIOUS
    <3>1. i < k \/ k < i
      BY <1>1
    <3> QED
      BY <1>4, <3>1
  <2> QED
    BY <1>3, <2>1

\* No section has the path of the preamble.
LEMMA PathsAreNoPreamble ==
  ASSUME NEW b, IsBody(b), Plain(b), NEW p, IsNaming(b, p), NEW i \in Headed(b)
  PROVE  p[i] # Preamble
<1>1. Len(b) \in Nat /\ Headed(b) \subseteq 1..Len(b)
  BY BodyParts
<1> DEFINE up == p[Parent(b, i)]
           n == Cardinality(Alike(b, p, i))
           seg == Segment(b[i].name, n)
<1>2. up \in Seq(Segments(b)) /\ seg \in Segments(b) /\ n \in Nat
  <2>1. Parent(b, i) \in {0} \union Headed(b)
    BY ParentIsBefore
  <2> QED
    BY <2>1, PathsAreSequences, AlikeIsFinite
<1>3. p[i] = Append(up, seg)
  BY DEF IsNaming
<1>4. IsList(b[i].name) /\ Len(b[i].name) = 1 /\ b[i].name # <<"preamble">>
  BY <1>1, BodyParts DEF Plain, Preamble
<1> SUFFICES ASSUME p[i] = Preamble PROVE FALSE
  OBVIOUS
<1>5. seg = <<"preamble">>
  <2>1. Append(up, seg)[Len(up) + 1] = seg /\ Len(Append(up, seg)) = Len(up) + 1
    BY <1>2, AppendProperties
  <2>2. Len(Preamble) = 1 /\ Preamble[1] = <<"preamble">>
    BY DEF Preamble
  <2> HIDE DEF up, seg
  <2>3. Len(up) \in Nat
    BY <1>2
  <2>4. Len(up) + 1 = 1
    BY <1>3, <2>1, <2>2
  <2> QED
    BY <1>3, <2>1, <2>2, <2>4
<1>6. n = 1
  <2>1. n # 1 => Len(seg) = 2
    BY <1>2, <1>4, OneWordAndANumber DEF Segment
  <2>2. Len(<<"preamble">>) = 1
    OBVIOUS
  <2> QED
    BY <1>5, <2>1, <2>2
<1> QED
  BY <1>4, <1>5, <1>6 DEF Segment

LEMMA PrefixOfAppend ==
  ASSUME NEW T, NEW s \in Seq(T), NEW t \in Seq(T), NEW x \in T
  PROVE  IsPrefix(s, Append(t, x)) <=> s = Append(t, x) \/ IsPrefix(s, t)
<1> DEFINE u == Append(t, x)
           Begins(v) == Len(s) <= Len(v) /\ \A n \in 1..Len(s) : s[n] = v[n]
<1>1. /\ u \in Seq(T) /\ Len(u) = Len(t) + 1 /\ Len(s) \in Nat /\ Len(t) \in Nat
      /\ \A n \in 1..Len(t) : u[n] = t[n]
  BY AppendProperties
<1> HIDE DEF u
<1>2. ASSUME NEW v \in Seq(T)
      PROVE  IsPrefix(s, v) <=> Begins(v)
  <2>1. CASE Len(s) <= Len(v)
    <3>1. Len(v) \in Nat /\ Len(s) \in 0..Len(v) /\ Len(s) \in 0..Len(s) /\ Len(s) \in Nat
      BY <2>1
    <3> DEFINE a == SubSeq(s, 1, Len(s))
               b == SubSeq(v, 1, Len(s))
    <3>2. a \in Seq(T) /\ Len(a) = Len(s) /\ \A n \in 1..Len(s) : a[n] = s[n]
      BY <3>1
    <3>3. b \in Seq(T) /\ Len(b) = Len(s) /\ \A n \in 1..Len(s) : b[n] = v[n]
      BY <2>1, <3>1
    <3> HIDE DEF a, b
    <3>4. a = b <=> \A n \in 1..Len(s) : a[n] = b[n]
      BY <3>2, <3>3, SeqEqual
    <3>5. IsPrefix(s, v) <=> a = b
      BY <2>1 DEF IsPrefix, a, b
    <3> QED
      BY <2>1, <3>2, <3>3, <3>4, <3>5
  <2>2. CASE ~(Len(s) <= Len(v))
    BY <2>2 DEF IsPrefix
  <2> QED
    BY <2>1, <2>2
<1>3. IsPrefix(s, u) <=> Begins(u)
  BY <1>1, <1>2
<1>4. IsPrefix(s, t) <=> Begins(t)
  BY <1>2
<1>5. Begins(t) => Begins(u)
  BY <1>1
<1>6. ASSUME Begins(u), Len(s) <= Len(t)
      PROVE  Begins(t)
  BY <1>1, <1>6
<1>7. ASSUME Begins(u), ~(Len(s) <= Len(t))
      PROVE  s = u
  <2>1. Len(s) = Len(u)
    BY <1>1, <1>7
  <2> QED
    BY <1>1, <1>7, <2>1, SeqEqual
<1>8. s = u => Begins(u)
  BY <1>1
<1> HIDE DEF Begins
<1> QED
  BY <1>3, <1>4, <1>5, <1>6, <1>7, <1>8 DEF u

\* The lines of a section of the outline, for one of its headings.
Within(b, i, k) == i <= k /\ k < To(b, i)

\* The level arithmetic and the parser's stack agree: of the headings after that
\* of a section, those are in it whose parent is.
LEMMA ParentsNest ==
  ASSUME NEW b, IsBody(b), NEW i \in Outline(b), NEW k \in Headed(b), k # i
  PROVE  Within(b, i, k) <=> (Parent(b, k) # 0 /\ Within(b, i, Parent(b, k)))
<1> DEFINE j == Parent(b, k)
           t == To(b, i)
<1>1. /\ Len(b) \in Nat /\ Headed(b) \subseteq 1..Len(b) /\ Outline(b) \subseteq Headed(b)
      /\ \A l \in 1..Len(b) : b[l].level \in Nat
  BY BodyParts
<1>2. j \in {0} \union Open(b, k) /\ (\A l \in Open(b, k) : l <= j) /\ j < k /\ j \in 0..Len(b)
  BY ParentIsBefore
<1>3. /\ t \in {Len(b) + 1} \union Ends(b, i) /\ \A e \in Ends(b, i) : t <= e
      /\ t \in 1..(Len(b) + 1) /\ i < t
  <2> DEFINE S == {Len(b) + 1} \union Ends(b, i)
  <2>1. S \subseteq Nat /\ S # {}
    BY <1>1 DEF Ends
  <2>2. t = Min(S)
    BY DEF To, Ends
  <2>3. Min(S) \in S /\ \A y \in S : Min(S) <= y
    <3> HIDE DEF S
    <3> QED
      BY <2>1, MinIsLeast
  <2>4. i \in {0} \union Headed(b)
    BY <1>1
  <2> QED
    BY <2>2, <2>3, <2>4, SectionBounds
<1>4. i \in 1..Len(b) /\ k \in 1..Len(b)
  BY <1>1
<1> HIDE DEF j, t
\* Nothing in the section is as shallow as its heading.
<1>5. ASSUME NEW l \in Outline(b), i < l, l < t
      PROVE  b[i].level < b[l].level
  <2>1. l \notin Ends(b, i)
    BY <1>1, <1>3, <1>5
  <2>2. b[l].level \in Nat /\ b[i].level \in Nat /\ l \in Headed(b)
    BY <1>1
  <2> QED
    BY <1>5, <2>1, <2>2 DEF Ends
<1>6. ASSUME i <= k, k < t
      PROVE  j # 0 /\ i <= j /\ j < t
  <2>1. i < k
    BY <1>4, <1>6
  <2>2. i \in Open(b, k)
    BY <1>5, <1>6, <2>1 DEF Open
  <2>3. i <= j
    BY <1>2, <2>2
  <2> QED
    BY <1>2, <1>3, <1>4, <1>6, <2>3
<1>7. ASSUME j # 0, i <= j, j < t
      PROVE  i <= k /\ k < t
  <2>1. i <= k
    BY <1>2, <1>4, <1>7
  <2> SUFFICES ASSUME t <= k PROVE FALSE
    BY <1>3, <1>4, <2>1
  <2>2. j \in Outline(b) /\ (k \in Outline(b) => b[j].level < b[k].level)
    BY <1>2, <1>7 DEF Open
  <2>3. t \in Ends(b, i)
    BY <1>3, <1>4
  <2>4. t \in Outline(b) /\ b[t].level <= b[i].level
    BY <2>3 DEF Ends
  <2>5. b[i].level \in Nat /\ b[j].level \in Nat /\ b[t].level \in Nat
    BY <1>1, <2>2, <2>4
  <2>6. b[i].level <= b[j].level
    <3>1. j = i \/ i < j
      BY <1>2, <1>4, <1>7
    <3> QED
      BY <1>5, <1>7, <2>2, <2>5, <3>1
  <2>7. CASE t = k
    <3>1. b[j].level < b[t].level
      BY <2>2, <2>4, <2>7
    <3> QED
      BY <2>4, <2>5, <2>6, <3>1
  <2>8. CASE t < k
    <3>1. k \in Outline(b) => b[t].level < b[k].level
      <4>1. ASSUME k \in Outline(b)
            PROVE  b[t].level < b[k].level
        <5>1. b[k].level \in Nat /\ b[j].level < b[k].level
          BY <1>1, <2>2, <4>1
        <5> QED
          BY <2>4, <2>5, <2>6, <5>1
      <4> QED
        BY <4>1
    <3>2. t \in Open(b, k)
      BY <2>4, <2>8, <3>1 DEF Open
    <3>3. t <= j
      BY <1>2, <3>2
    <3> QED
      BY <1>2, <1>3, <1>7, <3>3
  <2> QED
    BY <1>3, <1>4, <2>7, <2>8
<1> QED
  BY <1>6, <1>7 DEF Within, j, t

LEMMA PrefixesNest ==
  ASSUME NEW b, IsBody(b), Plain(b), NEW p, IsNaming(b, p), NEW i \in Outline(b)
  PROVE  \A k \in Headed(b) : IsPrefix(p[i], p[k]) <=> Within(b, i, k)
<1> DEFINE N == Len(b)
           Agrees(k) == IsPrefix(p[i], p[k]) <=> (k # 0 /\ Within(b, i, k))
           S == {m \in 0..N : \A k \in {0} \union Headed(b) : k <= m => Agrees(k)}
<1>1. N \in Nat /\ Headed(b) \subseteq 1..N /\ i \in Headed(b)
  BY BodyParts
<1>2. \A k \in {0} \union Headed(b) : p[k] \in Seq(Segments(b))
  BY PathsAreSequences
<1>3. \A k \in Headed(b) : p[k] # p[0]
  <2> SUFFICES ASSUME NEW k \in Headed(b), p[k] = p[0] PROVE FALSE
    OBVIOUS
  <2>1. k = 0
    BY PathsAreUnique
  <2> QED
    BY <1>1, <2>1
<1>4. Agrees(0)
  <2>1. p[0] = <<>> /\ p[i] # <<>> /\ p[i] \in Seq(Segments(b))
    BY <1>1, <1>2, <1>3 DEF IsNaming
  <2>2. Len(p[i]) # 0 /\ Len(p[i]) \in Nat /\ Len(<<>>) = 0
    BY <2>1, EmptySeq, LenProperties
  <2> QED
    BY <2>1, <2>2 DEF IsPrefix
<1>5. ASSUME NEW k \in Headed(b), Agrees(Parent(b, k))
      PROVE  Agrees(k)
  <2> DEFINE up == p[Parent(b, k)]
             x == Segment(b[k].name, Cardinality(Alike(b, p, k)))
  <2>1. Parent(b, k) \in {0} \union Headed(b)
    BY ParentIsBefore
  <2>2. up \in Seq(Segments(b)) /\ x \in Segments(b) /\ p[i] \in Seq(Segments(b))
    BY <1>1, <1>2, <2>1, AlikeIsFinite
  <2>3. p[k] = Append(up, x)
    BY DEF IsNaming
  <2> HIDE DEF up, x
  <2>4. IsPrefix(p[i], p[k]) <=> p[i] = p[k] \/ IsPrefix(p[i], up)
    BY <2>2, <2>3, PrefixOfAppend
  <2>5. p[i] = p[k] <=> i = k
    BY <1>1, PathsAreUnique
  <2>6. k # 0
    BY <1>1
  <2>7. CASE k = i
    <3>1. Within(b, i, i)
      BY <1>1, SectionBounds DEF Within
    <3> QED
      BY <2>4, <2>6, <2>7, <3>1
  <2>8. CASE k # i
    <3>1. Within(b, i, k) <=> (Parent(b, k) # 0 /\ Within(b, i, Parent(b, k)))
      BY <2>8, ParentsNest
    <3> QED
      BY <1>5, <2>4, <2>5, <2>6, <2>8, <3>1 DEF up
  <2> QED
    BY <2>7, <2>8
<1>6. 0 \in S
  BY <1>1, <1>4
<1>7. ASSUME NEW m \in 0..(N - 1), m \in S
      PROVE  m + 1 \in S
  <2>1. ASSUME NEW k \in {0} \union Headed(b), k <= m + 1
        PROVE  Agrees(k)
    <3>1. CASE k = 0
      BY <1>4, <3>1
    <3>2. CASE k \in Headed(b)
      <4>1. Parent(b, k) < k /\ Parent(b, k) \in 0..N /\ Parent(b, k) \in {0} \union Headed(b)
        BY <3>2, ParentIsBefore
      <4>2. Parent(b, k) <= m
        BY <1>1, <2>1, <3>2, <4>1
      <4>3. Agrees(Parent(b, k))
        <5> HIDE DEF Agrees
        <5> QED
          BY <1>7, <4>1, <4>2
      <4> QED
        BY <1>5, <3>2, <4>3
    <3> QED
      BY <3>1, <3>2
  <2>2. m + 1 \in 0..N
    BY <1>1
  <2> HIDE DEF Agrees
  <2> QED
    BY <2>1, <2>2
<1>8. 0..N \subseteq S
  <2> HIDE DEF S, N
  <2> QED
    BY <1>1, <1>6, <1>7, CountedUp
<1>9. \A k \in Headed(b) : Agrees(k)
  <2> HIDE DEF Agrees
  <2> QED
    BY <1>1, <1>8
<1> QED
  BY <1>1, <1>9

\* Of every body whose headings carry no suffix: a path names one section, and
\* begins the paths of what the edits of that section take along.
LEMMA SectionsAreNamed ==
  ASSUME NEW b, IsBody(b), Plain(b), NEW i \in Headed(b)
  PROVE  /\ At(b, Paths(b)[i]) = {i}
         /\ i \in Outline(b) =>
              {k \in Headed(b) : i <= k /\ k < To(b, i)}
                = {k \in Headed(b) : IsPrefix(Paths(b)[i], Paths(b)[k])}
<1> DEFINE p == Paths(b)
<1>1. IsNaming(b, p)
  BY PathsAreANaming
<1>2. Headed(b) \subseteq 1..Len(b) /\ Len(b) \in Nat
  BY BodyParts
<1> HIDE DEF p
<1>3. \A k \in {0} \union Headed(b) : p[k] = p[i] => k = i
  BY <1>1, PathsAreUnique
<1>4. p[i] # Preamble
  BY <1>1, PathsAreNoPreamble
<1>5. At(b, p[i]) = {k \in {0} \union Headed(b) : IF k = 0 THEN p[i] = Preamble ELSE p[k] = p[i]}
  BY DEF At, p
<1>6. At(b, p[i]) = {i}
  BY <1>2, <1>3, <1>4, <1>5
<1>7. i \in Outline(b) => \A k \in Headed(b) : IsPrefix(p[i], p[k]) <=> Within(b, i, k)
  BY <1>1, PrefixesNest
<1> QED
  BY <1>6, <1>7 DEF Within, p

-----------------------------------------------------------------------------
(* An upsert that went through, repeated.                                  *)

\* What the parser says of a line depends on the lines up to it.
LEMMA SamePrefix ==
  ASSUME NEW b, IsBody(b), NEW c, IsBody(c), NEW n \in Nat, n <= Len(b), n <= Len(c),
         \A k \in 1..n : b[k] = c[k]
  PROVE  \A i \in 1..n : /\ i \in Headed(b) <=> i \in Headed(c)
                         /\ i \in Headed(b) => Paths(b)[i] = Paths(c)[i]
<1> DEFINE p == Paths(b)
           q == Paths(c)
           S == {m \in 0..n : \A i \in Headed(b) : i <= m => p[i] = q[i]}
<1>1. /\ Len(b) \in Nat /\ DOMAIN b = 1..Len(b) /\ Len(c) \in Nat /\ DOMAIN c = 1..Len(c)
      /\ Headed(b) \subseteq 1..Len(b) /\ Outline(b) \subseteq Headed(b)
      /\ Headed(c) \subseteq 1..Len(c) /\ Outline(c) \subseteq Headed(c)
  BY BodyParts
<1>2. \A i \in 1..n : (i \in Headed(b) <=> i \in Headed(c)) /\ (i \in Outline(b) <=> i \in Outline(c))
  BY <1>1 DEF Headed, Outline
<1>3. ASSUME NEW i \in Headed(b), i <= n
      PROVE  Parent(b, i) = Parent(c, i)
  <2>1. \A j \in 1..n : b[j] = c[j]
    OBVIOUS
  <2>2. Open(b, i) \subseteq 1..n /\ Open(c, i) \subseteq 1..n /\ i \in 1..n
    BY <1>1, <1>3 DEF Open
  <2>3. \A j \in 1..n : j \in Open(b, i) <=> j \in Open(c, i)
    BY <1>2, <2>1, <2>2 DEF Open
  <2>4. Open(b, i) = Open(c, i)
    BY <2>2, <2>3
  <2> QED
    BY <2>4 DEF Parent, Open
<1>4. IsNaming(b, p) /\ IsNaming(c, q)
  BY PathsAreANaming
<1> HIDE DEF p, q
<1>5. 0 \in S
  BY <1>1
<1>6. ASSUME NEW m \in 0..(n - 1), m \in S
      PROVE  m + 1 \in S
  <2>1. ASSUME NEW k \in Headed(b), k <= m + 1
        PROVE  p[Parent(b, k)] = q[Parent(c, k)]
    <3>1. Parent(b, k) < k /\ Parent(b, k) \in 0..Len(b) /\ Parent(b, k) \in {0} \union Headed(b)
      BY ParentIsBefore
    <3>2. Parent(b, k) = Parent(c, k)
      BY <1>1, <1>3, <2>1
    <3>3. p[0] = q[0]
      BY <1>4 DEF IsNaming
    <3>4. Parent(b, k) <= m
      BY <1>1, <2>1, <3>1
    <3> QED
      BY <1>6, <3>1, <3>2, <3>3, <3>4
  <2>2. ASSUME NEW i \in Headed(b), i <= m + 1
        PROVE  p[i] = q[i]
    <3>1. i \in Headed(c) /\ b[i].name = c[i].name /\ i \in 1..n
      BY <1>1, <1>2, <2>2
    <3>2. Alike(b, p, i) \subseteq 1..n /\ Alike(c, q, i) \subseteq 1..n
      BY <1>1, <3>1 DEF Alike
    <3>3. \A k \in 1..n : k \in Alike(b, p, i) <=> k \in Alike(c, q, i)
      <4> SUFFICES ASSUME NEW k \in 1..n PROVE k \in Alike(b, p, i) <=> k \in Alike(c, q, i)
        OBVIOUS
      <4>1. b[k] = c[k] /\ (k \in Headed(b) <=> k \in Headed(c))
        BY <1>2
      <4>2. k \in Headed(b) /\ k <= i => p[Parent(b, k)] = q[Parent(c, k)]
        BY <1>1, <2>1, <2>2
      <4>3. p[Parent(b, i)] = q[Parent(c, i)]
        BY <2>1, <2>2
      <4> QED
        BY <3>1, <4>1, <4>2, <4>3 DEF Alike
    <3>4. Alike(b, p, i) = Alike(c, q, i)
      BY <3>2, <3>3
    <3>5. p[i] = Append(p[Parent(b, i)], Segment(b[i].name, Cardinality(Alike(b, p, i))))
      BY <1>4 DEF IsNaming
    <3>6. q[i] = Append(q[Parent(c, i)], Segment(c[i].name, Cardinality(Alike(c, q, i))))
      BY <1>4, <3>1 DEF IsNaming
    <3> QED
      BY <2>1, <2>2, <3>1, <3>4, <3>5, <3>6
  <2> QED
    BY <2>2
<1>7. 0..n \subseteq S
  <2> HIDE DEF S
  <2> QED
    BY <1>5, <1>6, CountedUp
<1>8. \A i \in Headed(b) : i <= n => p[i] = q[i]
  BY <1>7
<1> QED
  BY <1>1, <1>2, <1>8 DEF p, q

LEMMA SameLists ==
  ASSUME NEW s, IsList(s), NEW t, IsList(t), Len(s) = Len(t), \A k \in 1..Len(s) : s[k] = t[k]
  PROVE  s = t
BY DEF IsList

LEMMA EmptyLists ==
  ASSUME NEW s, IsList(s)
  PROVE  s = <<>> <=> Len(s) = 0
<1>1. IsList(<<>>) /\ Len(<<>>) = 0
  BY DEF IsList
<1> QED
  BY <1>1, SameLists DEF IsList

LEMMA JoinedLists ==
  ASSUME NEW s, IsList(s), NEW t, IsList(t)
  PROVE  /\ IsList(s \o t) /\ Len(s \o t) = Len(s) + Len(t) /\ Len(s) \in Nat /\ Len(t) \in Nat
         /\ \A k \in 1..Len(s) : (s \o t)[k] = s[k]
         /\ \A k \in 1..Len(t) : (s \o t)[Len(s) + k] = t[k]
<1> DEFINE B(x) == {x[k] : k \in 1..Len(x)}
           T == B(s) \union B(t)
<1>1. s \in Seq(B(s)) /\ t \in Seq(B(t))
  BY ListsAreSequences
<1> HIDE DEF B
<1>2. s \in Seq(T) /\ t \in Seq(T)
  BY <1>1
<1> HIDE DEF T
<1>3. s \o t \in Seq(T) /\ Len(s \o t) = Len(s) + Len(t) /\ Len(s) \in Nat /\ Len(t) \in Nat
  BY <1>2
<1>4. \A k \in 1..Len(s) : (s \o t)[k] = s[k]
  BY <1>2
<1>5. \A k \in 1..Len(t) : (s \o t)[Len(s) + k] = t[k]
  BY <1>2
<1>6. IsList(s \o t)
  BY <1>3, ListsAreSequences
<1> QED
  BY <1>3, <1>4, <1>5, <1>6

LEMMA PieceOfList ==
  ASSUME NEW s, IsList(s), NEW m \in 1..(Len(s) + 1), NEW n \in 0..Len(s), m <= n + 1
  PROVE  /\ IsList(SubSeq(s, m, n)) /\ Len(SubSeq(s, m, n)) = n + 1 - m
         /\ \A k \in 1..(n + 1 - m) : SubSeq(s, m, n)[k] = s[m + k - 1]
<1> DEFINE T == {s[k] : k \in 1..Len(s)}
<1>1. s \in Seq(T) /\ Len(s) \in Nat
  BY ListsAreSequences DEF IsList
<1> HIDE DEF T
<1>2. SubSeq(s, m, n) \in Seq(T) /\ Len(SubSeq(s, m, n)) = n + 1 - m
  BY <1>1
<1>3. \A k \in 1..(n + 1 - m) : SubSeq(s, m, n)[k] = s[m + k - 1]
  BY <1>1
<1>4. IsList(SubSeq(s, m, n))
  BY <1>2, ListsAreSequences
<1> QED
  BY <1>2, <1>3, <1>4

\* A heading comes after a blank line, or begins what there is.
Parted(s) == s = <<>> \/ s[Len(s)] = Blank

LEMMA SeamLines ==
  ASSUME NEW s, IsBody(s), NEW apart
  PROVE  /\ IsBody(Seam(s, apart)) /\ Len(s) \in Nat /\ Len(Seam(s, apart)) \in Len(s)..(Len(s) + 1)
         /\ \A k \in 1..Len(s) : Seam(s, apart)[k] = s[k]
         /\ Len(Seam(s, apart)) # Len(s) => Seam(s, apart)[Len(s) + 1] = Blank
         /\ apart => Parted(Seam(s, apart))
         /\ Parted(s) => Seam(s, apart) = s
<1>1. IsList(s) /\ Len(s) \in Nat /\ IsLine(Blank)
  BY DEF IsBody, IsLine, Blank, IsList
<1>2. s # <<>> => Last(s) = s[Len(s)]
  BY DEF Last
<1>3. CASE Seam(s, apart) = s /\ (apart => Parted(s))
  BY <1>1, <1>3
<1>4. CASE ~Parted(s) /\ Seam(s, apart) = Append(s, Blank)
  <2> DEFINE T == {s[k] : k \in 1..Len(s)} \union {Blank}
  <2>1. s \in Seq(T) /\ Blank \in T
    <3>1. s \in Seq({s[k] : k \in 1..Len(s)})
      BY <1>1, ListsAreSequences
    <3> QED
      BY <3>1
  <2> HIDE DEF T
  <2>2. Len(Append(s, Blank)) = Len(s) + 1
    BY <2>1, AppendProperties
  <2>3. \A k \in 1..Len(s) : Append(s, Blank)[k] = s[k]
    BY <2>1, AppendProperties
  <2>4. Append(s, Blank)[Len(s) + 1] = Blank
    BY <2>1, AppendProperties
  <2>5. IsBody(Append(s, Blank))
    BY <1>1, PiecesAreBodies
  <2> QED
    BY <1>1, <1>4, <2>2, <2>3, <2>4, <2>5 DEF Parted
<1>5. \/ Seam(s, apart) = s /\ (apart => Parted(s))
      \/ ~Parted(s) /\ Seam(s, apart) = Append(s, Blank)
  BY <1>2 DEF Seam, Parted
<1> QED
  BY <1>3, <1>4, <1>5

\* The body that an upsert leaves: the lines before, the section, the lines after.
Above(b, from) == Seam(SubSeq(b, 1, from - 1), TRUE)
Upper(b, from, new) == Above(b, from) \o new
Lower(b, to) == SubSeq(b, to, Len(b))
Held(b, from, to, new) ==
  LET upper == Upper(b, from, new) IN
  IF Lower(b, to) = <<>> THEN upper
  ELSE Seam(upper, (upper # <<>> /\ IsHeading(Last(upper))) \/ IsHeading(Head(Lower(b, to))))

IsSection(new) == IsBody(new) /\ new # <<>> /\ IsHeading(Head(new))

LEMMA PartsAreBodies ==
  ASSUME NEW b, IsBody(b), NEW from \in 1..(Len(b) + 1), NEW to \in 1..(Len(b) + 1),
         NEW new, IsSection(new)
  PROVE  /\ IsBody(Above(b, from)) /\ Parted(Above(b, from))
         /\ Len(Above(b, from)) \in (from - 1)..from
         /\ \A k \in 1..(from - 1) : Above(b, from)[k] = b[k]
         /\ Len(Above(b, from)) = from => Above(b, from)[from] = Blank
         /\ IsBody(Lower(b, to)) /\ Len(Lower(b, to)) = Len(b) + 1 - to
         /\ Lower(b, to) # <<>> => Lower(b, to)[1] = b[to]
         /\ IsBody(Upper(b, from, new)) /\ Len(Upper(b, from, new)) = Len(Above(b, from)) + Len(new)
         /\ \A k \in 1..Len(Above(b, from)) : Upper(b, from, new)[k] = Above(b, from)[k]
         /\ \A k \in 1..Len(new) : Upper(b, from, new)[Len(Above(b, from)) + k] = new[k]
<1>1. Len(b) \in Nat /\ IsList(b) /\ IsList(new)
  BY DEF IsBody, IsList, IsSection
<1>2. /\ IsBody(SubSeq(b, 1, from - 1)) /\ Len(SubSeq(b, 1, from - 1)) = from - 1
      /\ \A k \in 1..(from - 1) : SubSeq(b, 1, from - 1)[k] = b[k]
  <2>1. 1 \in 1..(Len(b) + 1) /\ from - 1 \in 0..Len(b) /\ 1 <= from - 1 + 1
    BY <1>1
  <2>2. /\ Len(SubSeq(b, 1, from - 1)) = from - 1 + 1 - 1
        /\ \A k \in 1..(from - 1 + 1 - 1) : SubSeq(b, 1, from - 1)[k] = b[1 + k - 1]
    BY <1>1, <2>1, PieceOfList
  <2>3. from - 1 + 1 - 1 = from - 1 /\ \A k \in 1..(from - 1) : 1 + k - 1 = k
    BY <1>1
  <2>4. IsBody(SubSeq(b, 1, from - 1))
    BY <2>1, PiecesAreBodies
  <2> QED
    BY <2>2, <2>3, <2>4
<1>3. /\ IsBody(Above(b, from)) /\ Parted(Above(b, from))
      /\ Len(Above(b, from)) \in (from - 1)..from
      /\ \A k \in 1..(from - 1) : Above(b, from)[k] = b[k]
      /\ Len(Above(b, from)) = from => Above(b, from)[from] = Blank
  <2> DEFINE s == SubSeq(b, 1, from - 1)
  <2>1. IsBody(s) /\ Len(s) = from - 1 /\ \A k \in 1..(from - 1) : s[k] = b[k]
    BY <1>2
  <2>2. Above(b, from) = Seam(s, TRUE)
    BY DEF Above
  <2> HIDE DEF s
  <2>3. /\ IsBody(Seam(s, TRUE)) /\ Len(Seam(s, TRUE)) \in Len(s)..(Len(s) + 1)
        /\ \A k \in 1..Len(s) : Seam(s, TRUE)[k] = s[k]
        /\ Len(Seam(s, TRUE)) # Len(s) => Seam(s, TRUE)[Len(s) + 1] = Blank
        /\ Parted(Seam(s, TRUE))
    BY <2>1, SeamLines
  <2>4. from - 1 + 1 = from /\ from # from - 1
    BY <1>1
  <2> QED
    BY <2>1, <2>2, <2>3, <2>4
<1>4. /\ IsBody(Lower(b, to)) /\ Len(Lower(b, to)) = Len(b) + 1 - to
      /\ Lower(b, to) # <<>> => Lower(b, to)[1] = b[to]
  <2>1. Len(b) \in 0..Len(b) /\ to <= Len(b) + 1
    BY <1>1
  <2>2. /\ IsList(Lower(b, to)) /\ Len(Lower(b, to)) = Len(b) + 1 - to
        /\ \A k \in 1..(Len(b) + 1 - to) : Lower(b, to)[k] = b[to + k - 1]
    BY <1>1, <2>1, PieceOfList DEF Lower
  <2>3. IsBody(Lower(b, to))
    BY <2>1, PiecesAreBodies DEF Lower
  <2>4. ASSUME Lower(b, to) # <<>>
        PROVE  Lower(b, to)[1] = b[to]
    <3>1. Len(Lower(b, to)) # 0
      BY <2>2, <2>4, EmptyLists
    <3>2. 1 \in 1..(Len(b) + 1 - to) /\ to + 1 - 1 = to
      BY <1>1, <2>2, <3>1
    <3> QED
      BY <2>2, <3>2
  <2> QED
    BY <2>2, <2>3, <2>4
<1>5. /\ Len(Upper(b, from, new)) = Len(Above(b, from)) + Len(new)
      /\ \A k \in 1..Len(Above(b, from)) : Upper(b, from, new)[k] = Above(b, from)[k]
      /\ \A k \in 1..Len(new) : Upper(b, from, new)[Len(Above(b, from)) + k] = new[k]
  <2>1. IsList(Above(b, from))
    BY <1>3 DEF IsBody
  <2> QED
    BY <1>1, <2>1, JoinedLists DEF Upper
<1>6. IsBody(Upper(b, from, new))
  BY <1>3, PiecesAreBodies DEF Upper, IsSection
<1> QED
  BY <1>3, <1>4, <1>5, <1>6

\* The splice of a section has three parts, of which the last does not begin with
\* the section's lines.
LEMMA SpliceParts ==
  ASSUME NEW b, IsBody(b), NEW from \in 1..(Len(b) + 1), NEW to \in 1..(Len(b) + 1),
         NEW new, IsSection(new)
  PROVE  LET upper == Upper(b, from, new)
             held == Held(b, from, to, new)
         IN /\ Splice(b, from, to, new) = held \o Lower(b, to)
            /\ Splice(b, from, to, new) = Join(upper, Lower(b, to))
            /\ IsBody(held) /\ Len(held) \in Len(upper)..(Len(upper) + 1)
            /\ \A k \in 1..Len(upper) : held[k] = upper[k]
            /\ Len(held) # Len(upper) => held[Len(upper) + 1] = Blank /\ Lower(b, to) # <<>>
<1> DEFINE upper == Upper(b, from, new)
           lower == Lower(b, to)
           held == Held(b, from, to, new)
           apart == (upper # <<>> /\ IsHeading(Last(upper))) \/ IsHeading(Head(lower))
<1>1. IsBody(upper) /\ IsBody(lower) /\ Len(upper) \in Nat
  <2>1. IsBody(upper) /\ IsBody(lower)
    BY PartsAreBodies
  <2> HIDE DEF upper
  <2> QED
    BY <2>1 DEF IsBody, IsList
<1>2. Join(SubSeq(b, 1, from - 1), new) = upper
  <2>1. new # <<>> /\ IsHeading(Head(new))
    BY DEF IsSection
  <2>2. \A s : Seam(s, (s # <<>> /\ IsHeading(Last(s))) \/ IsHeading(Head(new))) = Seam(s, TRUE)
    BY <2>1 DEF Seam
  <2> QED
    BY <2>1, <2>2 DEF Join, Upper, Above
<1>3. Splice(b, from, to, new) = Join(upper, lower)
  BY <1>2 DEF Splice, Lower
<1>4. held = IF lower = <<>> THEN upper ELSE Seam(upper, apart)
  BY DEF Held
<1>5. Join(upper, lower) = IF lower = <<>> THEN upper ELSE Seam(upper, apart) \o lower
  BY DEF Join
<1> HIDE DEF upper, lower, held, apart
<1>6. upper \o <<>> = upper
  <2>1. IsList(<<>>) /\ Len(<<>>) = 0 /\ IsList(upper)
    BY <1>1 DEF IsList, IsBody
  <2>2. IsList(upper \o <<>>) /\ Len(upper \o <<>>) = Len(upper) + 0
        /\ \A k \in 1..Len(upper) : (upper \o <<>>)[k] = upper[k]
    BY <2>1, JoinedLists
  <2> QED
    BY <1>1, <2>1, <2>2, SameLists
<1>7. Join(upper, lower) = held \o lower
  BY <1>4, <1>5, <1>6
<1>8. /\ IsBody(held) /\ Len(held) \in Len(upper)..(Len(upper) + 1)
      /\ \A k \in 1..Len(upper) : held[k] = upper[k]
      /\ Len(held) # Len(upper) => held[Len(upper) + 1] = Blank /\ lower # <<>>
  <2>1. CASE lower = <<>>
    BY <1>1, <1>4, <2>1
  <2>2. CASE lower # <<>>
    <3>1. held = Seam(upper, apart)
      BY <1>4, <2>2
    <3>2. /\ IsBody(Seam(upper, apart)) /\ Len(Seam(upper, apart)) \in Len(upper)..(Len(upper) + 1)
          /\ \A k \in 1..Len(upper) : Seam(upper, apart)[k] = upper[k]
          /\ Len(Seam(upper, apart)) # Len(upper) => Seam(upper, apart)[Len(upper) + 1] = Blank
      BY <1>1, SeamLines
    <3> QED
      BY <2>2, <3>1, <3>2
  <2> QED
    BY <2>1, <2>2
<1> QED
  BY <1>3, <1>7, <1>8 DEF upper, lower, held

\* The section spliced over itself changes nothing.
LEMMA SpliceAgain ==
  ASSUME NEW b, IsBody(b), NEW from \in 1..(Len(b) + 1), NEW to \in 1..(Len(b) + 1),
         NEW new, IsSection(new)
  PROVE  LET after == Splice(b, from, to, new) IN
         Splice(after, Len(Above(b, from)) + 1, Len(Held(b, from, to, new)) + 1, new) = after
<1> DEFINE after == Splice(b, from, to, new)
           above == Above(b, from)
           upper == Upper(b, from, new)
           lower == Lower(b, to)
           held == Held(b, from, to, new)
<1>1. /\ IsBody(above) /\ Parted(above) /\ IsBody(lower) /\ IsBody(upper)
      /\ Len(upper) = Len(above) + Len(new) /\ \A k \in 1..Len(above) : upper[k] = above[k]
  BY PartsAreBodies
<1>2. /\ after = held \o lower /\ after = Join(upper, lower)
      /\ IsBody(held) /\ Len(held) \in Len(upper)..(Len(upper) + 1)
      /\ \A k \in 1..Len(upper) : held[k] = upper[k]
  BY SpliceParts
<1>3. upper = above \o new
  BY DEF Upper
<1> HIDE DEF after, above, upper, lower, held
<1>4. /\ IsList(after) /\ Len(after) = Len(held) + Len(lower) /\ Len(held) \in Nat /\ Len(lower) \in Nat
      /\ \A k \in 1..Len(held) : after[k] = held[k]
      /\ \A k \in 1..Len(lower) : after[Len(held) + k] = lower[k]
  <2>1. IsList(held) /\ IsList(lower)
    BY <1>1, <1>2 DEF IsBody
  <2>2. /\ IsList(held \o lower) /\ Len(held \o lower) = Len(held) + Len(lower)
        /\ Len(held) \in Nat /\ Len(lower) \in Nat
        /\ \A k \in 1..Len(held) : (held \o lower)[k] = held[k]
        /\ \A k \in 1..Len(lower) : (held \o lower)[Len(held) + k] = lower[k]
    BY <2>1, JoinedLists
  <2>3. after = held \o lower
    BY <1>2
  <2> QED
    BY <2>2, <2>3, Zenon
<1>5. Len(above) \in Nat /\ Len(new) \in Nat /\ IsList(above) /\ IsList(lower)
  BY <1>1 DEF IsBody, IsSection, IsList
<1>6. SubSeq(after, 1, Len(above) + 1 - 1) = above
  <2> DEFINE n == Len(above) + 1 - 1
  <2>1. n = Len(above) /\ n \in 0..Len(after) /\ 1 \in 1..(Len(after) + 1) /\ 1 <= n + 1 /\ n + 1 - 1 = n
    BY <1>1, <1>2, <1>4, <1>5
  <2> HIDE DEF n
  <2>2. /\ IsList(SubSeq(after, 1, n)) /\ Len(SubSeq(after, 1, n)) = n
        /\ \A k \in 1..n : SubSeq(after, 1, n)[k] = after[1 + k - 1]
    <3>1. IsList(after)
      BY <1>4
    <3>2. /\ IsList(SubSeq(after, 1, n)) /\ Len(SubSeq(after, 1, n)) = n + 1 - 1
          /\ \A k \in 1..(n + 1 - 1) : SubSeq(after, 1, n)[k] = after[1 + k - 1]
      BY <2>1, <3>1, PieceOfList
    <3> QED
      BY <2>1, <3>2
  <2>3. ASSUME NEW k \in 1..n
        PROVE  SubSeq(after, 1, n)[k] = above[k]
    <3>1. 1 + k - 1 = k /\ k \in 1..Len(held) /\ k \in 1..Len(upper) /\ k \in 1..Len(above)
      BY <1>1, <1>2, <1>4, <1>5, <2>1
    <3>2. after[k] = held[k] /\ held[k] = upper[k] /\ upper[k] = above[k]
      BY <1>1, <1>2, <1>4, <3>1
    <3> QED
      BY <2>2, <3>1, <3>2
  <2> QED
    BY <1>5, <2>1, <2>2, <2>3, SameLists DEF n
<1>7. SubSeq(after, Len(held) + 1, Len(after)) = lower
  <2> DEFINE m == Len(held) + 1
             n == Len(after)
  <2>1. /\ m \in 1..(Len(after) + 1) /\ n \in 0..Len(after) /\ m <= n + 1 /\ n + 1 - m = Len(lower)
        /\ \A k \in 1..Len(lower) : m + k - 1 = Len(held) + k
    BY <1>4
  <2>2. /\ IsList(SubSeq(after, m, n)) /\ Len(SubSeq(after, m, n)) = n + 1 - m
        /\ \A k \in 1..(n + 1 - m) : SubSeq(after, m, n)[k] = after[m + k - 1]
    <3>1. IsList(after) /\ m \in 1..(Len(after) + 1) /\ n \in 0..Len(after) /\ m <= n + 1
      BY <1>4, <2>1
    <3> HIDE DEF m, n
    <3> QED
      BY <3>1, PieceOfList
  <2> HIDE DEF m, n
  <2>3. \A k \in 1..Len(lower) : SubSeq(after, m, n)[k] = lower[k]
    BY <1>4, <2>1, <2>2
  <2>4. SubSeq(after, m, n) = lower
    BY <1>5, <2>1, <2>2, <2>3, SameLists
  <2> QED
    BY <2>4 DEF m, n
<1>8. Join(above, new) = upper
  <2>1. new # <<>> /\ \A apart : Seam(above, apart) = above
    BY <1>1, SeamLines DEF IsSection
  <2> QED
    BY <1>3, <2>1 DEF Join
<1>9. Splice(after, Len(above) + 1, Len(held) + 1, new) = after
  <2>1. Join(upper, lower) = after
    BY <1>2
  <2>2. Splice(after, Len(above) + 1, Len(held) + 1, new)
          = Join(Join(SubSeq(after, 1, Len(above) + 1 - 1), new), SubSeq(after, Len(held) + 1, Len(after)))
    BY DEF Splice
  <2>3. Splice(after, Len(above) + 1, Len(held) + 1, new) = Join(Join(above, new), lower)
    BY <1>6, <1>7, <2>2
  <2> QED
    BY <1>8, <2>1, <2>3
<1> QED
  BY <1>9 DEF after, above, held

\* Where an upsert writes, and what it makes of the body.
UpsertFrom(b, o) == IF At(b, o.path) # {} THEN From(First(b, o.path)) ELSE Len(b) + 1
UpsertTo(b, o) == IF At(b, o.path) # {} THEN To(b, First(b, o.path)) ELSE Len(b) + 1
AfterUpsert(b, o) == Splice(b, UpsertFrom(b, o), UpsertTo(b, o), NewSection(o))
Written(b, o) == Min({i \in Headed(AfterUpsert(b, o)) : i >= UpsertFrom(b, o)})
Accepted(b, o) ==
  /\ LevelOk(o) /\ o.path # Preamble
  /\ Paths(AfterUpsert(b, o))[Written(b, o)] = o.path
  /\ To(AfterUpsert(b, o), Written(b, o)) - Written(b, o) >= Len(NewSection(o))

LEMMA UpsertIs ==
  ASSUME NEW b, NEW o
  PROVE  /\ Upsert(b, o) = IF Accepted(b, o) THEN Done(AfterUpsert(b, o)) ELSE Refused(b)
         /\ Upsert(b, o).ok <=> Accepted(b, o)
<1>1. Upsert(b, o) = IF Accepted(b, o) THEN Done(AfterUpsert(b, o)) ELSE Refused(b)
  BY DEF Upsert, Accepted, Written, AfterUpsert, UpsertTo, UpsertFrom
<1>2. Done(AfterUpsert(b, o)).ok = TRUE /\ Refused(b).ok = FALSE
  BY DEF Done, Refused
<1> QED
  BY <1>1, <1>2

\* The first heading from the place of the section on is its own.
LEMMA UpsertWrites ==
  ASSUME NEW b, IsBody(b), NEW o, IsOp(o), o.op = "upsert", LevelOk(o), o.path # Preamble,
         Paths(AfterUpsert(b, o))[Written(b, o)] = o.path
  PROVE  LET after == AfterUpsert(b, o)
             w == Len(Above(b, UpsertFrom(b, o))) + 1
         IN /\ IsBody(after) /\ IsSection(NewSection(o))
            /\ UpsertFrom(b, o) \in 1..(Len(b) + 1) /\ UpsertTo(b, o) \in 1..(Len(b) + 1)
            /\ w \in Outline(after) /\ after[w].level = o.level
            /\ Written(b, o) = w /\ Min({i \in Headed(after) : i >= w}) = w
            /\ At(after, o.path) # {} /\ First(after, o.path) = w
<1> DEFINE new == NewSection(o)
           from == UpsertFrom(b, o)
           to == UpsertTo(b, o)
           after == AfterUpsert(b, o)
           above == Above(b, from)
           upper == Upper(b, from, new)
           lower == Lower(b, to)
           held == Held(b, from, to, new)
           w == Len(above) + 1
<1>1. Len(b) \in Nat /\ DOMAIN b = 1..Len(b) /\ Headed(b) \subseteq 1..Len(b)
  BY BodyParts
<1>2. from \in 1..(Len(b) + 1) /\ to \in 1..(Len(b) + 1)
  <2>1. At(b, o.path) # {} => First(b, o.path) \in {0} \union Headed(b)
    BY FirstIsThere
  <2>2. Len(b) + 1 \in 1..(Len(b) + 1)
    BY <1>1
  <2> QED
    BY <2>1, <2>2, SectionBounds DEF UpsertFrom, UpsertTo
<1>3. IsSection(new) /\ Len(new) \in Nat \ {0} /\ new[1] = Heading(o.level, o.name)
  <2>1. IsBody(new)
    BY NewSectionsAreBodies
  <2>2. IsList(<<Heading(o.level, o.name)>>) /\ Len(<<Heading(o.level, o.name)>>) = 1
        /\ <<Heading(o.level, o.name)>>[1] = Heading(o.level, o.name)
    BY DEF IsList
  <2> DEFINE rest == IF o.text = <<>> THEN <<>> ELSE <<Blank>> \o o.text
  <2>3. IsList(rest)
    <3>1. IsList(<<>>) /\ IsList(<<Blank>>) /\ IsList(o.text)
      BY DEF IsList, IsOp, IsBody
    <3> QED
      BY <3>1, JoinedLists
  <2>4. new = <<Heading(o.level, o.name)>> \o rest
    BY DEF NewSection
  <2> HIDE DEF rest, new
  <2> DEFINE head == <<Heading(o.level, o.name)>>
  <2>5. Len(head \o rest) = Len(head) + Len(rest) /\ Len(rest) \in Nat /\ 1 \in 1..Len(head)
        /\ (head \o rest)[1] = head[1]
    <3> HIDE DEF head
    <3>1. IsList(head) /\ Len(head) = 1
      BY <2>2 DEF head
    <3>2. 1 \in 1..Len(head)
      BY <3>1
    <3>3. Len(head \o rest) = Len(head) + Len(rest) /\ Len(rest) \in Nat
      BY <2>3, <3>1, JoinedLists
    <3>4. \A k \in 1..Len(head) : (head \o rest)[k] = head[k]
      BY <2>3, <3>1, JoinedLists
    <3> QED
      BY <3>2, <3>3, <3>4
  <2>6. Len(new) \in Nat \ {0} /\ new[1] = Heading(o.level, o.name)
    BY <2>2, <2>4, <2>5
  <2>7. new # <<>> /\ Head(new) = new[1]
    <3>1. IsList(new)
      BY <2>1 DEF IsBody
    <3>2. new # <<>>
      BY <2>6, <3>1, EmptyLists
    <3> QED
      BY <3>2
  <2> QED
    BY <2>1, <2>6, <2>7 DEF IsSection, IsHeading, Heading
<1>4. IsBody(after)
  BY <1>2, <1>3, SplicesAreBodies DEF AfterUpsert, IsSection
<1>5. after = Splice(b, from, to, new)
  BY DEF AfterUpsert
<1> HIDE DEF new, from, to, after
<1>6. /\ IsBody(above) /\ Len(above) \in (from - 1)..from
      /\ \A k \in 1..(from - 1) : above[k] = b[k]
      /\ Len(above) = from => above[from] = Blank
      /\ IsBody(upper) /\ Len(upper) = Len(above) + Len(new)
      /\ \A k \in 1..Len(above) : upper[k] = above[k]
      /\ \A k \in 1..Len(new) : upper[Len(above) + k] = new[k]
      /\ IsBody(lower)
  <2>1. IsSection(new)
    BY <1>3
  <2> QED
    <3> HIDE DEF above, upper, lower, held, w
    <3>1. /\ IsBody(Above(b, from)) /\ Len(Above(b, from)) \in (from - 1)..from
          /\ \A k \in 1..(from - 1) : Above(b, from)[k] = b[k]
          /\ Len(Above(b, from)) = from => Above(b, from)[from] = Blank
          /\ IsBody(Lower(b, to))
      BY <1>2, <2>1, PartsAreBodies
    <3>2. IsBody(Upper(b, from, new)) /\ Len(Upper(b, from, new)) = Len(Above(b, from)) + Len(new)
      BY <1>2, <2>1, PartsAreBodies
    <3>3. \A k \in 1..Len(Above(b, from)) : Upper(b, from, new)[k] = Above(b, from)[k]
      BY <1>2, <2>1, PartsAreBodies
    <3>4. \A k \in 1..Len(new) : Upper(b, from, new)[Len(Above(b, from)) + k] = new[k]
      BY <1>2, <2>1, PartsAreBodies
    <3> QED
      BY <3>1, <3>2, <3>3, <3>4 DEF above, upper, lower
<1>7. /\ after = held \o lower /\ IsBody(held) /\ Len(held) \in Len(upper)..(Len(upper) + 1)
      /\ \A k \in 1..Len(upper) : held[k] = upper[k]
  <2>1. IsSection(new)
    BY <1>3
  <2> QED
    <3> HIDE DEF above, upper, lower, held, w
    <3>1. LET u == Upper(b, from, new)
              h == Held(b, from, to, new)
          IN /\ Splice(b, from, to, new) = h \o Lower(b, to)
             /\ IsBody(h) /\ Len(h) \in Len(u)..(Len(u) + 1)
             /\ \A k \in 1..Len(u) : h[k] = u[k]
      BY <1>2, <2>1, SpliceParts
    <3> QED
      BY <1>5, <3>1 DEF held, upper, lower
<1> HIDE DEF above, upper, lower, held
<1>8. /\ Len(after) = Len(held) + Len(lower) /\ Len(held) \in Nat /\ Len(lower) \in Nat
      /\ \A k \in 1..Len(held) : after[k] = held[k]
  <2>1. IsList(held) /\ IsList(lower)
    BY <1>6, <1>7 DEF IsBody
  <2>2. /\ Len(held \o lower) = Len(held) + Len(lower)
        /\ Len(held) \in Nat /\ Len(lower) \in Nat
    BY <2>1, JoinedLists DEF IsList
  <2>3. ASSUME NEW k \in 1..Len(held) PROVE (held \o lower)[k] = held[k]
    BY <2>1, JoinedLists
  <2>4. after = held \o lower
    BY <1>7
  <2> QED
    BY <2>2, <2>4, <2>3, Zenon
<1>9. w \in 1..Len(after) /\ w \in from..(from + 1) /\ from \in Nat /\ from - 1 <= Len(after)
  BY <1>2, <1>1, <1>3, <1>6, <1>7, <1>8
<1>10. \A k \in 1..(from - 1) : after[k] = b[k]
  <2> SUFFICES ASSUME NEW k \in 1..(from - 1) PROVE after[k] = b[k]
    OBVIOUS
  <2>1. k \in 1..Len(above) /\ k \in 1..Len(upper) /\ k \in 1..Len(held)
    BY <1>2, <1>1, <1>3, <1>6, <1>7, <1>8
  <2> QED
    BY <1>6, <1>7, <1>8, <2>1
<1>11. w # from => after[from] = Blank
  <2> SUFFICES ASSUME w # from PROVE after[from] = Blank
    OBVIOUS
  <2>1. Len(above) = from /\ from \in 1..Len(above) /\ from \in 1..Len(upper) /\ from \in 1..Len(held)
    BY <1>2, <1>1, <1>3, <1>6, <1>7, <1>8
  <2> QED
    BY <1>6, <1>7, <1>8, <2>1
<1>12. after[w] = Heading(o.level, o.name)
  <2>1. w \in 1..Len(upper) /\ w \in 1..Len(held) /\ 1 \in 1..Len(new)
    BY <1>2, <1>1, <1>3, <1>6, <1>7, <1>8
  <2>2. upper[w] = new[1]
    BY <1>6, <2>1
  <2> QED
    BY <1>3, <1>7, <1>8, <2>1, <2>2
<1>13. DOMAIN after = 1..Len(after) /\ Len(after) \in Nat /\ Headed(after) \subseteq 1..Len(after)
  BY <1>4, BodyParts
<1>14. w \in Outline(after) /\ w \in Headed(after) /\ after[w].level = o.level
  BY <1>9, <1>12, <1>13 DEF Outline, Headed, Heading
<1> HIDE DEF w
<1>15. ASSUME NEW i \in Headed(after), i < w
       PROVE  i \in 1..(from - 1)
  <2>1. i \in 1..Len(after) /\ i <= from
    BY <1>9, <1>13, <1>15
  <2>2. i # from
    <3>1. Blank.kind = "blank"
      BY DEF Blank
    <3>2. after[i].kind # "blank"
      BY DEF Headed
    <3> QED
      BY <1>9, <1>11, <1>15, <3>1, <3>2
  <2> QED
    BY <1>9, <2>1, <2>2
<1>16. ASSUME NEW n \in Nat, from <= n, n <= w
       PROVE  Min({i \in Headed(after) : i >= n}) = w
  <2> DEFINE S == {i \in Headed(after) : i >= n}
  <2>1. S \subseteq Nat /\ w \in S /\ S # {}
    BY <1>9, <1>13, <1>14, <1>16
  <2>2. \A i \in S : w <= i
    BY <1>9, <1>13, <1>15, <1>16
  <2> HIDE DEF S
  <2>3. Min(S) \in S /\ \A i \in S : Min(S) <= i
    BY <2>1, MinIsLeast
  <2>4. Min(S) \in Nat /\ w \in Nat /\ w <= Min(S) /\ Min(S) <= w
    BY <2>1, <2>2, <2>3
  <2>5. Min(S) = w
    BY <2>4
  <2> QED
    BY <2>5 DEF S
<1>17. Written(b, o) = w
  BY <1>9, <1>16 DEF Written, from, after
<1>18. Min({i \in Headed(after) : i >= w}) = w
  BY <1>9, <1>16
<1>19. w \in At(after, o.path)
  <2>1. Paths(after)[w] = o.path /\ w # 0
    BY <1>9, <1>17 DEF after
  <2> QED
    BY <1>14, <2>1 DEF At
<1>20. First(after, o.path) = w
  <2>1. First(after, o.path) \in At(after, o.path) /\ \A i \in At(after, o.path) : First(after, o.path) <= i
    <3>1. At(after, o.path) \subseteq Nat
      BY <1>13 DEF At
    <3> QED
      BY <1>19, <3>1, MinIsLeast DEF First
  <2> SUFFICES ASSUME NEW i \in At(after, o.path), i < w PROVE FALSE
    BY <1>9, <1>13, <1>19, <2>1 DEF At
  <2>2. i \in Headed(after) /\ Paths(after)[i] = o.path
    BY DEF At
  <2>3. i \in 1..(from - 1)
    BY <1>15, <2>2
  <2>4. i \in Headed(b) /\ Paths(b)[i] = o.path
    <3>1. from - 1 \in Nat /\ from - 1 <= Len(b) /\ from - 1 <= Len(after)
      BY <1>1, <1>2, <1>9
    <3>2. \A k \in 1..(from - 1) : b[k] = after[k]
      BY <1>10
    <3>3. /\ i \in Headed(b) <=> i \in Headed(after)
          /\ i \in Headed(b) => Paths(b)[i] = Paths(after)[i]
      <4> DEFINE n == from - 1
      <4>1. n \in Nat /\ n <= Len(b) /\ n <= Len(after) /\ (\A k \in 1..n : b[k] = after[k]) /\ i \in 1..n
        BY <2>3, <3>1, <3>2
      <4> HIDE DEF n
      <4> QED
        BY <1>4, <4>1, SamePrefix
    <3> QED
      BY <2>2, <3>3
  <2>5. i \in At(b, o.path)
    BY <1>1, <2>4 DEF At
  <2>6. First(b, o.path) \in At(b, o.path) /\ First(b, o.path) <= i
    <3>1. At(b, o.path) \subseteq Nat /\ At(b, o.path) # {}
      BY <1>1, <2>5 DEF At
    <3> QED
      BY <2>5, <3>1, MinIsLeast DEF First
  <2>7. First(b, o.path) # 0
    BY <2>6 DEF At
  <2>8. from = First(b, o.path)
    BY <2>5, <2>7 DEF from, UpsertFrom, From
  <2> QED
    BY <1>2, <2>3, <2>6, <2>8
<1> QED
  BY <1>2, <1>3, <1>4, <1>14, <1>17, <1>18, <1>19, <1>20 DEF w, after, from, to, new, above

\* What follows the section in the body does not become part of it, unless the
\* section is lifted.
LEMMA SectionEnds ==
  ASSUME NEW b, IsBody(b), NEW o, IsOp(o), o.op = "upsert", Accepted(b, o), ~Lifts(b, o)
  PROVE  To(AfterUpsert(b, o), Written(b, o)) = Len(Held(b, UpsertFrom(b, o), UpsertTo(b, o), NewSection(o))) + 1
<1> DEFINE new == NewSection(o)
           from == UpsertFrom(b, o)
           to == UpsertTo(b, o)
           after == AfterUpsert(b, o)
           upper == Upper(b, from, new)
           lower == Lower(b, to)
           held == Held(b, from, to, new)
           w == Written(b, o)
           t == To(after, w)
           e == Len(held) + 1
<1>1. Len(b) \in Nat /\ Headed(b) \subseteq 1..Len(b) /\ \A i \in 1..Len(b) : b[i].level \in Nat
  BY BodyParts
<1>2. /\ LevelOk(o) /\ o.path # Preamble /\ Paths(after)[w] = o.path
      /\ t - w >= Len(new)
  BY DEF Accepted
<1>3. /\ IsBody(after) /\ IsSection(new) /\ from \in 1..(Len(b) + 1) /\ to \in 1..(Len(b) + 1)
      /\ w \in Outline(after) /\ after[w].level = o.level /\ w = Len(Above(b, from)) + 1
  <2>1. LevelOk(o) /\ o.path # Preamble /\ Paths(AfterUpsert(b, o))[Written(b, o)] = o.path
    BY <1>2
  <2> HIDE DEF new, from, to, after, w, t, upper, lower, held
  <2>2. /\ IsBody(AfterUpsert(b, o)) /\ IsSection(NewSection(o))
        /\ UpsertFrom(b, o) \in 1..(Len(b) + 1) /\ UpsertTo(b, o) \in 1..(Len(b) + 1)
        /\ Len(Above(b, UpsertFrom(b, o))) + 1 \in Outline(AfterUpsert(b, o))
        /\ AfterUpsert(b, o)[Len(Above(b, UpsertFrom(b, o))) + 1].level = o.level
        /\ Written(b, o) = Len(Above(b, UpsertFrom(b, o))) + 1
    BY <2>1, UpsertWrites
  <2> QED
    BY <2>2 DEF new, from, to, after, w
<1>4. after = Splice(b, from, to, new)
  BY DEF AfterUpsert
<1> HIDE DEF new, from, to, after, w
<1>5. /\ Len(upper) = Len(Above(b, from)) + Len(new)
      /\ IsBody(lower) /\ Len(lower) = Len(b) + 1 - to /\ (lower # <<>> => lower[1] = b[to])
      /\ IsBody(Above(b, from))
  BY <1>3, PartsAreBodies
<1>6. IsBody(new)
  BY <1>3 DEF IsSection
<1>7. /\ after = held \o lower /\ IsBody(held) /\ Len(held) \in Len(upper)..(Len(upper) + 1)
      /\ Len(held) # Len(upper) => held[Len(upper) + 1] = Blank /\ lower # <<>>
  BY <1>3, <1>4, SpliceParts
<1> HIDE DEF upper, lower, held
<1>8. /\ Len(after) = Len(held) + Len(lower) /\ Len(held) \in Nat /\ Len(lower) \in Nat
      /\ \A k \in 1..Len(held) : after[k] = held[k]
      /\ \A k \in 1..Len(lower) : after[Len(held) + k] = lower[k]
  <2>1. IsList(held) /\ IsList(lower)
    BY <1>5, <1>7 DEF IsBody
  <2>2. /\ Len(held \o lower) = Len(held) + Len(lower)
        /\ Len(held) \in Nat /\ Len(lower) \in Nat
    BY <2>1, JoinedLists DEF IsList
  <2>3. ASSUME NEW k \in 1..Len(held) PROVE (held \o lower)[k] = held[k]
    BY <2>1, JoinedLists
  <2>4. ASSUME NEW k \in 1..Len(lower) PROVE (held \o lower)[Len(held) + k] = lower[k]
    BY <2>1, JoinedLists
  <2>5. after = held \o lower
    BY <1>7
  <2> QED
    BY <2>2, <2>5, <2>3, <2>4, Zenon
<1>9. Len(new) \in Nat /\ Len(Above(b, from)) \in Nat /\ (lower # <<>> => Len(lower) # 0)
  BY <1>5, <1>6, EmptyLists DEF IsBody, IsList
<1>10. /\ t \in {Len(after) + 1} \union Ends(after, w) /\ \A x \in Ends(after, w) : t <= x
      /\ t <= Len(after) + 1 /\ Ends(after, w) \subseteq 1..Len(after)
      /\ DOMAIN after = 1..Len(after)
  <2> DEFINE S == {Len(after) + 1} \union Ends(after, w)
  <2>1. Len(after) \in Nat /\ DOMAIN after = 1..Len(after) /\ Headed(after) \subseteq 1..Len(after)
    BY <1>3, BodyParts
  <2>2. S \subseteq Nat /\ S # {} /\ Ends(after, w) \subseteq 1..Len(after)
    BY <2>1 DEF Ends
  <2>3. t = Min(S)
    BY DEF To, Ends
  <2>4. Min(S) \in S /\ \A x \in S : Min(S) <= x
    <3> HIDE DEF S
    <3> QED
      BY <2>2, MinIsLeast
  <2> QED
    BY <2>1, <2>2, <2>3, <2>4
<1> HIDE DEF t
<1>11. Len(new) # 0
  BY <1>3, <1>6, EmptyLists DEF IsSection, IsBody
<1>12. t >= Len(upper) + 1 /\ t \in Nat
  BY <1>2, <1>3, <1>5, <1>8, <1>9, <1>10
\* The blank line before the next heading is no heading.
<1>13. t >= e
  <2> SUFFICES ASSUME Len(held) # Len(upper), t = Len(upper) + 1 PROVE FALSE
    BY <1>5, <1>7, <1>9, <1>12
  <2>1. Len(held) = Len(upper) + 1 /\ lower # <<>> /\ held[t] = Blank /\ t \in 1..Len(held)
    BY <1>5, <1>7, <1>9
  <2>2. after[t] = Blank /\ t # Len(after) + 1
    BY <1>8, <1>9, <2>1
  <2>3. t \in Headed(after)
    BY <1>10, <2>2 DEF Ends
  <2> QED
    BY <2>2, <2>3 DEF Headed, Blank
<1>14. t <= e
  <2>1. CASE lower = <<>>
    <3>1. Len(lower) = 0
      BY <2>1
    <3> QED
      BY <1>8, <1>10, <3>1
  <2>2. CASE lower # <<>>
    <3> DEFINE F == First(b, o.path)
    <3>1. Len(lower) # 0 /\ to # Len(b) + 1
      BY <1>1, <1>3, <1>5, <1>9, <2>2
    <3>2. At(b, o.path) # {} /\ to = To(b, F)
      BY <3>1 DEF to, UpsertTo
    <3>3. F \in Outline(b) /\ ~(o.level < b[F].level)
      BY <3>2 DEF Lifts
    <3>4. to \in Ends(b, F)
      <4> DEFINE S == {Len(b) + 1} \union Ends(b, F)
      <4>1. S \subseteq Nat /\ S # {}
        BY <1>1 DEF Ends
      <4>2. to = Min(S)
        BY <3>2 DEF To, Ends
      <4>3. Min(S) \in S
        <5> HIDE DEF S
        <5> QED
          BY <4>1, MinIsLeast
      <4> QED
        BY <3>1, <4>2, <4>3
    <3>5. to \in Outline(b) /\ b[to].level <= b[F].level
      BY <3>3, <3>4 DEF Ends
    <3>6. after[e] = b[to] /\ e \in 1..Len(after)
      <4>1. 1 \in 1..Len(lower)
        BY <1>8, <3>1
      <4> QED
        BY <1>5, <1>8, <2>2, <4>1
    <3>7. e \in Outline(after) /\ e \in Headed(after)
      BY <1>10, <3>5, <3>6 DEF Outline, Headed
    <3>8. after[e].level <= after[w].level
      <4>1. F \in 1..Len(b) /\ to \in 1..Len(b)
        BY <1>1, <3>3, <3>5 DEF Outline, Headed
      <4>2. b[F].level \in Nat /\ b[to].level \in Nat /\ o.level \in Nat
        BY <1>1, <1>2, <4>1 DEF LevelOk
      <4> HIDE DEF F
      <4> QED
        BY <1>3, <3>3, <3>5, <3>6, <4>2
    <3>9. e > w
      BY <1>3, <1>5, <1>7, <1>9, <1>11
    <3>10. e \in Ends(after, w)
      BY <3>7, <3>8, <3>9 DEF Ends
    <3> QED
      BY <1>10, <3>10
  <2> QED
    BY <2>1, <2>2
<1>15. t = e
  BY <1>8, <1>12, <1>13, <1>14
<1> QED
  BY <1>15 DEF t, after, w, held, from, to, new

\* An upsert that went through finds what it wrote, and writes it again.
LEMMA UpsertRepeats ==
  ASSUME NEW b, IsBody(b), NEW o, IsOp(o), o.op = "upsert", Upsert(b, o).ok, ~Lifts(b, o)
  PROVE  Upsert(Upsert(b, o).body, o) = Upsert(b, o)
<1> DEFINE after == AfterUpsert(b, o)
           w == Written(b, o)
<1>1. Accepted(b, o) /\ Upsert(b, o) = Done(after)
  BY UpsertIs
<1>2. Upsert(b, o).body = after
  BY <1>1 DEF Done
<1>3. /\ IsBody(after) /\ IsSection(NewSection(o))
      /\ UpsertFrom(b, o) \in 1..(Len(b) + 1) /\ UpsertTo(b, o) \in 1..(Len(b) + 1)
      /\ w = Len(Above(b, UpsertFrom(b, o))) + 1 /\ w \in Outline(after)
      /\ Min({i \in Headed(after) : i >= w}) = w
      /\ At(after, o.path) # {} /\ First(after, o.path) = w
  BY <1>1, UpsertWrites DEF Accepted
<1>4. To(after, w) = Len(Held(b, UpsertFrom(b, o), UpsertTo(b, o), NewSection(o))) + 1
  BY <1>1, SectionEnds
<1>5. Splice(after, w, To(after, w), NewSection(o)) = after
  BY <1>3, <1>4, SpliceAgain DEF AfterUpsert
<1> HIDE DEF after, w
<1>6. UpsertFrom(after, o) = w /\ UpsertTo(after, o) = To(after, w)
  <2>1. w # 0
    BY <1>3, BodyParts
  <2> QED
    BY <1>3, <2>1 DEF UpsertFrom, UpsertTo, From
<1>7. AfterUpsert(after, o) = after
  BY <1>5, <1>6 DEF AfterUpsert
<1>8. Written(after, o) = w
  BY <1>3, <1>6, <1>7 DEF Written
<1>9. Accepted(after, o)
  <2>1. /\ LevelOk(o) /\ o.path # Preamble /\ Paths(after)[w] = o.path
        /\ To(after, w) - w >= Len(NewSection(o))
    BY <1>1 DEF Accepted, after, w
  <2> QED
    BY <1>7, <1>8, <2>1 DEF Accepted
<1>10. Upsert(after, o) = Done(after)
  BY <1>7, <1>9, UpsertIs
<1> QED
  BY <1>1, <1>2, <1>10 DEF after

-----------------------------------------------------------------------------
(* Every body that edits reach.                                            *)

BodyInv ==
  /\ IsBody(body) /\ IsBody(draft)
  /\ IsList(todo) /\ \A i \in DOMAIN todo : IsOp(todo[i])
  /\ todo = <<>> => draft = body

LEMMA BodyStart == BodyInit => BodyInv
<1>1. IsList(<<>>) /\ DOMAIN <<>> = {}
  BY DEF IsList
<1> QED
  BY <1>1, BodiesAssumption DEF BodyInit, BodyInv

LEMMA BodyStep == BodyInv /\ [BodyNext]_bodyVars => BodyInv'
<1> SUFFICES ASSUME BodyInv, [BodyNext]_bodyVars PROVE BodyInv'
  OBVIOUS
<1>1. IsList(<<>>) /\ DOMAIN <<>> = {}
  BY DEF IsList
<1>2. CASE UNCHANGED bodyVars
  BY <1>2 DEF BodyInv, bodyVars
<1>3. ASSUME NEW ops \in Batches, BeginEdit(ops)
      PROVE  BodyInv'
  BY <1>3, BodiesAssumption DEF BodyInv, BeginEdit
<1>4. CASE ApplyNext
  <2> DEFINE o == Head(todo)
             r == ApplyOne(draft, o)
  <2>1. todo # <<>> /\ IsList(todo) /\ \A i \in DOMAIN todo : IsOp(todo[i])
    BY <1>4 DEF ApplyNext, BodyInv
  <2>2. IsOp(o) /\ IsList(Tail(todo)) /\ \A i \in DOMAIN Tail(todo) : IsOp(Tail(todo)[i])
    <3> DEFINE T == {todo[k] : k \in 1..Len(todo)}
    <3>1. todo \in Seq(T) /\ \A x \in T : IsOp(x)
      BY <2>1, ListsAreSequences
    <3> HIDE DEF T
    <3>2. Head(todo) \in T /\ Tail(todo) \in Seq(T)
      BY <2>1, <3>1, HeadTailProperties
    <3> QED
      BY <3>1, <3>2, ListsAreSequences
  <2>3. IsBody(r.body)
    BY <2>2, EditsAreBodies DEF BodyInv
  <2>4. \/ draft' = r.body /\ todo' = Tail(todo) /\ body' = IF Tail(todo) = <<>> THEN r.body ELSE body
        \/ draft' = body /\ todo' = <<>> /\ body' = body
    BY <1>4 DEF ApplyNext
  <2> HIDE DEF r, o
  <2> QED
    BY <1>1, <2>2, <2>3, <2>4 DEF BodyInv
<1> QED
  BY <1>2, <1>3, <1>4 DEF BodyNext

\* Whatever list of edits is applied, to whatever body: what the parser gives
\* paths to and what the edits take for a section are the same (body.rs,
\* memory_ops.rs).
THEOREM PathsDoNameSections == BodySpec => []PathsNameSections
<1>1. ASSUME BodyInv PROVE PathsNameSections
  <2>1. \A i \in Headed(body) : Plain(body) =>
          /\ At(body, Paths(body)[i]) = {i}
          /\ i \in Outline(body) =>
               {k \in Headed(body) : i <= k /\ k < To(body, i)}
                 = {k \in Headed(body) : IsPrefix(Paths(body)[i], Paths(body)[k])}
    BY <1>1, SectionsAreNamed DEF BodyInv
  <2> QED
    BY <2>1 DEF PathsNameSections
<1> QED
  BY <1>1, BodyStart, BodyStep, PTL DEF BodySpec

\* A body stays a sequence of lines under every list of edits, and a list that
\* was refused leaves no draft (memory_ops.rs, apply_ops).
THEOREM BodyTypeCorrect == BodySpec => []BodyTypeOK
<1>1. BodyInv => BodyTypeOK
  BY DEF BodyInv, BodyTypeOK, IsBody
<1> QED
  BY <1>1, BodyStart, BodyStep, PTL DEF BodySpec

\* An upsert that was accepted on a body that edits reach, sent again, changes
\* nothing (memory_ops.rs, upsert and its check of the written section).
THEOREM UpsertsSettle == BodySpec => []UpsertSettles
<1>1. BodyInv => UpsertSettles
  BY UpsertRepeats, BodiesAssumption DEF BodyInv, UpsertSettles
<1> QED
  BY <1>1, BodyStart, BodyStep, PTL DEF BodySpec
=============================================================================
