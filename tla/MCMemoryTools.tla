---------------------------- MODULE MCMemoryTools ----------------------------
(* Model-checking instances of MemoryTools: three calls on a group with two *)
(* slugs, two memory ids and one name that is no id.                        *)
EXTENDS MemoryTools, TLC

CONSTANTS t1, t2, t3, s1, s2, i1, i2, n1

MCTasks == {t1, t2, t3}
MCPaths == Slugs \X (Ids \union Names)
MCContents == [id : Ids \union {NoId}, by : SUBSET MCTasks]
MCSymmetry == Permutations(MCTasks)

\* Files that are named after the ids inside them.
Plain == {[p \in P |-> Content(p[2], {})] : P \in SUBSET (Slugs \X Ids)}
PlainFiles == {<<p, p[2]>> : p \in Slugs \X Ids}

\* Files that are not: one alone, beside the file that has its id, made by
\* hand, and without an id.
Drifted ==
  {[p \in {<<s1, i1>>} |-> Content(i2, {})],
   [p \in {<<s1, i1>>, <<s2, i2>>} |-> Content(i2, {})],
   [p \in {<<s1, n1>>} |-> Content(i2, {})],
   [p \in {<<s1, i1>>} |-> Content(NoId, {})]}

MCSeeds == Plain \union Drifted
MCSent == PlainFiles \union {<<<<s1, i1>>, i2>>}

\* Every tool, with the addresses by slug, by id and by both.
AnyCall ==
  [t \in MCTasks |->
     {WriteCall(s1, i1, FALSE), WriteCall(s2, i2, TRUE),
      EditCall(s1, NoId, FALSE), EditCall(NoSlug, i2, FALSE), EditCall(s1, i1, FALSE), EditCall(s1, i1, TRUE),
      DeleteCall(s1, i1), DeleteCall(s2, NoId),
      MoveCall(s1, NoId, s2), MoveCall(NoSlug, i2, s1), MoveCall(NoSlug, i2, s2),
      PullCall}]

\* Calls that do not bring a memory to a second slug by themselves.
OneSlugPerMemory ==
  [t \in MCTasks |->
     {EditCall(s1, i1, FALSE), EditCall(s1, NoId, FALSE), EditCall(NoSlug, i2, FALSE),
      DeleteCall(s1, i1), MoveCall(s1, i1, s2)}]
=============================================================================
