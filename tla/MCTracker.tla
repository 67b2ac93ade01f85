------------------------------ MODULE MCTracker ------------------------------
(* Model-checking instances of Tracker: three calls on a group with two      *)
(* slugs, two tickets of its own, and the tickets the calls mint.            *)
EXTENDS Tracker, TLC

CONSTANTS t1, t2, t3, s1, s2, i1, i2

MCTasks == {t1, t2, t3}
MCIds == {i1, i2} \union MCTasks
MCPaths == Slugs \X MCIds
MCContents == Tickets
MCSymmetry == Permutations(MCTasks)

Ticket(k, n) ==
  [kind |-> k, number |-> n, status |-> "open", successor |-> NoId, applied |-> {}]

\* An empty group; one milestone; one feature; a feature and the last issue the counter can
\* give; two features under one slug; a feature superseded by another.
MCSeeds ==
  {<<>>,
   <<s1, i1>> :> Ticket("milestone", 0),
   <<s1, i1>> :> Ticket("feature", 1),
   <<s1, i1>> :> Ticket("feature", 0) @@ <<s2, i2>> :> Ticket("issue", MaxNumber),
   <<s1, i1>> :> Ticket("feature", 1) @@ <<s1, i2>> :> Ticket("feature", 2),
   <<s1, i1>> :> [Ticket("feature", 1) EXCEPT !.status = "superseded", !.successor = i2]
     @@ <<s2, i2>> :> Ticket("feature", 2)}

LocalCalls ==
  {AddCall("feature", s1, NoSlug, "open"), AddCall("issue", s2, NoSlug, "open"),
   AddCall("feature", s2, s1, "open"), AddCall("feature", s1, s1, "open"),
   UpdateCall("feature", s1, "keep", NoId), UpdateCall("feature", s1, "open", NoId),
   UpdateCall("feature", s1, "superseded", i2),
   RenameCall("feature", s1, s2), RenameCall("issue", s2, s2),
   DeleteCall("feature", s1),
   AddCall("milestone", s1, NoSlug, "open"), UpdateCall("milestone", s1, "keep", NoId)}

AnyCall == [t \in MCTasks |-> LocalCalls \union {PullCall}]

\* A create beside a pull.
CreateAndPull ==
  [t \in MCTasks |-> {AddCall("feature", s1, NoSlug, "open"), PullCall}]

\* The statuses add_feature accepts from a caller.
AnyStatus ==
  [t \in MCTasks |-> {AddCall("feature", s1, NoSlug, st) : st \in Statuses}
                       \union {AddCall("feature", s2, s1, "open")}]
=============================================================================
