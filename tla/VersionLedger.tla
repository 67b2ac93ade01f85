----------------------------- MODULE VersionLedger -----------------------------
(***************************************************************************)
(* The version ledger of the server (post_push in                          *)
(* crates/mmcp-server/src/routes/sync.rs): rows of memories with the last  *)
(* version of each, rows of published versions, and the tags of the        *)
(* groups' repositories.  A push is several statements without a           *)
(* transaction; each may fail, and several pushes are under way at once.   *)
(***************************************************************************)
EXTENDS Naturals, Sequences

CONSTANTS
  Requests,        \* requests to publish a version
  Publishes,       \* Publishes[r]: [group, memory, bump, commit, token]
  KnownGroups,     \* groups that have a row
  Unpublished,     \* the latest_version of a memory without versions
  MaxDbFailures    \* bound: statements that fail

Version == Nat \X Nat \X Nat

\* BumpIntent has these three; no version stands for the absence of one.
ASSUME LedgerAssumption ==
  /\ \A r \in Requests : Publishes[r].bump \in {"patch", "minor", "major"}
  /\ Unpublished \notin Version

VARIABLES
  memories,   \* [group, latest] of each memory that has a row
  versions,   \* the version rows, in the order they were inserted
  tags,       \* <<group, version>> -> commit
  request,    \* request[r]: how far r is
  seen,       \* seen[r]: the latest_version r has read, then the version it assigns
  crowded,    \* history: memories two pushes of which were under way together
  torn,       \* history: memories with a version row nobody pointed at
  dbFailures

ledgerVars == <<memories, versions, tags, request, seen, crowded, torn, dbFailures>>

\* BumpIntent::apply, on <<major, minor, patch>>.
Bumped(v, bump) ==
  IF bump = "patch" THEN <<v[1], v[2], v[3] + 1>>
  ELSE IF bump = "minor" THEN <<v[1], v[2] + 1, 0>>
  ELSE <<v[1] + 1, 0, 0>>

\* negotiate_next_version
Negotiate(current, bump) ==
  IF current = Unpublished THEN <<0, 1, 0>> ELSE Bumped(current, bump)

Before(v, w) ==
  \/ v[1] < w[1]
  \/ v[1] = w[1] /\ v[2] < w[2]
  \/ v[1] = w[1] /\ v[2] = w[2] /\ v[3] < w[3]

Memory(r) == Publishes[r].memory
VersionRows(m) == {i \in DOMAIN versions : versions[i].memory = m}
Assigned(r) == seen[r]

LedgerInit ==
  /\ memories = <<>> /\ versions = <<>> /\ tags = <<>>
  /\ request = [r \in Requests |-> "sent"]
  /\ seen = [r \in Requests |-> Unpublished]
  /\ crowded = {} /\ torn = {} /\ dbFailures = 0

LedgerTypeOK ==
  /\ \A m \in DOMAIN memories :
       memories[m].group \in KnownGroups /\ memories[m].latest \in Version \union {Unpublished}
  /\ request \in [Requests -> {"sent", "creating", "negotiating", "pointing", "tagging", "published",
                               "refused", "failed"}]
  /\ seen \in [Requests -> Version \union {Unpublished}]
  /\ \A i \in DOMAIN versions : versions[i].by \in Requests /\ versions[i].version \in Version

Into(r, stage) == request' = [request EXCEPT ![r] = stage]
UnderWay(r) == request[r] \in {"creating", "negotiating", "pointing"}
Overlapping(r) == \E o \in Requests \ {r} : UnderWay(o) /\ Memory(o) = Memory(r)
Crowd(r) == crowded' = IF Overlapping(r) THEN crowded \union {Memory(r)} ELSE crowded

\* enforce_push_token and the lookup of the group.
Refuse(r) ==
  /\ request[r] = "sent"
  /\ ~Publishes[r].token \/ Publishes[r].group \notin KnownGroups
  /\ Into(r, "refused")
  /\ UNCHANGED <<memories, versions, tags, seen, crowded, torn, dbFailures>>

\* Faulty variant: the group of the memory is not compared.
FindMemoryAnywhere(r) ==
  /\ request[r] = "sent" /\ Publishes[r].token /\ Publishes[r].group \in KnownGroups
  /\ IF Memory(r) \in DOMAIN memories
     THEN Into(r, "negotiating") /\ seen' = [seen EXCEPT ![r] = memories[Memory(r)].latest]
     ELSE Into(r, "creating") /\ UNCHANGED seen
  /\ Crowd(r)
  /\ UNCHANGED <<memories, versions, tags, torn, dbFailures>>

\* A memory of another group is refused before anything is written.
FindMemory(r) ==
  /\ request[r] = "sent" /\ Publishes[r].token /\ Publishes[r].group \in KnownGroups
  /\ \/ /\ Memory(r) \notin DOMAIN memories
        /\ Into(r, "creating") /\ Crowd(r) /\ UNCHANGED seen
     \/ /\ Memory(r) \in DOMAIN memories /\ memories[Memory(r)].group = Publishes[r].group
        /\ Into(r, "negotiating") /\ Crowd(r)
        /\ seen' = [seen EXCEPT ![r] = memories[Memory(r)].latest]
     \/ /\ Memory(r) \in DOMAIN memories /\ memories[Memory(r)].group # Publishes[r].group
        /\ Into(r, "refused") /\ UNCHANGED <<seen, crowded>>
  /\ UNCHANGED <<memories, versions, tags, torn, dbFailures>>

\* The id is the primary key: of two creates one fails, and with it its push.
CreateMemory(r) ==
  /\ request[r] = "creating"
  /\ IF Memory(r) \in DOMAIN memories
     THEN Into(r, "failed") /\ UNCHANGED memories
     ELSE /\ Into(r, "negotiating")
          /\ memories' = [m \in DOMAIN memories \union {Memory(r)} |->
                            IF m = Memory(r) THEN [group |-> Publishes[r].group, latest |-> Unpublished]
                            ELSE memories[m]]
  /\ UNCHANGED <<versions, tags, seen, crowded, torn, dbFailures>>

\* The version follows from what was read, and becomes a row.
RecordVersion(r) ==
  /\ request[r] = "negotiating"
  /\ LET v == Negotiate(seen[r], Publishes[r].bump) IN
       /\ seen' = [seen EXCEPT ![r] = v]
       /\ versions' = Append(versions, [memory |-> Memory(r), version |-> v, by |-> r])
  /\ Into(r, "pointing")
  /\ UNCHANGED <<memories, tags, crowded, torn, dbFailures>>

\* Faulty variant: the row is pointed only once.
PointOnce(r) ==
  /\ request[r] = "pointing"
  /\ memories' = [memories EXCEPT ![Memory(r)].latest = IF @ = Unpublished THEN Assigned(r) ELSE @]
  /\ Into(r, "tagging")
  /\ UNCHANGED <<versions, tags, seen, crowded, torn, dbFailures>>

\* set_latest_version, whatever the row says by now.
PointAtVersion(r) ==
  /\ request[r] = "pointing"
  /\ memories' = [memories EXCEPT ![Memory(r)].latest = Assigned(r)]
  /\ Into(r, "tagging")
  /\ UNCHANGED <<versions, tags, seen, crowded, torn, dbFailures>>

\* The tag is per group, not per memory, and replaces one of its name; that it
\* cannot be made is only logged.
TagVersion(r) ==
  /\ request[r] = "tagging"
  /\ LET tag == <<Publishes[r].group, Assigned(r)>> IN
       \/ tags' = [k \in DOMAIN tags \union {tag} |->
                     IF k = tag THEN Publishes[r].commit ELSE tags[k]]
       \/ UNCHANGED tags
  /\ Into(r, "published")
  /\ UNCHANGED <<memories, versions, seen, crowded, torn, dbFailures>>

\* A statement fails, or the server stops; what was written stays.
DbFails(r) ==
  /\ UnderWay(r) /\ dbFailures < MaxDbFailures
  /\ dbFailures' = dbFailures + 1
  /\ torn' = IF request[r] = "pointing" THEN torn \union {Memory(r)} ELSE torn
  /\ Into(r, "failed")
  /\ UNCHANGED <<memories, versions, tags, seen, crowded>>

LedgerNext ==
  \E r \in Requests :
    \/ Refuse(r) \/ FindMemory(r) \/ CreateMemory(r) \/ RecordVersion(r)
    \/ PointAtVersion(r) \/ TagVersion(r) \/ DbFails(r)

LedgerSpec == LedgerInit /\ [][LedgerNext]_ledgerVars

-----------------------------------------------------------------------------
(* Properties *)

\* v is what the last version row of m has; without rows, Unpublished.
IsLast(m, v) ==
  LET rows == VersionRows(m) IN
  IF rows = {} THEN v = Unpublished
  ELSE \E i \in rows : (\A j \in rows : j <= i) /\ v = versions[i].version

\* The versions of a memory grow with every push, and its row has the last of
\* them, as long as no two pushes of it overlapped and none stopped between its
\* version row and the pointer.
UncrowdedVersionsGrow ==
  \A m \in DOMAIN memories \ (crowded \union torn) :
    LET rows == VersionRows(m) IN
      /\ \A i, j \in rows : i < j => Before(versions[i].version, versions[j].version)
      /\ (\A r \in Requests : Memory(r) = m => ~UnderWay(r)) =>
           IsLast(m, memories[m].latest)

\* No push that names one group writes the ledger of a memory of another, even
\* if both groups publish the same new memory at once.
LedgersStayApart ==
  \A i \in DOMAIN versions :
    Publishes[versions[i].by].group = memories[versions[i].memory].group
=============================================================================
