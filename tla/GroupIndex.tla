------------------------------ MODULE GroupIndex ------------------------------
(***************************************************************************)
(* The in-memory index of the groups that are mirrored on disk             *)
(* (crates/mmcp-store/src/groups.rs).  A refresh scans the repositories    *)
(* without any lock and then replaces the whole index under its write      *)
(* lock; the synchronous lookups of the sync engine never wait for that    *)
(* lock, so a lookup that meets a writer learns nothing.                   *)
(***************************************************************************)

CONSTANTS
  Groups,
  Refreshers,  \* tasks that refresh: the watcher, a call that made a group
  NoOne

VARIABLES
  disk,     \* groups with a repository whose manifest can be read
  index,    \* groups the index knows
  refresh,  \* refresh[k]: the stage of k's refresh
  found,    \* found[k]: what k's scan of the disk found
  writer    \* the refresher that holds the index's write lock

indexVars == <<disk, index, refresh, found, writer>>

IndexTypeOK ==
  /\ disk \subseteq Groups /\ index \subseteq Groups
  /\ refresh \in [Refreshers -> {"idle", "scanned", "writing", "done"}]
  /\ found \in [Refreshers -> SUBSET Groups]
  /\ writer \in Refreshers \union {NoOne}

\* The refreshers that will refresh are part of the scenario.
IndexInit(groups, refreshers) ==
  /\ disk = groups
  /\ index = groups
  /\ refresh = [k \in Refreshers |-> IF k \in refreshers THEN "idle" ELSE "done"]
  /\ found = [k \in Refreshers |-> {}]
  /\ writer = NoOne

\* A repository is created, and its maker or the watcher will refresh.
Appear(g) ==
  /\ g \notin disk /\ \E k \in Refreshers : refresh[k] # "done"
  /\ disk' = disk \union {g}
  /\ UNCHANGED <<index, refresh, found, writer>>

Scan(k) ==
  /\ refresh[k] = "idle"
  /\ refresh' = [refresh EXCEPT ![k] = "scanned"]
  /\ found' = [found EXCEPT ![k] = disk]
  /\ UNCHANGED <<disk, index, writer>>

\* The write lock is had: until it is released no lookup sees the index.
Lock(k) ==
  /\ refresh[k] = "scanned" /\ writer = NoOne
  /\ refresh' = [refresh EXCEPT ![k] = "writing"]
  /\ writer' = k
  /\ UNCHANGED <<disk, index, found>>

Install(k) ==
  /\ refresh[k] = "writing"
  /\ refresh' = [refresh EXCEPT ![k] = "done"]
  /\ writer' = NoOne
  /\ index' = found[k]
  /\ UNCHANGED <<disk, found>>

IndexStep ==
  \/ \E g \in Groups : Appear(g)
  \/ \E k \in Refreshers : Scan(k) \/ Lock(k) \/ Install(k)

\* try_get, try_scope_of and try_list_ids never wait: which of a batch of
\* lookups miss what is indexed because a refresh holds the lock.
Missed(lookups) == IF writer = NoOne THEN {{}} ELSE SUBSET lookups
=============================================================================
