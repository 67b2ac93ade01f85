------------------------------ MODULE HistoryRestore ------------------------------
(***************************************************************************)
(* The import of a history archive, which installs whole repositories      *)
(* (crates/mmcp-store/src/archive/import.rs), beside reads through the     *)
(* repository handles that the backend keeps                               *)
(* (crates/mmcp-git/src/native/backend.rs), in a client that may crash and *)
(* be started again.                                                       *)
(*                                                                         *)
(* A directory is the set of the files it has, each of some origin; one    *)
(* without files is not there.  The directory that restores fill, and the  *)
(* one in which they set the old repository aside, have one name per       *)
(* process.                                                                *)
(***************************************************************************)
EXTENDS Naturals, FiniteSets

CONSTANTS
  Restores,      \* groups of archives that are installed
  Restore,       \* Restore[r]: [group, force]
  Readers,       \* reads of a repository
  ReadOf,        \* ReadOf[k]: the group that k reads
  Size,          \* files of a repository
  Overlap,       \* bound: whether two restores may work at the same time
  MaxBreaks,     \* bound: file operations that fail
  MaxCrashes     \* bound

Target(r) == Restore[r].group
Mirrored == {Target(r) : r \in Restores} \union {ReadOf[k] : k \in Readers}

\* The temporary names are no uuids, and an archive is no repository.
ASSUME RestoreAssumption ==
  /\ Size \in Nat \ {0} /\ MaxBreaks \in Nat /\ MaxCrashes \in Nat
  /\ {"stage", "aside"} \intersect Mirrored = {} /\ Restores \intersect Mirrored = {}

Repository(o) == {o} \X (1..Size)  \* what has one origin, in full
Nothing == {}

VARIABLES
  disk,     \* disk[g]: the repository of g; "stage" and "aside" of this process
  debris,   \* what crashed processes left in theirs
  listed,   \* the groups in the index
  restore,  \* restore[r]: what r does next
  filled,   \* filled[r]: the files r has written
  reply,    \* reply[r]
  handle,   \* handle[g]: what the cached handle of g was opened on
  read,     \* read[k]: what k does next
  opened,   \* opened[k]: what k has opened
  owned,    \* history: groups that had a repository once
  late,     \* history: groups whose handle was cached when it was stale already
  breaks, crashes

readVars == <<handle, read, opened, late>>
boundVars == <<owned, breaks, crashes>>
restoreVars == <<disk, debris, listed, restore, filled, reply, readVars, boundVars>>

Whole(d) == \E o \in Restores \union Mirrored : d = Repository(o)
Scanned == {g \in Mirrored : Whole(disk[g])}

\* Some groups are there at the start; the origin of such a one is the group.
RestoreInit ==
  /\ \E gs \in SUBSET Mirrored :
       disk = [n \in Mirrored \union {"stage", "aside"} |-> IF n \in gs THEN Repository(n) ELSE Nothing]
  /\ listed = Scanned /\ owned = Scanned
  /\ debris = {}
  /\ restore = [r \in Restores |-> "start"]
  /\ filled = [r \in Restores |-> 0]
  /\ reply = [r \in Restores |-> "none"]
  /\ handle = [g \in Mirrored |-> Nothing]
  /\ read = [k \in Readers |-> "start"]
  /\ opened = [k \in Readers |-> Nothing]
  /\ late = {}
  /\ breaks = 0 /\ crashes = 0

RestoreTypeOK ==
  /\ \A n \in DOMAIN disk : disk[n] \subseteq (Restores \union Mirrored) \X (1..Size)
  /\ listed \union owned \union late \subseteq Mirrored
  /\ filled \in [Restores -> 0..Size]
  /\ breaks \in 0..MaxBreaks /\ crashes \in 0..MaxCrashes

\* No lock keeps restores apart: two of them share the names of the process.
Working(r) == restore[r] \notin {"start", "done"}
GoesTo(r, p) ==
  /\ restore' = [restore EXCEPT ![r] = p]
  /\ UNCHANGED <<reply, debris, readVars, crashes>>
Replies(r, a) ==
  /\ restore' = [restore EXCEPT ![r] = "done"]
  /\ reply' = [reply EXCEPT ![r] = a]
  /\ UNCHANGED <<debris, readVars, crashes>>

BreakTimes(n) == breaks + n <= MaxBreaks /\ breaks' = breaks + n
Breaks(r) == BreakTimes(1) /\ Replies(r, "error") /\ UNCHANGED disk
\* let _ = remove_dir_all: nobody looks whether a directory could be removed.
Removes(n) ==
  \/ disk' = [disk EXCEPT ![n] = Nothing] /\ UNCHANGED breaks
  \/ BreakTimes(1) /\ UNCHANGED disk
\* A rename onto a directory that is there fails, as does one of nothing.
CanRename(from, to) == disk[from] # Nothing /\ disk[to] = Nothing
Renamed(from, to) == [disk EXCEPT ![to] = disk[from], ![from] = Nothing]

-----------------------------------------------------------------------------
(* restore_one_group and install_bare_repo                                 *)

LookUp(r) ==
  /\ restore[r] = "start" /\ (Overlap \/ \A s \in Restores : ~Working(s))
  /\ IF Target(r) \in listed /\ ~Restore[r].force THEN Replies(r, "skipped") ELSE GoesTo(r, "clear")
  /\ UNCHANGED <<disk, listed, filled, owned, breaks>>

ClearStage(r) ==
  /\ restore[r] = "clear"
  /\ Removes("stage")
  /\ GoesTo(r, "fill")
  /\ UNCHANGED <<listed, filled, owned>>

FillStage(r) ==
  /\ restore[r] = "fill"
  /\ \/ /\ filled[r] < Size
        /\ filled' = [filled EXCEPT ![r] = @ + 1]
        /\ disk' = [disk EXCEPT !["stage"] = @ \union {<<r, filled'[r]>>}]
        /\ GoesTo(r, "fill") /\ UNCHANGED breaks
     \/ filled[r] < Size /\ Breaks(r) /\ UNCHANGED filled
     \/ filled[r] = Size /\ GoesTo(r, "look") /\ UNCHANGED <<disk, filled, breaks>>
  /\ UNCHANGED <<listed, owned>>

\* A repository that is there is set aside, in place of what was there before;
\* where there is none the stage is all there is to rename.
LookAtPath(r) ==
  /\ restore[r] = "look"
  /\ IF disk[Target(r)] = Nothing
     THEN GoesTo(r, "move") /\ UNCHANGED <<disk, breaks>>
     ELSE GoesTo(r, "aside") /\ Removes("aside")
  /\ UNCHANGED <<listed, filled, owned>>

MoveIn(r) ==
  /\ restore[r] = "move"
  /\ \/ /\ CanRename("stage", Target(r))
        /\ disk' = Renamed("stage", Target(r))
        /\ GoesTo(r, "invalidate") /\ UNCHANGED breaks
     \/ Breaks(r)
     \/ /\ ~CanRename("stage", Target(r))
        /\ Replies(r, "error") /\ UNCHANGED <<disk, breaks>>
  /\ UNCHANGED <<listed, filled, owned>>

SetAside(r) ==
  /\ restore[r] = "aside"
  /\ \/ /\ CanRename(Target(r), "aside")
        /\ disk' = Renamed(Target(r), "aside")
        /\ GoesTo(r, "swap") /\ UNCHANGED breaks
     \/ Breaks(r)
     \/ /\ ~CanRename(Target(r), "aside")
        /\ Replies(r, "error") /\ UNCHANGED <<disk, breaks>>
  /\ UNCHANGED <<listed, filled, owned>>

\* Faulty variant: a swap that fails leaves the old repository where it is.
SwapInOnly(r) ==
  /\ restore[r] = "swap"
  /\ \/ /\ CanRename("stage", Target(r))
        /\ disk' = Renamed("stage", Target(r))
        /\ GoesTo(r, "drop") /\ UNCHANGED breaks
     \/ Breaks(r)
  /\ UNCHANGED <<listed, filled, owned>>

\* When the new repository cannot be moved in, the old one is moved back,
\* which may fail unnoticed, too.
SwapIn(r) ==
  LET failed == IF CanRename("stage", Target(r)) THEN 1 ELSE 0 IN
  /\ restore[r] = "swap"
  /\ \/ /\ CanRename("stage", Target(r))
        /\ disk' = Renamed("stage", Target(r))
        /\ GoesTo(r, "drop") /\ UNCHANGED breaks
     \/ /\ BreakTimes(failed)
        /\ disk' = IF CanRename("aside", Target(r)) THEN Renamed("aside", Target(r)) ELSE disk
        /\ Replies(r, "error")
     \/ BreakTimes(failed + 1) /\ UNCHANGED disk /\ Replies(r, "error")
  /\ UNCHANGED <<listed, filled, owned>>

DropAside(r) ==
  /\ restore[r] = "drop"
  /\ Removes("aside")
  /\ GoesTo(r, "invalidate")
  /\ UNCHANGED <<listed, filled, owned>>

Invalidate(r) ==
  /\ restore[r] = "invalidate"
  /\ restore' = [restore EXCEPT ![r] = "refresh"]
  /\ handle' = [handle EXCEPT ![Target(r)] = Nothing]
  /\ late' = late \ {Target(r)}
  /\ UNCHANGED <<disk, debris, listed, filled, reply, read, opened, boundVars>>

\* The index is refreshed, and the group must be in it.
Refresh(r) ==
  /\ restore[r] = "refresh"
  /\ listed' = Scanned
  /\ owned' = owned \union Scanned
  /\ Replies(r, IF Target(r) \in Scanned THEN "restored" ELSE "error")
  /\ UNCHANGED <<disk, filled, breaks>>

-----------------------------------------------------------------------------
(* open_repo_with_cache: a read opens a repository, or is handed one       *)

ReadsOn(k, p) == read' = [read EXCEPT ![k] = p]
notReadVars == <<disk, debris, listed, restore, filled, reply, boundVars>>

\* A cached handle is used if the path is still there, and dropped otherwise.
GetHandle(k) ==
  /\ read[k] = "start"
  /\ ReadsOn(k, IF handle[ReadOf[k]] = Nothing THEN "open" ELSE "check")
  /\ opened' = [opened EXCEPT ![k] = handle[ReadOf[k]]]
  /\ UNCHANGED <<handle, late, notReadVars>>

CheckHandle(k) ==
  /\ read[k] = "check"
  /\ ReadsOn(k, "done")
  /\ IF disk[ReadOf[k]] # Nothing THEN UNCHANGED <<handle, late>>
     ELSE handle' = [handle EXCEPT ![ReadOf[k]] = Nothing] /\ late' = late \ {ReadOf[k]}
  /\ UNCHANGED <<opened, notReadVars>>

OpenRepo(k) ==
  /\ read[k] = "open"
  /\ ReadsOn(k, IF disk[ReadOf[k]] = Nothing THEN "done" ELSE "insert")
  /\ opened' = [opened EXCEPT ![k] = disk[ReadOf[k]]]
  /\ UNCHANGED <<handle, late, notReadVars>>

InsertHandle(k) ==
  /\ read[k] = "insert"
  /\ ReadsOn(k, "done")
  /\ handle' = [handle EXCEPT ![ReadOf[k]] = opened[k]]
  /\ late' = IF opened[k] # disk[ReadOf[k]] THEN late \union {ReadOf[k]} ELSE late \ {ReadOf[k]}
  /\ UNCHANGED <<opened, notReadVars>>

\* The process dies.  The next one scans the repositories, has other names for
\* its stage, and may be asked again for what was not finished.
ClientCrash ==
  /\ crashes < MaxCrashes /\ crashes' = crashes + 1
  /\ debris' = debris \union {disk["stage"], disk["aside"]}
  /\ disk' = [disk EXCEPT !["stage"] = Nothing, !["aside"] = Nothing]
  /\ listed' = Scanned
  /\ restore' = [r \in Restores |-> IF restore[r] = "done" THEN "done" ELSE "start"]
  /\ filled' = [r \in Restores |-> 0]
  /\ handle' = [g \in Mirrored |-> Nothing] /\ late' = {}
  /\ read' = [k \in Readers |-> "start"] /\ opened' = [k \in Readers |-> Nothing]
  /\ UNCHANGED <<reply, owned, breaks>>

RestoreNext ==
  \/ \E r \in Restores :
       \/ LookUp(r) \/ ClearStage(r) \/ FillStage(r) \/ LookAtPath(r) \/ MoveIn(r) \/ SetAside(r)
       \/ SwapIn(r) \/ DropAside(r) \/ Invalidate(r) \/ Refresh(r)
  \/ \E k \in Readers : GetHandle(k) \/ CheckHandle(k) \/ OpenRepo(k) \/ InsertHandle(k)
  \/ ClientCrash

RestoreSpec == RestoreInit /\ [][RestoreNext]_restoreVars

-----------------------------------------------------------------------------
(* Properties *)

\* Whatever crashes, and whichever one file operation fails, where restores do
\* not overlap: a repository is whole or not there; no group is lost, for a
\* whole copy of it is under its own name or one of the temporary ones; what was
\* reported restored has replaced the old repository; and a cached handle is not
\* older than its repository, unless the read that cached it was late.
Of(g) == {g} \union {r \in Restores : Target(r) = g}
Replacing(g) == \E r \in Restores : Target(r) = g /\ restore[r] \in {"swap", "drop", "invalidate"}
RestoresAreWhole ==
  breaks <= 1 => \A g \in Mirrored :
    /\ disk[g] = Nothing \/ \E o \in Of(g) : disk[g] = Repository(o)
    /\ g \in owned => \E o \in Of(g) : Repository(o) \in debris \union {disk[g], disk["aside"]}
    /\ \A r \in Restores :
         Target(r) = g /\ reply[r] = "restored" => disk[g] # Repository(g)
    /\ handle[g] \in {Nothing, disk[g]} \/ Replacing(g) \/ g \in late

\* The comment of install_bare_repo says that a restore never leaves a broken
\* repository; it says so of restores that overlap, too.
NoBrokenRepository == \A g \in Mirrored : disk[g] = Nothing \/ Whole(disk[g])
=============================================================================
