------------------------------ MODULE SessionStore ------------------------------
(***************************************************************************)
(* The session file (crates/mmcp-store/src/sessions.rs) and the prompt     *)
(* hook that keeps it (crates/mmcp-client/src/commands/hook.rs).  Each     *)
(* hook is a process of its own.  It loads, changes and saves the file     *)
(* three times, without a lock; a save writes a sibling file, whose name   *)
(* all hooks of the session share, and renames it.                         *)
(*                                                                         *)
(* A file is an inode, so that a process goes on writing to the file it    *)
(* opened, wherever that has been renamed to.                              *)
(***************************************************************************)
EXTENDS Naturals, FiniteSets

CONSTANTS
  Hooks,
  Inodes,
  NoInode, NoSignature,
  Torn,            \* contents that are no whole state
  MaxTranscript,   \* bound: lengths of the transcript
  MaxCompactions,  \* bound
  MaxKills         \* bound: hooks that die half way

\* What a hook can have of a session: SessionState, of which a file holds one.
Transcripts == [length : 0..MaxTranscript, edition : 0..MaxCompactions]
Signatures == Transcripts \union {NoSignature}
States == [turn : 0..Cardinality(Hooks), signature : Signatures, flag : BOOLEAN]

\* There is always an inode left for another file.
ASSUME SessionAssumption ==
  /\ IsFiniteSet(Hooks) /\ Cardinality(Hooks) < Cardinality(Inodes) /\ IsFiniteSet(Inodes)
  /\ NoInode \notin Inodes /\ Torn \notin States /\ NoSignature \notin Transcripts
  /\ MaxTranscript \in Nat \ {0} /\ MaxCompactions \in Nat

VARIABLES
  inode,       \* inode[n]: a state, or Torn
  file, tmp,   \* the inodes of <session>.toml and of its sibling
  part, step,  \* part[h], step[h]: where hook h is
  state,       \* state[h]: the session as h has it
  fd,          \* fd[h]: the inode h has open
  transcript,  \* its length, and how often it was compacted
  alarm,       \* alarm[h]: whether h detected a compaction
  printed,     \* history: what the hooks printed
  overlapped,  \* history: two hooks were under way together
  kills

sessionVars ==
  <<inode, file, tmp, part, step, state, fd, transcript, alarm, printed, overlapped, kills>>

\* SessionState::new, and the fields the hook changes.
Fresh == [turn |-> 0, signature |-> NoSignature, flag |-> FALSE]
\* What compute_signature tells apart: the length, and the text behind the digest.
Signature(length, edition) == [length |-> length, edition |-> edition]

\* Faulty variant: a transcript that grew is taken for a compacted one.
DetectAnyChange(previous, current) == previous # NoSignature /\ previous # current
\* detect_compaction
DetectCompaction(previous, current) ==
  /\ previous # NoSignature
  /\ \/ current.length < previous.length
     \/ current.length = previous.length /\ current.edition # previous.edition

\* Which of the inodes nobody knows it is makes no difference.
Unused(used) == CHOOSE n \in Inodes : n \notin used
\* A session without a file, or one with the signature of its last prompt.
SessionInit ==
  /\ transcript = Signature(1, 0)
  /\ \/ file = NoInode /\ inode = [n \in Inodes |-> Torn]
     \/ /\ file = Unused({})
        /\ inode = [n \in Inodes |-> IF n = file THEN [Fresh EXCEPT !.signature = transcript] ELSE Torn]
  /\ tmp = NoInode
  /\ part = [h \in Hooks |-> "upsert"] /\ step = [h \in Hooks |-> "load"]
  /\ state = [h \in Hooks |-> Fresh]
  /\ fd = [h \in Hooks |-> NoInode]
  /\ alarm = [h \in Hooks |-> FALSE]
  /\ printed = {} /\ overlapped = FALSE /\ kills = 0

SessionTypeOK ==
  /\ inode \in [Inodes -> States \union {Torn}]
  /\ {file, tmp} \subseteq Inodes \union {NoInode}
  /\ part \in [Hooks -> {"upsert", "check", "bump", "print", "ended", "failed"}]
  /\ step \in [Hooks -> {"load", "sign", "open", "write", "rename", "unlink"}]
  /\ state \in [Hooks -> States]
  /\ fd \in [Hooks -> Inodes \union {NoInode}]
  /\ transcript \in Transcripts

Ended(h) == part[h] \in {"ended", "failed"}
Running(h) == ~Ended(h) /\ <<part[h], step[h]>> # <<"upsert", "load">>
Goes(h, s) == step' = [step EXCEPT ![h] = s] /\ UNCHANGED part
Enters(h, p) == part' = [part EXCEPT ![h] = p] /\ step' = [step EXCEPT ![h] = "load"]
After(h) ==
  IF part[h] = "upsert" THEN "check" ELSE IF part[h] = "check" THEN "bump" ELSE "print"

\* load_or_init, then the change each part makes: upsert_session leaves the
\* fields modelled here as they are, bump_turn counts.
Load(h) ==
  /\ part[h] \in {"upsert", "check", "bump"} /\ step[h] = "load"
  /\ overlapped' = (overlapped \/ \E o \in Hooks \ {h} : Running(o))
  /\ IF file # NoInode /\ inode[file] = Torn
     THEN Enters(h, "failed") /\ UNCHANGED state
     ELSE /\ Goes(h, IF part[h] = "check" THEN "sign" ELSE "open")
          /\ LET s == IF file = NoInode THEN Fresh ELSE inode[file]
             IN state' = [state EXCEPT ![h] = IF part[h] = "bump" THEN [s EXCEPT !.turn = @ + 1] ELSE s]
  /\ UNCHANGED <<inode, file, tmp, fd, transcript, alarm, printed, kills>>

\* check_transcript, which reads the transcript after the session.
Sign(h) ==
  /\ part[h] = "check" /\ step[h] = "sign"
  /\ LET found == DetectCompaction(state[h].signature, transcript) IN
       /\ alarm' = [alarm EXCEPT ![h] = found]
       /\ state' = [state EXCEPT ![h].signature = transcript, ![h].flag = @ \/ found]
  /\ Goes(h, "open")
  /\ UNCHANGED <<inode, file, tmp, fd, transcript, printed, overlapped, kills>>

\* Faulty variant: the file itself is opened for writing.
OpenInPlace(h) ==
  /\ step[h] = "open"
  /\ LET n == IF file = NoInode THEN Unused({fd[o] : o \in Hooks}) ELSE file IN
       /\ file' = n /\ tmp' = n
       /\ inode' = [inode EXCEPT ![n] = Torn]
       /\ fd' = [fd EXCEPT ![h] = n]
  /\ Goes(h, "write")
  /\ UNCHANGED <<state, transcript, alarm, printed, overlapped, kills>>

\* save: the sibling is created, or emptied if another save has left it.
Open(h) ==
  /\ step[h] = "open"
  /\ LET n == IF tmp = NoInode THEN Unused({file} \union {fd[o] : o \in Hooks}) ELSE tmp IN
       /\ tmp' = n
       /\ inode' = [inode EXCEPT ![n] = Torn]
       /\ fd' = [fd EXCEPT ![h] = n]
  /\ Goes(h, "write")
  /\ UNCHANGED <<file, state, transcript, alarm, printed, overlapped, kills>>

\* Written over what another hook wrote, a state may leave a longer one's end.
Write(h) ==
  /\ step[h] = "write"
  /\ \E new \in {state[h]} \union (IF inode[fd[h]] = Torn THEN {} ELSE {Torn}) :
       inode' = [inode EXCEPT ![fd[h]] = new]
  /\ fd' = [fd EXCEPT ![h] = NoInode]
  /\ Goes(h, "rename")
  /\ UNCHANGED <<file, tmp, state, transcript, alarm, printed, overlapped, kills>>

\* A sibling that another hook has renamed is gone, which is an error.
Rename(h) ==
  /\ step[h] = "rename"
  /\ IF tmp = NoInode THEN Goes(h, "unlink") /\ UNCHANGED <<inode, file, tmp>>
     ELSE /\ Enters(h, After(h)) /\ file' = tmp /\ tmp' = NoInode
          /\ inode' = [n \in Inodes |-> IF n = file THEN Torn ELSE inode[n]]
  /\ UNCHANGED <<state, fd, transcript, alarm, printed, overlapped, kills>>

\* After the error the sibling is removed, be it one of another hook by now.
Unlink(h) ==
  /\ step[h] = "unlink"
  /\ tmp' = NoInode
  /\ Enters(h, "failed")
  /\ UNCHANGED <<inode, file, state, fd, transcript, alarm, printed, overlapped, kills>>

PrintLine(h) ==
  /\ part[h] = "print"
  /\ printed' = printed \union {[hook |-> h, turn |-> state[h].turn, marker |-> alarm[h]]}
  /\ part' = [part EXCEPT ![h] = "ended"]
  /\ UNCHANGED <<inode, file, tmp, step, state, fd, transcript, alarm, overlapped, kills>>

Kill(h) ==
  /\ Running(h) /\ kills < MaxKills
  /\ kills' = kills + 1
  /\ Enters(h, "failed")
  /\ fd' = [fd EXCEPT ![h] = NoInode]
  /\ UNCHANGED <<inode, file, tmp, state, transcript, alarm, printed, overlapped>>

\* The agent appends to its transcript, or compacts it.
Grow ==
  /\ transcript.length < MaxTranscript
  /\ transcript' = [transcript EXCEPT !.length = @ + 1]
  /\ UNCHANGED <<inode, file, tmp, part, step, state, fd, alarm, printed, overlapped, kills>>
Compact ==
  /\ transcript.edition < MaxCompactions
  /\ \E l \in 0..transcript.length :
       transcript' = Signature(l, transcript.edition + 1)
  /\ UNCHANGED <<inode, file, tmp, part, step, state, fd, alarm, printed, overlapped, kills>>

SessionNext ==
  \/ Grow \/ Compact
  \/ \E h \in Hooks :
       Load(h) \/ Sign(h) \/ Open(h) \/ Write(h) \/ Rename(h) \/ Unlink(h)
       \/ PrintLine(h) \/ Kill(h)

SessionSpec == SessionInit /\ [][SessionNext]_sessionVars

-----------------------------------------------------------------------------
(* Properties *)

\* Hooks that run one after the other always find a whole file, and none fails
\* but by dying, however many die half way through a save.
SavesAreWhole ==
  ~overlapped =>
    /\ file # NoInode => inode[file] # Torn
    /\ Cardinality({h \in Hooks : part[h] = "failed"}) <= kills

\* A hook reports a compaction only if the transcript was compacted after the
\* signature it compares with was taken, although overlapping hooks save their
\* signatures in any order, and old ones over new ones.
NoFalseAlarm ==
  [][\A h \in Hooks :
       alarm'[h] /\ ~alarm[h] => state[h].signature.edition < transcript.edition]_sessionVars
=============================================================================
