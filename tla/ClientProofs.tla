----------------------------- MODULE ClientProofs -----------------------------
(***************************************************************************)
(* What the stores of a client guarantee, for every number of hooks, calls *)
(* and tasks: the session file, the restore of whole repositories, the     *)
(* set-up of projects and groups, the wiring of the remotes and the index  *)
(* of the content cache.                                                   *)
(***************************************************************************)
EXTENDS ContentCache, SessionStore, HistoryRestore, GroupSetup, RemoteWiring, SequenceTheorems, FiniteSetTheorems, TLAPS

-----------------------------------------------------------------------------
(* SessionStore: where the hooks are, and what the inodes hold.            *)

\* The hooks that can have counted their prompt already.
Counted ==
  {h \in Hooks : part[h] \in {"print", "ended", "failed"} \/ (part[h] = "bump" /\ step[h] # "load")}

\* A signature taken no later than another.
NotAfter(p, q) == p.edition < q.edition \/ (p.edition = q.edition /\ p.length <= q.length)
\* A state that some hook may have saved by now.
Past(s) ==
  /\ s \in States /\ s.turn <= Cardinality(Counted)
  /\ s.signature # NoSignature => NotAfter(s.signature, transcript)

HooksOK ==
  /\ part \in [Hooks -> {"upsert", "check", "bump", "print", "ended", "failed"}]
  /\ step \in [Hooks -> {"load", "sign", "open", "write", "rename", "unlink"}]
  /\ fd \in [Hooks -> Inodes \union {NoInode}]
  /\ \A h \in Hooks :
       /\ step[h] # "load" => part[h] \in {"upsert", "check", "bump"}
       /\ step[h] = "sign" => part[h] = "check"
       /\ step[h] = "write" <=> fd[h] # NoInode

FilesOK ==
  /\ file \in Inodes \union {NoInode} /\ tmp \in Inodes \union {NoInode}
  /\ transcript \in Transcripts
  /\ inode \in [Inodes -> States \union {Torn}] /\ state \in [Hooks -> States]
  /\ alarm = [h \in Hooks |-> alarm[h]]
  /\ \A n \in Inodes : inode[n] = Torn \/ Past(inode[n])
  /\ \A h \in Hooks : Past(state[h])

\* As long as no two hooks were under way together: the sibling is not the file
\* itself, it is what the hook that saves has opened, and torn until that has
\* written it.
SoloOK ==
  ~overlapped =>
    /\ \A h, o \in Hooks : Running(h) /\ Running(o) => h = o
    /\ file # NoInode => inode[file] # Torn
    /\ tmp # NoInode => tmp # file
    /\ \A h \in Hooks :
         /\ step[h] = "write" => fd[h] = tmp /\ inode[tmp] = Torn
         /\ step[h] = "rename" => tmp # NoInode /\ inode[tmp] # Torn
         /\ step[h] # "unlink"
    /\ kills \in Nat /\ Cardinality({h \in Hooks : part[h] = "failed"}) <= kills

SessionInv == HooksOK /\ FilesOK /\ SoloOK

\* An inode for a new file can always be had.
LEMMA InodesSuffice ==
  ASSUME HooksOK, FilesOK, NEW h \in Hooks, step[h] = "open"
  PROVE  LET used == {file} \union {fd[o] : o \in Hooks}
         IN  Unused(used) \in Inodes /\ Unused(used) \notin used
<1> DEFINE T == {fd[o] : o \in Hooks}
           used == {file} \union T
<1>1. fd \in Surjection(Hooks, T)
  BY DEF HooksOK, Surjection
<1>2. IsFiniteSet(T) /\ Cardinality(T) <= Cardinality(Hooks)
  BY <1>1, FS_Surjection, SessionAssumption
<1>3. /\ IsFiniteSet(used)
      /\ Cardinality(used) = Cardinality(T) \/ Cardinality(used) = Cardinality(T) + 1
  <2>1. IsFiniteSet(T \cup {file})
        /\ Cardinality(T \cup {file}) = IF file \in T THEN Cardinality(T) ELSE Cardinality(T) + 1
    BY <1>2, FS_AddElement
  <2>2. used = T \cup {file}
    OBVIOUS
  <2> QED
    BY <2>1, <2>2
<1>4. NoInode \in used
  BY DEF HooksOK
<1>5. IsFiniteSet(used \ {NoInode}) /\ Cardinality(used \ {NoInode}) = Cardinality(used) - 1
  BY <1>3, <1>4, FS_RemoveElement
<1>6. Cardinality(used \ {NoInode}) < Cardinality(Inodes)
  <2>1. /\ Cardinality(T) \in Nat /\ Cardinality(Hooks) \in Nat /\ Cardinality(Inodes) \in Nat
        /\ Cardinality(used) \in Nat
    BY <1>2, <1>3, FS_CardinalityType, SessionAssumption
  <2> QED
    BY <1>2, <1>3, <1>5, <2>1, SessionAssumption
<1>7. ~(Inodes \subseteq used \ {NoInode})
  <2>1. SUFFICES ASSUME Inodes \subseteq used \ {NoInode} PROVE FALSE
    OBVIOUS
  <2>2. Cardinality(Inodes) <= Cardinality(used \ {NoInode})
    BY <1>5, <2>1, FS_Subset
  <2>3. Cardinality(Inodes) \in Nat /\ Cardinality(used \ {NoInode}) \in Nat
    BY <1>5, FS_CardinalityType, SessionAssumption
  <2> QED
    BY <1>6, <2>2, <2>3
<1>8. \E n \in Inodes : n \notin used
  BY <1>7, SessionAssumption
<1> QED
  BY <1>8 DEF Unused

\* Whatever happens, a hook that has counted its prompt has done so.
LEMMA CountedStay ==
  ASSUME HooksOK, [SessionNext]_sessionVars
  PROVE  /\ Counted \subseteq Counted'
         /\ IsFiniteSet(Counted) /\ IsFiniteSet(Counted')
         /\ Cardinality(Counted) \in Nat /\ Cardinality(Counted') \in Nat
         /\ Cardinality(Counted) <= Cardinality(Counted')
         /\ Cardinality(Counted') <= Cardinality(Hooks)
<1>1. ASSUME NEW o \in Counted PROVE o \in Counted'
  <2>0. o \in Hooks
    BY DEF Counted
  <2>1. ASSUME NEW h \in Hooks, Load(h) \/ Sign(h) \/ Open(h) \/ Write(h) PROVE o \in Counted'
    BY <1>1, <2>0, <2>1 DEF Counted, HooksOK, Load, Sign, Open, Write, Goes, Enters
  <2>2. ASSUME NEW h \in Hooks, Rename(h) \/ Unlink(h) \/ PrintLine(h) \/ Kill(h) PROVE o \in Counted'
    BY <1>1, <2>0, <2>2 DEF Counted, HooksOK, Rename, Unlink, PrintLine, Kill, Goes, Enters, After
  <2>3. CASE Grow \/ Compact \/ UNCHANGED sessionVars
    BY <1>1, <2>0, <2>3 DEF Counted, Grow, Compact, sessionVars
  <2> QED
    BY <2>1, <2>2, <2>3 DEF SessionNext
<1>2. Counted \subseteq Hooks /\ Counted' \subseteq Hooks
  BY DEF Counted
<1>3. IsFiniteSet(Counted) /\ IsFiniteSet(Counted') /\ Cardinality(Counted') <= Cardinality(Hooks)
  BY <1>2, FS_Subset, SessionAssumption
<1>4. Cardinality(Counted) <= Cardinality(Counted')
  BY <1>1, <1>3, FS_Subset
<1> QED
  BY <1>1, <1>3, <1>4, FS_CardinalityType

\* The transcript goes on.
LEMMA TranscriptGoesOn ==
  ASSUME FilesOK, [SessionNext]_sessionVars
  PROVE  /\ transcript' \in Transcripts
         /\ \A s \in Transcripts : NotAfter(s, transcript) => NotAfter(s, transcript')
<1>0. transcript \in Transcripts
  BY DEF FilesOK
<1>1. CASE transcript' = transcript
  BY <1>0, <1>1
<1>2. CASE Grow
  BY <1>0, <1>2, SessionAssumption DEF Grow, Transcripts, NotAfter
<1>3. CASE Compact
  BY <1>0, <1>3, SessionAssumption DEF Compact, Signature, Transcripts, NotAfter
<1> QED
  BY <1>1, <1>2, <1>3 DEF SessionNext, sessionVars, Load, Sign, Open, Write, Rename, Unlink, PrintLine, Kill

\* What was past stays past.
LEMMA PastStaysPast ==
  ASSUME HooksOK, FilesOK, [SessionNext]_sessionVars, NEW s, Past(s)
  PROVE  Past(s)'
<1>1. s \in States /\ s.turn \in Nat /\ (s.signature # NoSignature => s.signature \in Transcripts)
  BY DEF Past, States, Signatures
<1>2. s.turn <= Cardinality(Counted')
  BY <1>1, CountedStay DEF Past
<1>3. s.signature # NoSignature => NotAfter(s.signature, transcript')
  BY <1>1, TranscriptGoesOn DEF Past
<1> QED
  BY <1>1, <1>2, <1>3 DEF Past

\* Hooks stay where hooks can be.
LEMMA HooksStayOK ==
  ASSUME HooksOK, FilesOK, [SessionNext]_sessionVars
  PROVE  HooksOK'
<1>1. ASSUME NEW h \in Hooks, Load(h) \/ Sign(h) \/ Write(h) PROVE HooksOK'
  BY <1>1, SessionAssumption DEF HooksOK, Load, Sign, Write, Goes, Enters
<1>2. ASSUME NEW h \in Hooks, Open(h) PROVE HooksOK'
  <2>1. PICK n \in Inodes : fd' = [fd EXCEPT ![h] = n]
    BY <1>2, InodesSuffice DEF Open, FilesOK
  <2>2. n # NoInode
    BY SessionAssumption
  <2> QED
    BY <1>2, <2>1, <2>2 DEF HooksOK, Open, Goes
<1>3. ASSUME NEW h \in Hooks, Rename(h) \/ Unlink(h) \/ PrintLine(h) \/ Kill(h) PROVE HooksOK'
  BY <1>3 DEF HooksOK, Rename, Unlink, PrintLine, Kill, Goes, Enters, After, Running, Ended
<1>4. CASE Grow \/ Compact \/ UNCHANGED sessionVars
  BY <1>4 DEF HooksOK, Grow, Compact, sessionVars
<1> QED
  BY <1>1, <1>2, <1>3, <1>4 DEF SessionNext

\* A new session is past.
LEMMA FreshIsPast ==
  ASSUME Cardinality(Counted) \in Nat, Cardinality(Hooks) \in Nat
  PROVE  Past(Fresh)
<1>1. Fresh.turn = 0 /\ Fresh.signature = NoSignature
  BY DEF Fresh
<1>2. 0 \in 0..Cardinality(Hooks) /\ NoSignature \in Signatures /\ FALSE \in BOOLEAN
  BY DEF Signatures
<1>3. Fresh \in States
  BY <1>2 DEF Fresh, States
<1> QED
  BY <1>1, <1>3 DEF Past

\* A signed state is a record of the same fields.
LEMMA SignedRecord ==
  ASSUME NEW s, s = [turn |-> s.turn, signature |-> s.signature, flag |-> s.flag], NEW t, NEW f
  PROVE  [s EXCEPT !.signature = t, !.flag = f] = [turn |-> s.turn, signature |-> t, flag |-> f]
<1>1. [s EXCEPT !.signature = t] = [turn |-> s.turn, signature |-> t, flag |-> s.flag]
  OBVIOUS
<1>2. [[s EXCEPT !.signature = t] EXCEPT !.flag = f] = [s EXCEPT !.signature = t, !.flag = f]
  OBVIOUS
<1>3. [[turn |-> s.turn, signature |-> t, flag |-> s.flag] EXCEPT !.flag = f]
        = [turn |-> s.turn, signature |-> t, flag |-> f]
  OBVIOUS
<1> QED
  BY <1>1, <1>2, <1>3

\* What a hook loads, changes or writes is past.
LEMMA FilesStayOK ==
  ASSUME HooksOK, FilesOK, [SessionNext]_sessionVars
  PROVE  FilesOK'
<1>1. /\ transcript' \in Transcripts
      /\ \A s : Past(s) => Past(s)'
  BY TranscriptGoesOn, PastStaysPast
<1>2. CASE UNCHANGED <<inode, file, tmp, state, alarm>>
  BY <1>1, <1>2 DEF FilesOK
<1>3. ASSUME NEW h \in Hooks, Load(h) PROVE FilesOK'
  <2>0. /\ transcript' = transcript /\ alarm' = alarm
        /\ file' = file /\ tmp' = tmp /\ inode' = inode
    BY <1>3 DEF Load
  <2>1. CASE state' = state
    BY <1>1, <2>0, <2>1 DEF FilesOK
  <2>2. CASE state' # state
    <3>1. PICK s : s = IF file = NoInode THEN Fresh ELSE inode[file]
      OBVIOUS
    <3>2. PICK n : n = IF part[h] = "bump" THEN [s EXCEPT !.turn = @ + 1] ELSE s
      OBVIOUS
    <3>3. ~(file # NoInode /\ inode[file] = Torn) /\ state' = [state EXCEPT ![h] = n]
      BY <1>3, <2>2, <3>1, <3>2 DEF Load
    <3>4. Past(s)
      <4>1. Cardinality(Counted) \in Nat /\ Cardinality(Hooks) \in Nat
        BY CountedStay, FS_CardinalityType, SessionAssumption
      <4> QED
        BY <3>1, <3>3, <4>1, FreshIsPast DEF FilesOK
    <3>5. Past(n)'
      <4>1. CASE part[h] # "bump"
        BY <1>1, <3>2, <3>4, <4>1
      <4>2. CASE part[h] = "bump"
        <5>1. h \notin Counted /\ Counted' = Counted \union {h}
          BY <1>3, <2>2, <4>2 DEF Counted, Load, Goes, Enters, HooksOK
        <5>2. Cardinality(Counted') = Cardinality(Counted) + 1
          <6>1. /\ IsFiniteSet(Counted \cup {h})
                /\ Cardinality(Counted \cup {h}) =
                     IF h \in Counted THEN Cardinality(Counted) ELSE Cardinality(Counted) + 1
            BY CountedStay, FS_AddElement
          <6> QED
            BY <5>1, <6>1
        <5>3. /\ s \in [turn : 0..Cardinality(Hooks), signature : Signatures, flag : BOOLEAN]
              /\ s.turn <= Cardinality(Counted)
              /\ s.signature # NoSignature => NotAfter(s.signature, transcript)
          BY <3>4 DEF Past, States
        <5>4. /\ n.turn = s.turn + 1 /\ n.signature = s.signature
              /\ n = [turn |-> s.turn + 1, signature |-> s.signature, flag |-> s.flag]
          BY <3>2, <4>2, <5>3
        <5>5. s.turn + 1 <= Cardinality(Counted') /\ s.turn + 1 \in 0..Cardinality(Hooks)
          <6>1. Cardinality(Hooks) \in Nat
            BY FS_CardinalityType, SessionAssumption
          <6> QED
            BY <5>2, <5>3, <6>1, CountedStay
        <5>6. n \in States
          BY <5>3, <5>4, <5>5 DEF States
        <5>7. n.turn <= Cardinality(Counted)'
          BY <5>4, <5>5
        <5>8. (n.signature # NoSignature => NotAfter(n.signature, transcript))'
          BY <2>0, <5>3, <5>4 DEF NotAfter
        <5> QED
          BY <5>6, <5>7, <5>8 DEF Past
      <4> QED
        BY <4>1, <4>2
    <3>6. n \in States
      BY <3>5 DEF Past
    <3> QED
      BY <1>1, <2>0, <3>3, <3>5, <3>6 DEF FilesOK
  <2> QED
    BY <2>1, <2>2
<1>4. ASSUME NEW h \in Hooks, Sign(h) PROVE FilesOK'
  <2>0. /\ transcript' = transcript
        /\ file' = file /\ tmp' = tmp /\ inode' = inode
    BY <1>4 DEF Sign
  <2> DEFINE found == DetectCompaction(state[h].signature, transcript)
  <2>1. /\ alarm' = [alarm EXCEPT ![h] = found]
        /\ state' = [state EXCEPT ![h].signature = transcript, ![h].flag = @ \/ found]
    BY <1>4 DEF Sign
  <2>2. state[h] \in [turn : 0..Cardinality(Hooks), signature : Signatures, flag : BOOLEAN]
        /\ state[h].turn <= Cardinality(Counted)
    BY DEF FilesOK, Past, States
  <2>3. PICK f \in BOOLEAN : f = IF state[h].flag \/ found THEN TRUE ELSE FALSE
    OBVIOUS
  <2>4. state' = [state EXCEPT ![h] = [turn |-> state[h].turn, signature |-> transcript, flag |-> f]]
    <3> HIDE DEF found
    <3>1. state' = [state EXCEPT ![h] = [state[h] EXCEPT !.signature = transcript, !.flag = f]]
      BY <2>1, <2>3 DEF FilesOK
    <3>2. \A v : [state[h] EXCEPT !.signature = transcript, !.flag = v]
                   = [turn |-> state[h].turn, signature |-> transcript, flag |-> v]
      <4>1. state[h] = [turn |-> state[h].turn, signature |-> state[h].signature, flag |-> state[h].flag]
        BY <2>2
      <4> QED
        BY <4>1, SignedRecord
    <3> QED
      BY <3>1, <3>2
  <2>5. PICK n : n = [turn |-> state[h].turn, signature |-> transcript, flag |-> f]
    OBVIOUS
  <2>6. transcript \in Transcripts /\ NotAfter(transcript, transcript)
    BY SessionAssumption DEF FilesOK, Transcripts, NotAfter
  <2>7. n \in States /\ n.turn = state[h].turn /\ n.signature = transcript
    BY <2>2, <2>5, <2>6 DEF States, Signatures
  <2>8. n.turn <= Cardinality(Counted)'
    <3>1. state[h].turn \in Nat
      <4>1. Cardinality(Hooks) \in Nat
        BY FS_CardinalityType, SessionAssumption
      <4> QED
        BY <2>2, <4>1
    <3> QED
      BY <2>2, <2>7, <3>1, CountedStay
  <2>9. (n.signature # NoSignature => NotAfter(n.signature, transcript))'
    BY <2>0, <2>6, <2>7 DEF NotAfter
  <2>10. Past(n)'
    BY <2>7, <2>8, <2>9 DEF Past
  <2> QED
    BY <1>1, <2>0, <2>1, <2>4, <2>5, <2>7, <2>10 DEF FilesOK
<1>5. ASSUME NEW h \in Hooks, Open(h) PROVE FilesOK'
  <2>1. PICK n \in Inodes : tmp' = n /\ inode' = [inode EXCEPT ![n] = Torn]
    BY <1>5, InodesSuffice DEF Open, FilesOK
  <2> QED
    BY <1>1, <1>5, <2>1 DEF FilesOK, Open
<1>6. ASSUME NEW h \in Hooks, Write(h) PROVE FilesOK'
  <2>1. PICK new \in {state[h], Torn} : inode' = [inode EXCEPT ![fd[h]] = new]
    BY <1>6 DEF Write
  <2> QED
    BY <1>1, <1>6, <2>1 DEF FilesOK, Write
<1>7. ASSUME NEW h \in Hooks, Rename(h) \/ Unlink(h) PROVE FilesOK'
  BY <1>1, <1>7 DEF FilesOK, Rename, Unlink
<1> QED
  BY <1>2, <1>3, <1>4, <1>5, <1>6, <1>7 DEF SessionNext, sessionVars, PrintLine, Kill, Grow, Compact

\* The hooks that failed, of one more than before at most.
LEMMA FailuresCount ==
  ASSUME NEW k \in Nat, NEW h, NEW F, NEW G, IsFiniteSet(F), Cardinality(F) <= k, G \subseteq F \union {h}
  PROVE  Cardinality(G) <= k + 1
<1>1. /\ IsFiniteSet(F \cup {h})
      /\ Cardinality(F \cup {h}) = IF h \in F THEN Cardinality(F) ELSE Cardinality(F) + 1
  BY FS_AddElement
<1>2. IsFiniteSet(G) /\ Cardinality(G) <= Cardinality(F \cup {h})
  BY <1>1, FS_Subset
<1>3. Cardinality(G) \in Nat /\ Cardinality(F) \in Nat /\ Cardinality(F \cup {h}) \in Nat
  BY <1>1, <1>2, FS_CardinalityType
<1> QED
  BY <1>1, <1>2, <1>3

\* Two hooks that are not under way together do not see each other's saves.
LEMMA SoloStaysOK ==
  ASSUME HooksOK, FilesOK, SoloOK, [SessionNext]_sessionVars
  PROVE  SoloOK'
<1> SUFFICES ASSUME ~overlapped' PROVE SoloOK'
  BY DEF SoloOK
<1>0. ~overlapped
  BY DEF SessionNext, sessionVars, Load, Sign, Open, Write, Rename, Unlink, PrintLine, Kill, Grow, Compact
<1>1. /\ \A h, o \in Hooks : Running(h) /\ Running(o) => h = o
      /\ file # NoInode => inode[file] # Torn
      /\ tmp # NoInode => tmp # file
      /\ \A h \in Hooks :
           /\ step[h] = "write" => fd[h] = tmp /\ inode[tmp] = Torn
           /\ step[h] = "rename" => tmp # NoInode /\ inode[tmp] # Torn
           /\ step[h] # "unlink"
      /\ kills \in Nat /\ Cardinality({h \in Hooks : part[h] = "failed"}) <= kills
  BY <1>0 DEF SoloOK
<1>2. \A o \in Hooks : step[o] # "load" => Running(o)
  BY DEF HooksOK, Running, Ended
<1>3. CASE Grow \/ Compact \/ UNCHANGED sessionVars
  BY <1>1, <1>3 DEF SoloOK, Grow, Compact, sessionVars, Running, Ended
<1>4. ASSUME NEW h \in Hooks, SessionNext, \A o \in Hooks \ {h} : part'[o] = part[o] /\ step'[o] = step[o],
             Running(h) \/ \A o \in Hooks \ {h} : ~Running(o)
      PROVE  \A g, o \in Hooks : Running(g)' /\ Running(o)' => g = o
  BY <1>1, <1>4 DEF Running, Ended
<1>5. ASSUME NEW h \in Hooks, Load(h) PROVE SoloOK'
  <2>1. \A o \in Hooks \ {h} : ~Running(o)
    BY <1>0, <1>5 DEF Load
  <2>2. ~(file # NoInode /\ inode[file] = Torn)
    BY <1>1
  <2>3. part' = part /\ \E s \in {"sign", "open"} : step' = [step EXCEPT ![h] = s]
    BY <1>5, <2>2 DEF Load, Goes
  <2>4. \A g, o \in Hooks : Running(g)' /\ Running(o)' => g = o
    BY <2>1, <2>3 DEF HooksOK, Running, Ended
  <2> QED
    BY <1>1, <1>5, <2>3, <2>4 DEF SoloOK, Load, HooksOK
<1>6. ASSUME NEW h \in Hooks, Sign(h) PROVE SoloOK'
  <2>1. part' = part /\ step' = [step EXCEPT ![h] = "open"] /\ Running(h)
    BY <1>2, <1>6 DEF Sign, Goes
  <2>2. \A g, o \in Hooks : Running(g)' /\ Running(o)' => g = o
    BY <1>1, <2>1 DEF HooksOK, Running, Ended
  <2> QED
    BY <1>1, <1>6, <2>1, <2>2 DEF SoloOK, Sign, HooksOK
<1>7. ASSUME NEW h \in Hooks, Open(h) PROVE SoloOK'
  <2>1. part' = part /\ step' = [step EXCEPT ![h] = "write"] /\ Running(h)
    BY <1>2, <1>7 DEF Open, Goes
  <2>2. \A g, o \in Hooks : Running(g)' /\ Running(o)' => g = o
    BY <1>1, <2>1 DEF HooksOK, Running, Ended
  <2>3. PICK n \in Inodes : /\ tmp' = n /\ inode' = [inode EXCEPT ![n] = Torn]
                            /\ fd' = [fd EXCEPT ![h] = n] /\ n # file
    BY <1>1, <1>7, InodesSuffice DEF Open, FilesOK
  <2>4. n # NoInode
    BY SessionAssumption
  <2>5. \A o \in Hooks \ {h} : step'[o] = "load"
    BY <1>1, <1>2, <2>1 DEF HooksOK
  <2>6. step'[h] = "write" /\ fd'[h] = tmp' /\ inode'[tmp'] = Torn
    BY <2>1, <2>3 DEF HooksOK, FilesOK
  <2> QED
    BY <1>1, <1>7, <2>1, <2>2, <2>3, <2>4, <2>5, <2>6 DEF SoloOK, Open, FilesOK
<1>8. ASSUME NEW h \in Hooks, Write(h) PROVE SoloOK'
  <2>1. part' = part /\ step' = [step EXCEPT ![h] = "rename"] /\ Running(h)
    BY <1>2, <1>8 DEF Write, Goes
  <2>2. \A g, o \in Hooks : Running(g)' /\ Running(o)' => g = o
    BY <1>1, <2>1 DEF HooksOK, Running, Ended
  <2>3. fd[h] = tmp /\ tmp \in Inodes /\ inode[tmp] = Torn
    BY <1>1, <1>8 DEF Write, HooksOK, FilesOK
  <2>4. inode' = [inode EXCEPT ![tmp] = state[h]]
    BY <1>8, <2>3 DEF Write
  <2>5. state[h] # Torn /\ tmp # file /\ tmp # NoInode
    BY <1>1, <2>3, SessionAssumption DEF FilesOK, Past
  <2>6. \A o \in Hooks \ {h} : step'[o] = "load"
    BY <1>1, <1>2, <2>1 DEF HooksOK
  <2>7. step'[h] = "rename" /\ inode'[tmp] # Torn
    BY <2>1, <2>3, <2>4, <2>5 DEF HooksOK, FilesOK
  <2> QED
    BY <1>1, <1>8, <2>1, <2>2, <2>4, <2>5, <2>6, <2>7 DEF SoloOK, Write, FilesOK
<1>9. ASSUME NEW h \in Hooks, Rename(h) PROVE SoloOK'
  <2>1. tmp # NoInode /\ tmp # file /\ inode[tmp] # Torn /\ tmp \in Inodes /\ Running(h)
    BY <1>1, <1>2, <1>9 DEF Rename, FilesOK
  <2>2. /\ part' = [part EXCEPT ![h] = After(h)] /\ step' = [step EXCEPT ![h] = "load"]
        /\ file' = tmp /\ tmp' = NoInode
        /\ inode' = [n \in Inodes |-> IF n = file THEN Torn ELSE inode[n]]
    BY <1>9, <2>1 DEF Rename, Enters
  <2>3. \A g, o \in Hooks : Running(g)' /\ Running(o)' => g = o
    BY <1>1, <2>1, <2>2 DEF HooksOK, Running, Ended
  <2>4. \A o \in Hooks : step'[o] = "load"
    BY <1>1, <1>2, <2>1, <2>2 DEF HooksOK
  <2>5. {o \in Hooks : part'[o] = "failed"} = {o \in Hooks : part[o] = "failed"}
    BY <2>1, <2>2 DEF After, HooksOK, Running, Ended
  <2> QED
    BY <1>1, <1>9, <2>1, <2>2, <2>3, <2>4, <2>5 DEF SoloOK, Rename
<1>10. ASSUME NEW h \in Hooks, Unlink(h) PROVE SoloOK'
  BY <1>1, <1>10 DEF Unlink
<1>11. ASSUME NEW h \in Hooks, PrintLine(h) PROVE SoloOK'
  <2>1. part' = [part EXCEPT ![h] = "ended"] /\ step' = step
    BY <1>11 DEF PrintLine
  <2>2. \A g, o \in Hooks : Running(g)' /\ Running(o)' => g = o
    BY <1>1, <2>1 DEF HooksOK, Running, Ended
  <2>3. {o \in Hooks : part'[o] = "failed"} = {o \in Hooks : part[o] = "failed"}
    BY <1>11, <2>1 DEF HooksOK, PrintLine
  <2> QED
    BY <1>1, <1>11, <2>1, <2>2, <2>3 DEF SoloOK, PrintLine
<1>12. ASSUME NEW h \in Hooks, Kill(h) PROVE SoloOK'
  <2>1. part' = [part EXCEPT ![h] = "failed"] /\ step' = [step EXCEPT ![h] = "load"] /\ kills' = kills + 1
    BY <1>12 DEF Kill, Enters
  <2>2. \A g, o \in Hooks : Running(g)' /\ Running(o)' => g = o
    BY <1>1, <2>1 DEF HooksOK, Running, Ended
  <2> DEFINE F == {o \in Hooks : part[o] = "failed"}
             G == {o \in Hooks : part'[o] = "failed"}
  <2>3. IsFiniteSet(F) /\ G \subseteq F \union {h}
    BY <2>1, FS_Subset, SessionAssumption DEF HooksOK
  <2>4. Cardinality(G) <= kills + 1 /\ kills + 1 \in Nat
    BY SMTT(30), <1>1, <2>3, FailuresCount
  <2>5. \A o \in Hooks : step'[o] = "load" \/ (step'[o] = step[o] /\ o # h)
    BY <2>1 DEF HooksOK
  <2> QED
    BY <1>1, <1>12, <2>1, <2>2, <2>4, <2>5 DEF SoloOK, Kill
<1> QED
  BY <1>3, <1>5, <1>6, <1>7, <1>8, <1>9, <1>10, <1>11, <1>12 DEF SessionNext

\* The invariant of the session file.
THEOREM SessionInvariance == SessionSpec => []SessionInv
<1>1. ASSUME SessionInit PROVE SessionInv
  <2>1. Cardinality(Hooks) \in Nat /\ Cardinality(Inodes) \in Nat /\ \E n : n \in Inodes
    <3>1. Cardinality(Hooks) \in Nat /\ Cardinality(Inodes) \in Nat
      BY FS_CardinalityType, SessionAssumption
    <3>2. Inodes # {}
      BY <3>1, FS_EmptySet, SessionAssumption
    <3> QED
      BY <3>1, <3>2
  <2>2. Unused({}) \in Inodes
    BY <2>1 DEF Unused
  <2>3. /\ transcript = Signature(1, 0) /\ transcript \in Transcripts
        /\ NotAfter(transcript, transcript)
    BY <1>1, SessionAssumption DEF SessionInit, Signature, Transcripts, NotAfter
  <2>4. HooksOK
    BY <1>1 DEF SessionInit, HooksOK
  <2>5. Counted = {} /\ Cardinality(Counted) = 0
    BY <1>1, FS_EmptySet DEF SessionInit, Counted
  <2>6. Past(Fresh)
    BY <2>1, <2>5, FreshIsPast
  <2>7. Past([Fresh EXCEPT !.signature = transcript])
    <3>1. PICK s : s = [Fresh EXCEPT !.signature = transcript]
      OBVIOUS
    <3>2. s = [turn |-> 0, signature |-> transcript, flag |-> FALSE]
      BY <3>1 DEF Fresh
    <3>3. 0 \in 0..Cardinality(Hooks) /\ transcript \in Signatures
      BY <2>1, <2>3 DEF Signatures
    <3>4. s \in States /\ s.turn = 0 /\ s.signature = transcript
      BY <3>2, <3>3 DEF States
    <3> QED
      BY <2>3, <2>5, <3>1, <3>4 DEF Past
  <2>8. FilesOK
    <3>1. \A n \in Inodes : inode[n] = Torn \/ Past(inode[n])
      BY <1>1, <2>7 DEF SessionInit
    <3>2. inode \in [Inodes -> States \union {Torn}]
      BY <1>1, <2>7 DEF SessionInit, Past
    <3>3. state \in [Hooks -> States] /\ \A h \in Hooks : Past(state[h])
      BY <1>1, <2>6 DEF SessionInit, Past
    <3> QED
      BY <1>1, <2>2, <2>3, <3>1, <3>2, <3>3 DEF SessionInit, FilesOK
  <2>9. {h \in Hooks : part[h] = "failed"} = {}
    BY <1>1 DEF SessionInit
  <2>10. SoloOK
    <3>1. file # NoInode => inode[file] # Torn
      BY <1>1, <2>2, <2>7, SessionAssumption DEF SessionInit, Past
    <3> QED
      BY <1>1, <2>9, <3>1, FS_EmptySet DEF SessionInit, SoloOK, Running, Ended
  <2> QED
    BY <2>4, <2>8, <2>10 DEF SessionInv
<1>2. SessionInv /\ [SessionNext]_sessionVars => SessionInv'
  BY HooksStayOK, FilesStayOK, SoloStaysOK DEF SessionInv
<1> QED
  BY <1>1, <1>2, PTL DEF SessionSpec

\* Hooks that run one after the other always find a whole file, and fail only
\* by dying, however many die in the middle of a save.
THEOREM SoloSavesAreWhole == SessionSpec => []SavesAreWhole
<1>1. SessionInv => SavesAreWhole
  BY DEF SessionInv, SoloOK, SavesAreWhole
<1> QED
  BY <1>1, SessionInvariance, PTL

\* However many hooks overlap, and in whatever order their saves land, a
\* compaction is reported only if there was one.
THEOREM AlarmsAreTrue == SessionSpec => NoFalseAlarm
<1>1. ASSUME SessionInv, [SessionNext]_sessionVars, NEW h \in Hooks, alarm'[h] /\ ~alarm[h]
      PROVE  state[h].signature.edition < transcript.edition
  <2>1. Sign(h)
    <3>1. \E g \in Hooks : Sign(g)
      BY <1>1 DEF SessionNext, sessionVars, Load, Open, Write, Rename, Unlink, PrintLine, Kill, Grow, Compact
    <3> QED
      BY <1>1, <3>1 DEF Sign, SessionInv, FilesOK
  <2>2. DetectCompaction(state[h].signature, transcript)
    BY <1>1, <2>1 DEF Sign, SessionInv, FilesOK
  <2>3. /\ state[h].signature \in Transcripts /\ transcript \in Transcripts
        /\ NotAfter(state[h].signature, transcript)
    <3>1. SessionInv
      BY <1>1
    <3>2. state[h].signature \in Signatures /\ state[h].signature # NoSignature
      BY <2>2, <3>1 DEF SessionInv, FilesOK, States, DetectCompaction
    <3> QED
      BY <3>1, <3>2 DEF SessionInv, FilesOK, Past, Signatures
  <2> QED
    BY <2>2, <2>3, SessionAssumption DEF DetectCompaction, NotAfter, Transcripts
<1>2. ASSUME SessionInv, [SessionNext]_sessionVars
      PROVE  \A h \in Hooks : alarm'[h] /\ ~alarm[h] => state[h].signature.edition < transcript.edition
  BY <1>1, <1>2
<1> QED
  BY <1>2, SessionInvariance, PTL DEF SessionSpec, NoFalseAlarm

\* The files hold states or torn ones, and a session counts no more prompts than
\* there were hooks.
THEOREM SessionTypeIsKept == SessionSpec => []SessionTypeOK
<1>1. SessionInv => SessionTypeOK
  BY DEF SessionInv, HooksOK, FilesOK, SessionTypeOK
<1> QED
  BY <1>1, SessionInvariance, PTL

-----------------------------------------------------------------------------
(* HistoryRestore: what the names of a repository and of the process hold.  *)

Places == Mirrored \union {"stage", "aside"}
Copies == SUBSET ((Restores \union Mirrored) \X (1..Size))
Busy == {"clear", "fill", "look", "move", "aside", "swap", "drop", "invalidate", "refresh"}

RestoreShape ==
  /\ disk \in [Places -> Copies]
  /\ restore \in [Restores -> Busy \union {"start", "done"}]
  /\ filled \in [Restores -> 0..Size]
  /\ reply \in [Restores -> {"none", "error", "skipped", "restored"}]
  /\ handle \in [Mirrored -> Copies] /\ opened \in [Readers -> Copies]
  /\ listed \subseteq Mirrored /\ owned \subseteq Mirrored /\ late \subseteq Mirrored
  /\ breaks \in 0..MaxBreaks /\ crashes \in 0..MaxCrashes

\* A restore at work, and what the temporary names hold then.
Works(r) ==
  /\ restore[r] \in {"fill", "look", "move", "aside", "swap"} => disk["stage"] = {r} \X (1..filled[r])
  /\ restore[r] \in {"look", "move", "aside", "swap"} => filled[r] = Size
  /\ restore[r] \in {"move", "swap"} => disk[Target(r)] = Nothing
  /\ restore[r] = "aside" => disk["aside"] = Nothing /\ disk[Target(r)] # Nothing
  /\ restore[r] = "swap" =>
       /\ \E o \in Of(Target(r)) : disk["aside"] = Repository(o)
       /\ handle[Target(r)] \in {Nothing, disk["aside"]} \/ Target(r) \in late
       /\ \A s \in Restores :
            Target(s) = Target(r) /\ reply[s] = "restored" => disk["aside"] # Repository(Target(r))
  /\ restore[r] \in {"drop", "invalidate", "refresh"} => disk[Target(r)] = Repository(r)

\* As long as nothing failed, the temporary names are in use or free.
NothingLeft ==
  breaks = 0 =>
    /\ (\A r \in Restores : restore[r] \notin {"fill", "look", "move", "aside", "swap"})
         => disk["stage"] = Nothing
    /\ (\A r \in Restores : restore[r] \notin {"swap", "drop"}) => disk["aside"] = Nothing

\* What is left of a repository, and of what was restored.
IsKept(g) ==
  /\ disk[g] = Nothing \/ \E o \in Of(g) : disk[g] = Repository(o)
  /\ g \in owned =>
       \/ \E o \in Of(g) : Repository(o) \in debris \union {disk[g]}
       \/ \E r \in Restores : Target(r) = g /\ restore[r] = "swap"
  /\ \A r \in Restores : Target(r) = g /\ reply[r] = "restored" => disk[g] # Repository(g)
  /\ handle[g] \in {Nothing, disk[g]} \/ Replacing(g) \/ g \in late

OneWorks ==
  /\ \A r, s \in Restores : Working(r) /\ Working(s) => r = s
  /\ \A r \in Restores : restore[r] \in {"start", "clear"} => filled[r] = 0
RestoresOK ==
  breaks <= 1 => NothingLeft /\ (\A r \in Restores : Works(r)) /\ (\A g \in Mirrored : IsKept(g))
RestoreInv == RestoreShape /\ OneWorks /\ RestoresOK

\* A repository has files, and two of one origin are the same.
LEMMA RepositoriesDiffer ==
  /\ \A o : Repository(o) # Nothing
  /\ \A o, p : Repository(o) = Repository(p) => o = p
  /\ \A o \in Restores \union Mirrored : Repository(o) \in Copies
<1>1. 1 \in 1..Size
  BY RestoreAssumption
<1>2. \A o : <<o, 1>> \in Repository(o)
  BY <1>1 DEF Repository
<1>3. \A o, p : <<o, 1>> \in Repository(p) => o = p
  BY DEF Repository
<1> QED
  BY <1>2, <1>3 DEF Repository, Nothing, Copies

\* Where one restore works, the others wait or are done.
LEMMA OthersRest ==
  ASSUME OneWorks, RestoreShape, NEW r \in Restores, Working(r), NEW s \in Restores, s # r
  PROVE  restore[s] \in {"start", "done"}
BY DEF OneWorks, Working

\* The types, and one restore at a time.
LEMMA ShapeStays ==
  ASSUME ~Overlap, RestoreShape, OneWorks, [RestoreNext]_restoreVars
  PROVE  RestoreShape' /\ OneWorks'
<1>1. Nothing \in Copies /\ \A n \in Mirrored \union {"stage", "aside"} : disk[n] \in Copies
  BY DEF RestoreShape, Nothing, Copies, Places
<1>2. Scanned \subseteq Mirrored /\ \A r \in Restores : Target(r) \in Mirrored
  BY DEF Scanned, Mirrored
<1>3. \A k \in Readers : ReadOf[k] \in Mirrored
  BY DEF Mirrored
<1>4. ASSUME NEW r \in Restores, LookUp(r) PROVE RestoreShape' /\ OneWorks'
  BY <1>4 DEF LookUp, Replies, GoesTo, RestoreShape, OneWorks, Working, readVars, Busy
<1>5. ASSUME NEW r \in Restores, ClearStage(r) \/ LookAtPath(r) \/ DropAside(r) PROVE RestoreShape' /\ OneWorks'
  <2>1. RestoreShape'
    BY <1>1, <1>5 DEF ClearStage, LookAtPath, DropAside, Removes, BreakTimes, GoesTo, RestoreShape, readVars, Busy,
          Places
  <2>2. OneWorks'
    BY <1>5 DEF ClearStage, LookAtPath, DropAside, GoesTo, RestoreShape, OneWorks, Working
  <2> QED
    BY <2>1, <2>2
<1>6. ASSUME NEW r \in Restores, FillStage(r) PROVE RestoreShape' /\ OneWorks'
  <2>1. OneWorks'
    BY <1>6 DEF FillStage, Breaks, Replies, GoesTo, RestoreShape, OneWorks, Working
  <2>2. CASE Breaks(r) \/ GoesTo(r, "look")
    <3>1. disk' = disk /\ filled' = filled /\ breaks' \in 0..MaxBreaks
      <4>1. CASE Breaks(r)
        BY <1>6, <4>1 DEF FillStage, Breaks, BreakTimes, RestoreShape
      <4>2. CASE GoesTo(r, "look")
        BY <1>6, <4>2 DEF FillStage, Breaks, BreakTimes, RestoreShape, GoesTo, Replies
      <4> QED
        BY <2>2, <4>1, <4>2
    <3> QED
      BY <1>6, <2>1, <2>2, <3>1 DEF FillStage, Breaks, Replies, GoesTo, RestoreShape, readVars, Busy
  <2>3. CASE ~Breaks(r) /\ ~GoesTo(r, "look")
    <3>1. filled[r] < Size /\ filled' = [filled EXCEPT ![r] = @ + 1]
          /\ disk' = [disk EXCEPT !["stage"] = @ \union {<<r, filled'[r]>>}]
          /\ breaks' = breaks /\ GoesTo(r, "fill")
      BY <1>6, <2>3 DEF FillStage
    <3>2. filled[r] \in 0..Size /\ Size \in Nat /\ filled'[r] = filled[r] + 1
      BY <3>1, RestoreAssumption DEF RestoreShape
    <3>3. filled[r] + 1 \in 0..Size /\ filled[r] + 1 \in 1..Size
      BY <3>1, <3>2
    <3>4. filled' \in [Restores -> 0..Size]
      BY <3>1, <3>3 DEF RestoreShape
    <3>5. disk["stage"] \union {<<r, filled'[r]>>} \in Copies
      BY <1>1, <3>2, <3>3 DEF Copies
    <3>6. disk' \in [Places -> Copies]
      BY <3>1, <3>5 DEF RestoreShape
    <3> QED
      BY <1>6, <2>1, <3>1, <3>4, <3>6 DEF FillStage, GoesTo, RestoreShape, readVars, Busy
  <2> QED
    BY <2>1, <2>2, <2>3
<1>7. ASSUME NEW r \in Restores, MoveIn(r) \/ SetAside(r) \/ SwapIn(r) PROVE RestoreShape' /\ OneWorks'
  <2>1. OneWorks'
    BY <1>7 DEF MoveIn, SetAside, SwapIn, Breaks, Replies, GoesTo, RestoreShape, OneWorks, Working
  <2>2. disk' \in [Places -> Copies]
    BY <1>1, <1>2, <1>7 DEF MoveIn, SetAside, SwapIn, Breaks, Renamed, RestoreShape, Places
  <2>3. breaks' \in 0..MaxBreaks
    BY <1>7, RestoreAssumption DEF MoveIn, SetAside, SwapIn, Breaks, BreakTimes, RestoreShape
  <2>4. /\ restore' \in [Restores -> Busy \union {"start", "done"}]
        /\ reply' \in [Restores -> {"none", "error", "skipped", "restored"}]
    BY <1>7 DEF MoveIn, SetAside, SwapIn, Breaks, Replies, GoesTo, RestoreShape, Busy
  <2>5. UNCHANGED <<filled, handle, opened, listed, owned, late, crashes>>
    BY <1>7 DEF MoveIn, SetAside, SwapIn, Breaks, Replies, GoesTo, readVars
  <2> QED
    BY <2>1, <2>2, <2>3, <2>4, <2>5 DEF RestoreShape
<1>8. ASSUME NEW r \in Restores, Invalidate(r) \/ Refresh(r) PROVE RestoreShape' /\ OneWorks'
  BY <1>1, <1>2, <1>8 DEF Invalidate, Refresh, Replies, boundVars, readVars, RestoreShape, OneWorks, Working, Busy
<1>9. ASSUME NEW k \in Readers, GetHandle(k) \/ CheckHandle(k) \/ OpenRepo(k) \/ InsertHandle(k)
      PROVE  RestoreShape' /\ OneWorks'
  BY <1>1, <1>3, <1>9 DEF GetHandle, CheckHandle, OpenRepo, InsertHandle, notReadVars, boundVars, RestoreShape,
     OneWorks, Working
<1>10. CASE ClientCrash
  BY <1>1, <1>2, <1>10, RestoreAssumption DEF ClientCrash, RestoreShape, OneWorks, Working, Places
<1>11. CASE UNCHANGED restoreVars
  BY <1>11 DEF restoreVars, readVars, boundVars, RestoreShape, OneWorks, Working
<1> QED
  BY <1>4, <1>5, <1>6, <1>7, <1>8, <1>9, <1>10, <1>11 DEF RestoreNext

\* No step breaks it, as long as only one file operation failed.
LEMMA RestoresStayOK ==
  ASSUME ~Overlap, RestoreInv, [RestoreNext]_restoreVars, breaks' <= 1
  PROVE  NothingLeft' /\ (\A r \in Restores : Works(r)') /\ (\A g \in Mirrored : IsKept(g)')
<1>0. RestoreShape /\ OneWorks /\ RestoreShape' /\ OneWorks'
  BY ShapeStays DEF RestoreInv
<1>1. breaks \in Nat /\ breaks' \in Nat /\ breaks <= breaks'
  BY <1>0, RestoreAssumption DEF RestoreShape, RestoreNext, restoreVars, boundVars, LookUp, ClearStage, FillStage,
     LookAtPath, MoveIn, SetAside, SwapIn, DropAside, Invalidate, Refresh, GetHandle, CheckHandle, OpenRepo,
     InsertHandle, ClientCrash, Breaks, BreakTimes, Removes, GoesTo, Replies, notReadVars
<1>2. NothingLeft /\ (\A r \in Restores : Works(r)) /\ (\A g \in Mirrored : IsKept(g))
  BY <1>1 DEF RestoreInv, RestoresOK
<1>3. \A r \in Restores : Target(r) \in Mirrored /\ Target(r) \notin {"stage", "aside"}
  BY RestoreAssumption DEF Mirrored
<1>4. \A r \in Restores, s \in Restores : Working(r) /\ s # r => restore[s] \in {"start", "done"}
  BY <1>0, OthersRest
<1>5. ASSUME NEW r \in Restores, LookUp(r)
      PROVE  NothingLeft' /\ (\A q \in Restores : Works(q)') /\ (\A g \in Mirrored : IsKept(g)')
  <2>1. \A s \in Restores : restore[s] \in {"start", "done"}
    BY <1>0, <1>5 DEF LookUp, Working
  <2>2. UNCHANGED <<disk, debris, owned, handle, late, breaks>>
    BY <1>5 DEF LookUp, Replies, GoesTo, readVars
  <2>3. /\ \A s \in Restores : restore'[s] \in {"start", "done", "clear"}
        /\ \A s \in Restores : reply'[s] = "restored" => reply[s] = "restored"
    BY <1>0, <1>5, <2>1 DEF LookUp, Replies, GoesTo, RestoreShape
  <2>4. NothingLeft'
    BY <1>2, <2>1, <2>2, <2>3 DEF NothingLeft
  <2>5. \A q \in Restores : Works(q)'
    BY <2>3 DEF Works
  <2>6. \A g \in Mirrored : IsKept(g)'
    BY <1>2, <2>1, <2>2, <2>3 DEF IsKept, Replacing
  <2> QED
    BY <2>4, <2>5, <2>6
<1>6. ASSUME NEW r \in Restores, ClearStage(r)
      PROVE  NothingLeft' /\ (\A q \in Restores : Works(q)') /\ (\A g \in Mirrored : IsKept(g)')
  <2>1. /\ restore[r] = "clear" /\ restore' = [restore EXCEPT ![r] = "fill"]
        /\ UNCHANGED <<reply, debris, owned, handle, late, filled>>
        /\ \A n \in Mirrored \union {"aside"} : disk'[n] = disk[n]
    BY <1>0, <1>6, RestoreAssumption DEF ClearStage, Removes, GoesTo, readVars, RestoreShape, Places
  <2>2. disk'["stage"] = Nothing
    <3>1. CASE breaks = 0
      <4>1. disk["stage"] = Nothing
        BY <1>0, <1>2, <1>4, <2>1, <3>1 DEF NothingLeft, Working
      <4> QED
        BY <1>0, <1>6, <4>1 DEF ClearStage, Removes, RestoreShape, Places
    <3>2. CASE breaks # 0
      <4>1. ~BreakTimes(1)
        BY <1>1, <3>2 DEF BreakTimes
      <4> QED
        BY <1>0, <1>6, <4>1 DEF ClearStage, Removes, RestoreShape, Places
    <3> QED
      BY <3>1, <3>2
  <2>3. filled[r] = 0 /\ {r} \X (1..0) = Nothing
    BY <1>0, <2>1 DEF OneWorks, Nothing
  <2>4. \A s \in Restores \ {r} : restore'[s] \in {"start", "done"}
    BY <1>0, <1>4, <2>1 DEF RestoreShape, Working
  <2>5. NothingLeft'
    BY <1>0, <1>1, <1>2, <1>4, <2>1, <2>4 DEF NothingLeft, Working, RestoreShape
  <2>6. \A q \in Restores : Works(q)'
    BY <1>0, <2>1, <2>2, <2>3, <2>4 DEF Works, RestoreShape
  <2>7. \A g \in Mirrored : IsKept(g)'
    BY <1>0, <1>2, <2>1 DEF IsKept, Replacing, RestoreShape
  <2> QED
    BY <2>5, <2>6, <2>7
<1>7. ASSUME NEW r \in Restores, FillStage(r)
      PROVE  NothingLeft' /\ (\A q \in Restores : Works(q)') /\ (\A g \in Mirrored : IsKept(g)')
  <2>1. /\ restore[r] = "fill" /\ \A s \in Restores \ {r} : restore'[s] = restore[s]
        /\ restore'[r] \in {"fill", "look", "done"}
        /\ UNCHANGED <<debris, owned, handle, late>>
        /\ \A n \in Mirrored \union {"aside"} : disk'[n] = disk[n]
        /\ \A s \in Restores : reply'[s] = "restored" => reply[s] = "restored"
    BY <1>0, <1>7, RestoreAssumption DEF FillStage, Breaks, Replies, GoesTo, readVars, RestoreShape, Places
  <2>2. \A s \in Restores \ {r} : restore'[s] \in {"start", "done"}
    BY <1>4, <2>1 DEF Working
  <2>3. restore'[r] = "done" => breaks' # 0
    BY <1>0, <1>1, <1>7 DEF FillStage, Breaks, BreakTimes, GoesTo, RestoreShape
  <2>4. restore'[r] \in {"fill", "look"} => disk'["stage"] = {r} \X (1..filled'[r])
    <3>1. filled[r] \in Nat /\ disk["stage"] = {r} \X (1..filled[r])
      BY <1>0, <1>2, <2>1, RestoreAssumption DEF Works, RestoreShape
    <3>2. CASE filled' = filled /\ disk' = disk
      BY <3>1, <3>2
    <3>3. CASE filled'[r] = filled[r] + 1 /\ disk'["stage"] = disk["stage"] \union {<<r, filled'[r]>>}
      <4>1. 1..(filled[r] + 1) = 1..filled[r] \union {filled[r] + 1}
        BY <3>1
      <4> QED
        BY <3>1, <3>3, <4>1
    <3> QED
      BY <1>0, <1>7, <3>2, <3>3 DEF FillStage, Breaks, GoesTo, RestoreShape, Places
  <2>5. restore'[r] = "look" => filled'[r] = Size
    BY <1>0, <1>7 DEF FillStage, Breaks, Replies, GoesTo, RestoreShape
  <2>6. NothingLeft'
    BY <1>1, <1>2, <1>4, <2>1, <2>2, <2>3 DEF NothingLeft, Working
  <2>7. \A q \in Restores : Works(q)'
    BY <2>1, <2>2, <2>4, <2>5 DEF Works
  <2>8. \A g \in Mirrored : IsKept(g)'
    BY <1>2, <2>1 DEF IsKept, Replacing
  <2> QED
    BY <2>6, <2>7, <2>8
<1>8. ASSUME NEW r \in Restores, LookAtPath(r)
      PROVE  NothingLeft' /\ (\A q \in Restores : Works(q)') /\ (\A g \in Mirrored : IsKept(g)')
  <2>1. /\ restore[r] = "look" /\ restore'[r] \in {"move", "aside"}
        /\ restore'[r] = "move" <=> disk[Target(r)] = Nothing
        /\ \A s \in Restores \ {r} : restore'[s] = restore[s]
        /\ UNCHANGED <<reply, debris, owned, handle, late, filled>>
        /\ \A n \in Mirrored \union {"stage"} : disk'[n] = disk[n]
    BY <1>0, <1>8, RestoreAssumption DEF LookAtPath, Removes, GoesTo, readVars, RestoreShape, Places
  <2>2. \A s \in Restores \ {r} : restore'[s] \in {"start", "done"}
    BY <1>4, <2>1 DEF Working
  <2>3. breaks = 0 => disk["aside"] = Nothing
    BY <1>2, <1>4, <2>1 DEF NothingLeft, Working
  <2>4. restore'[r] = "aside" => disk'["aside"] = Nothing
    <3>1. CASE breaks = 0
      BY <1>0, <1>8, <2>3, <2>1, <3>1 DEF LookAtPath, Removes, RestoreShape, Places
    <3>2. CASE breaks # 0
      <4>1. ~BreakTimes(1)
        BY <1>1, <3>2 DEF BreakTimes
      <4> QED
        BY <1>0, <1>8, <2>1, <4>1 DEF LookAtPath, Removes, RestoreShape, Places
    <3> QED
      BY <3>1, <3>2
  <2>5. breaks' = 0 => disk'["aside"] = Nothing
    <3>1. disk'["aside"] \in {disk["aside"], Nothing}
      BY <1>0, <1>8 DEF LookAtPath, Removes, RestoreShape, Places
    <3> QED
      BY <1>1, <2>3, <3>1
  <2>6. NothingLeft'
    BY <2>1, <2>5 DEF NothingLeft
  <2>7. \A q \in Restores : Works(q)'
    BY <1>2, <1>3, <2>1, <2>2, <2>4 DEF Works
  <2>8. \A g \in Mirrored : IsKept(g)'
    BY <1>2, <2>1 DEF IsKept, Replacing
  <2> QED
    BY <2>6, <2>7, <2>8
<1>9. ASSUME NEW r \in Restores, MoveIn(r)
      PROVE  NothingLeft' /\ (\A q \in Restores : Works(q)') /\ (\A g \in Mirrored : IsKept(g)')
  <2>1. /\ restore[r] = "move" /\ restore'[r] \in {"invalidate", "done"}
        /\ \A s \in Restores \ {r} : restore'[s] = restore[s]
        /\ UNCHANGED <<debris, owned, handle, late, filled>>
        /\ \A s \in Restores : reply'[s] = "restored" => reply[s] = "restored"
    BY <1>0, <1>9 DEF MoveIn, Breaks, Replies, GoesTo, readVars, RestoreShape
  <2>2. \A s \in Restores \ {r} : restore'[s] \in {"start", "done"}
    BY <1>4, <2>1 DEF Working
  <2>3. disk["stage"] = Repository(r) /\ disk[Target(r)] = Nothing
    BY <1>2, <2>1 DEF Works, Repository
  <2>4. CanRename("stage", Target(r))
    BY <2>3, RepositoriesDiffer DEF CanRename
  <2>5. CASE restore'[r] = "done"
    <3>1. disk' = disk /\ breaks' # 0
      BY <1>0, <1>1, <1>9, <2>4, <2>5 DEF MoveIn, Breaks, BreakTimes, GoesTo, RestoreShape
    <3>2. NothingLeft'
      BY <3>1 DEF NothingLeft
    <3>3. \A q \in Restores : Works(q)'
      BY <2>2, <2>5 DEF Works
    <3>4. \A g \in Mirrored : IsKept(g)'
      BY <1>2, <2>1, <3>1 DEF IsKept, Replacing
    <3> QED
      BY <3>2, <3>3, <3>4
  <2>6. CASE restore'[r] = "invalidate"
    <3>1. /\ disk'[Target(r)] = Repository(r) /\ disk'["stage"] = Nothing /\ breaks' = breaks
          /\ \A n \in (Mirrored \union {"aside"}) \ {Target(r)} : disk'[n] = disk[n]
      BY <1>0, <1>3, <1>9, <2>3, <2>6, RestoreAssumption
         DEF MoveIn, Breaks, Renamed, Replies, GoesTo, RestoreShape, Places
    <3>2. NothingLeft'
      BY <1>2, <1>3, <1>4, <2>1, <3>1 DEF NothingLeft, Working
    <3>3. \A q \in Restores : Works(q)'
      BY <2>2, <2>6, <3>1 DEF Works
    <3>4. ASSUME NEW g \in Mirrored, g # Target(r) PROVE IsKept(g)'
      BY <1>2, <2>1, <3>1, <3>4 DEF IsKept, Replacing
    <3>5. IsKept(Target(r))'
      BY <1>3, <2>6, <3>1, RepositoriesDiffer, RestoreAssumption DEF IsKept, Replacing, Of
    <3> QED
      BY <3>2, <3>3, <3>4, <3>5
  <2> QED
    BY <2>1, <2>5, <2>6
<1>10. ASSUME NEW r \in Restores, SetAside(r)
      PROVE  NothingLeft' /\ (\A q \in Restores : Works(q)') /\ (\A g \in Mirrored : IsKept(g)')
  <2>1. /\ restore[r] = "aside" /\ restore'[r] \in {"swap", "done"}
        /\ \A s \in Restores \ {r} : restore'[s] = restore[s]
        /\ UNCHANGED <<debris, owned, handle, late, filled>>
        /\ \A s \in Restores : reply'[s] = "restored" => reply[s] = "restored"
    BY <1>0, <1>10 DEF SetAside, Breaks, Replies, GoesTo, readVars, RestoreShape
  <2>2. \A s \in Restores \ {r} : restore'[s] \in {"start", "done"}
    BY <1>4, <2>1 DEF Working
  <2>3. /\ disk["stage"] = {r} \X (1..filled[r]) /\ filled[r] = Size
        /\ disk[Target(r)] # Nothing /\ disk["aside"] = Nothing
    BY <1>2, <2>1 DEF Works
  <2>4. CanRename(Target(r), "aside")
    BY <2>3 DEF CanRename
  <2>5. CASE restore'[r] = "done"
    <3>1. disk' = disk /\ breaks' # 0
      BY <1>0, <1>1, <1>10, <2>4, <2>5 DEF SetAside, Breaks, BreakTimes, GoesTo, RestoreShape
    <3>2. NothingLeft'
      BY <3>1 DEF NothingLeft
    <3>3. \A q \in Restores : Works(q)'
      BY <2>2, <2>5 DEF Works
    <3>4. \A g \in Mirrored : IsKept(g)'
      BY <1>2, <2>1, <3>1 DEF IsKept, Replacing
    <3> QED
      BY <3>2, <3>3, <3>4
  <2>6. CASE restore'[r] = "swap"
    <3>1. /\ disk'["aside"] = disk[Target(r)] /\ disk'[Target(r)] = Nothing /\ breaks' = breaks
          /\ \A n \in (Mirrored \union {"stage"}) \ {Target(r)} : disk'[n] = disk[n]
      BY <1>0, <1>3, <1>10, <2>6, RestoreAssumption
         DEF SetAside, Breaks, Renamed, Replies, GoesTo, RestoreShape, Places
    <3>2. NothingLeft'
      BY <2>6 DEF NothingLeft
    <3>3. Works(r)'
      <4>1. IsKept(Target(r))
        BY <1>2, <1>3
      <4>2. ~Replacing(Target(r))
        BY <1>4, <2>1 DEF Replacing, Working
      <4>3. /\ \E o \in Of(Target(r)) : disk'["aside"] = Repository(o)
            /\ handle[Target(r)] \in {Nothing, disk'["aside"]} \/ Target(r) \in late
            /\ \A s \in Restores :
                 Target(s) = Target(r) /\ reply[s] = "restored" => disk'["aside"] # Repository(Target(r))
        BY <2>3, <3>1, <4>1, <4>2 DEF IsKept
      <4> QED
        BY <1>3, <2>1, <2>3, <2>6, <3>1, <4>3 DEF Works
    <3>4. \A q \in Restores \ {r} : Works(q)'
      BY <2>2 DEF Works
    <3>5. ASSUME NEW g \in Mirrored, g # Target(r) PROVE IsKept(g)'
      BY <1>2, <2>1, <3>1, <3>5 DEF IsKept, Replacing
    <3>6. IsKept(Target(r))'
      BY <1>3, <2>6, <3>1, RepositoriesDiffer DEF IsKept, Replacing
    <3> QED
      BY <3>2, <3>3, <3>4, <3>5, <3>6
  <2> QED
    BY <2>1, <2>5, <2>6
<1>11. ASSUME NEW r \in Restores, SwapIn(r)
      PROVE  NothingLeft' /\ (\A q \in Restores : Works(q)') /\ (\A g \in Mirrored : IsKept(g)')
  <2>1. /\ restore[r] = "swap" /\ restore'[r] \in {"drop", "done"}
        /\ \A s \in Restores \ {r} : restore'[s] = restore[s]
        /\ UNCHANGED <<debris, owned, handle, late, filled>>
        /\ \A s \in Restores : reply'[s] = "restored" => reply[s] = "restored"
    BY <1>0, <1>11 DEF SwapIn, Replies, GoesTo, readVars, RestoreShape
  <2>2. \A s \in Restores \ {r} : restore'[s] \in {"start", "done"}
    BY <1>4, <2>1 DEF Working
  <2>3. disk["stage"] = Repository(r) /\ disk[Target(r)] = Nothing /\ Works(r)
    BY <1>2, <2>1 DEF Works, Repository
  <2>4. PICK o \in Of(Target(r)) : disk["aside"] = Repository(o)
    BY <2>1, <2>3 DEF Works
  <2>5. CanRename("stage", Target(r)) /\ CanRename("aside", Target(r))
    BY <2>3, <2>4, RepositoriesDiffer DEF CanRename
  <2>6. CASE restore'[r] = "done"
    <3>1. ~BreakTimes(2) /\ (BreakTimes(1) => breaks' # 0)
      BY <1>1 DEF BreakTimes
    <3>2. breaks' # 0 /\ disk' = Renamed("aside", Target(r))
      <4>1. BreakTimes(1) /\ disk' = Renamed("aside", Target(r))
        BY <1>0, <1>11, <2>5, <2>6, <3>1 DEF SwapIn, GoesTo, RestoreShape
      <4> QED
        BY <3>1, <4>1
    <3>3. /\ disk'[Target(r)] = disk["aside"]
          /\ \A g \in Mirrored \ {Target(r)} : disk'[g] = disk[g]
      BY <1>0, <1>3, <3>2, RestoreAssumption DEF Renamed, RestoreShape, Places
    <3>4. NothingLeft'
      BY <3>2 DEF NothingLeft
    <3>5. \A q \in Restores : Works(q)'
      BY <2>2, <2>6 DEF Works
    <3>6. ASSUME NEW g \in Mirrored, g # Target(r) PROVE IsKept(g)'
      BY <1>2, <2>1, <3>3, <3>6 DEF IsKept, Replacing
    <3>7. IsKept(Target(r))'
      <4>1. /\ handle[Target(r)] \in {Nothing, disk["aside"]} \/ Target(r) \in late
            /\ \A s \in Restores :
                 Target(s) = Target(r) /\ reply[s] = "restored" => disk["aside"] # Repository(Target(r))
        BY <2>1, <2>3 DEF Works
      <4> QED
        BY <2>1, <2>4, <3>3, <4>1 DEF IsKept
    <3> QED
      BY <3>4, <3>5, <3>6, <3>7
  <2>7. CASE restore'[r] = "drop"
    <3>1. disk' = Renamed("stage", Target(r)) /\ breaks' = breaks
      BY <1>0, <1>11, <2>7 DEF SwapIn, Replies, RestoreShape
    <3>2. /\ disk'[Target(r)] = Repository(r) /\ disk'["stage"] = Nothing
          /\ \A n \in (Mirrored \union {"aside"}) \ {Target(r)} : disk'[n] = disk[n]
      BY <1>0, <1>3, <2>3, <3>1, RestoreAssumption DEF Renamed, RestoreShape, Places
    <3>3. NothingLeft'
      BY <2>1, <2>7, <3>2 DEF NothingLeft
    <3>4. \A q \in Restores : Works(q)'
      BY <2>2, <2>7, <3>2 DEF Works
    <3>5. ASSUME NEW g \in Mirrored, g # Target(r) PROVE IsKept(g)'
      BY <1>2, <2>1, <3>2, <3>5 DEF IsKept, Replacing
    <3>6. IsKept(Target(r))'
      BY <1>3, <2>7, <3>2, RepositoriesDiffer, RestoreAssumption DEF IsKept, Replacing, Of
    <3> QED
      BY <3>3, <3>4, <3>5, <3>6
  <2> QED
    BY <2>1, <2>6, <2>7
<1>12. ASSUME NEW r \in Restores, DropAside(r)
      PROVE  NothingLeft' /\ (\A q \in Restores : Works(q)') /\ (\A g \in Mirrored : IsKept(g)')
  <2>1. /\ restore[r] = "drop" /\ restore' = [restore EXCEPT ![r] = "invalidate"]
        /\ UNCHANGED <<reply, debris, owned, handle, late, filled>>
        /\ \A n \in Mirrored \union {"stage"} : disk'[n] = disk[n]
    BY <1>0, <1>12, RestoreAssumption DEF DropAside, Removes, GoesTo, readVars, RestoreShape, Places
  <2>2. \A s \in Restores \ {r} : restore'[s] \in {"start", "done"}
    BY <1>0, <1>4, <2>1 DEF RestoreShape, Working
  <2>3. restore'[r] = "invalidate" /\ \A s \in Restores \ {r} : restore'[s] = restore[s]
    BY <1>0, <2>1 DEF RestoreShape
  <2>4. NothingLeft'
    <3>1. CASE breaks' = breaks
      <4>1. ~BreakTimes(1)
        BY <1>1, <3>1 DEF BreakTimes
      <4>2. disk'["aside"] = Nothing
        BY <1>0, <1>12, <4>1 DEF DropAside, Removes, RestoreShape, Places
      <4> QED
        BY <1>2, <1>4, <2>1, <2>3, <3>1, <4>2 DEF NothingLeft, Working
    <3>2. CASE breaks' # breaks
      BY <1>1, <3>2 DEF NothingLeft
    <3> QED
      BY <3>1, <3>2
  <2>5. \A q \in Restores : Works(q)'
    BY <1>2, <1>3, <2>1, <2>2, <2>3 DEF Works
  <2>6. \A g \in Mirrored : IsKept(g)'
    BY <1>2, <2>1, <2>3 DEF IsKept, Replacing
  <2> QED
    BY <2>4, <2>5, <2>6
<1>13. ASSUME NEW r \in Restores, Invalidate(r)
      PROVE  NothingLeft' /\ (\A q \in Restores : Works(q)') /\ (\A g \in Mirrored : IsKept(g)')
  <2>1. /\ restore[r] = "invalidate" /\ restore'[r] = "refresh"
        /\ \A s \in Restores \ {r} : restore'[s] = restore[s]
        /\ handle'[Target(r)] = Nothing
        /\ \A g \in Mirrored \ {Target(r)} : handle'[g] = handle[g] /\ (g \in late' <=> g \in late)
        /\ UNCHANGED <<reply, debris, owned, filled, disk, breaks>>
    BY <1>0, <1>3, <1>13 DEF Invalidate, boundVars, RestoreShape
  <2>2. \A s \in Restores \ {r} : restore'[s] \in {"start", "done"}
    BY <1>4, <2>1 DEF Working
  <2>3. NothingLeft'
    BY <1>2, <1>4, <2>1 DEF NothingLeft, Working
  <2>4. \A q \in Restores : Works(q)'
    BY <1>2, <2>1, <2>2 DEF Works
  <2>5. \A g \in Mirrored : IsKept(g)'
    BY <1>2, <2>1 DEF IsKept, Replacing
  <2> QED
    BY <2>3, <2>4, <2>5
<1>14. ASSUME NEW r \in Restores, Refresh(r)
      PROVE  NothingLeft' /\ (\A q \in Restores : Works(q)') /\ (\A g \in Mirrored : IsKept(g)')
  <2>1. /\ restore[r] = "refresh" /\ restore'[r] = "done"
        /\ \A s \in Restores \ {r} : restore'[s] = restore[s] /\ reply'[s] = reply[s]
        /\ UNCHANGED <<debris, filled, disk, breaks, handle, late>>
        /\ owned' = owned \union Scanned
    BY <1>0, <1>14 DEF Refresh, Replies, readVars, RestoreShape
  <2>2. \A s \in Restores \ {r} : restore'[s] \in {"start", "done"}
    BY <1>4, <2>1 DEF Working
  <2>3. disk[Target(r)] = Repository(r)
    BY <1>2, <2>1 DEF Works
  <2>4. NothingLeft'
    BY <1>2, <1>4, <2>1 DEF NothingLeft, Working
  <2>5. \A q \in Restores : Works(q)'
    BY <2>1, <2>2 DEF Works
  <2>6. ASSUME NEW g \in Mirrored PROVE IsKept(g)'
    <3>1. IsKept(g)
      BY <1>2
    <3>2. g \in Scanned => \E o \in Of(g) : disk[g] = Repository(o)
      BY <3>1, RepositoriesDiffer DEF Scanned, Whole, IsKept
    <3>3. \A s \in Restores : Target(s) = g /\ reply'[s] = "restored" => disk[g] # Repository(g)
      BY <2>1, <2>3, <3>1, RepositoriesDiffer, RestoreAssumption DEF IsKept
    <3> QED
      BY <2>1, <3>1, <3>2, <3>3 DEF IsKept, Replacing
  <2> QED
    BY <2>4, <2>5, <2>6
<1>15. ASSUME NEW k \in Readers, GetHandle(k) \/ OpenRepo(k)
       PROVE  NothingLeft' /\ (\A q \in Restores : Works(q)') /\ (\A g \in Mirrored : IsKept(g)')
  BY <1>2, <1>15 DEF GetHandle, OpenRepo, notReadVars, boundVars, NothingLeft, Works, IsKept, Replacing
<1>16. ASSUME NEW k \in Readers, CheckHandle(k) \/ InsertHandle(k)
       PROVE  NothingLeft' /\ (\A q \in Restores : Works(q)') /\ (\A g \in Mirrored : IsKept(g)')
  <2>1. UNCHANGED <<disk, debris, restore, filled, reply, owned, breaks>>
    BY <1>16 DEF CheckHandle, InsertHandle, notReadVars, boundVars
  <2>2. /\ \A g \in Mirrored \ {ReadOf[k]} : handle'[g] = handle[g] /\ (g \in late' <=> g \in late)
        /\ ReadOf[k] \in Mirrored
    BY <1>0, <1>16 DEF CheckHandle, InsertHandle, RestoreShape, Mirrored
  <2>3. \/ handle'[ReadOf[k]] \in {Nothing, disk[ReadOf[k]]} \/ ReadOf[k] \in late'
        \/ handle' = handle /\ late' = late
    BY <1>0, <1>16, <2>2 DEF CheckHandle, InsertHandle, RestoreShape
  <2>4. NothingLeft'
    BY <1>2, <2>1 DEF NothingLeft
  <2>5. ASSUME NEW r \in Restores PROVE Works(r)'
    <3>1. Works(r)
      BY <1>2
    <3>2. restore[r] = "swap" =>
            handle'[Target(r)] \in {Nothing, disk["aside"]} \/ Target(r) \in late'
      BY <1>3, <2>2, <2>3, <3>1 DEF Works
    <3> QED
      BY <2>1, <3>1, <3>2 DEF Works
  <2>6. \A g \in Mirrored : IsKept(g)'
    BY <1>2, <2>1, <2>2, <2>3 DEF IsKept, Replacing
  <2> QED
    BY <2>4, <2>5, <2>6
<1>17. CASE ClientCrash
  <2>1. /\ disk'["stage"] = Nothing /\ disk'["aside"] = Nothing
        /\ \A g \in Mirrored : disk'[g] = disk[g] /\ handle'[g] = Nothing
        /\ debris' = debris \union {disk["stage"], disk["aside"]}
        /\ \A r \in Restores : restore'[r] \in {"start", "done"}
        /\ UNCHANGED <<reply, owned, breaks>>
    BY <1>0, <1>17, RestoreAssumption DEF ClientCrash, RestoreShape, Places
  <2>2. NothingLeft'
    BY <2>1 DEF NothingLeft
  <2>3. \A r \in Restores : Works(r)'
    BY <2>1 DEF Works
  <2>4. ASSUME NEW g \in Mirrored PROVE IsKept(g)'
    <3>1. IsKept(g)
      BY <1>2
    <3>2. ASSUME NEW r \in Restores, Target(r) = g, restore[r] = "swap"
          PROVE  \E o \in Of(g) : Repository(o) \in debris'
      BY <1>2, <2>1, <3>2 DEF Works
    <3> QED
      BY <2>1, <3>1, <3>2 DEF IsKept
  <2> QED
    BY <2>2, <2>3, <2>4
<1>18. CASE UNCHANGED restoreVars
  BY <1>2, <1>18 DEF restoreVars, readVars, boundVars, NothingLeft, Works, IsKept, Replacing
<1>19. ASSUME NEW r \in Restores,
              LookUp(r) \/ ClearStage(r) \/ FillStage(r) \/ LookAtPath(r) \/ MoveIn(r) \/ SetAside(r)
                \/ SwapIn(r) \/ DropAside(r) \/ Invalidate(r) \/ Refresh(r)
       PROVE  NothingLeft' /\ (\A q \in Restores : Works(q)') /\ (\A g \in Mirrored : IsKept(g)')
  BY <1>5, <1>6, <1>7, <1>8, <1>9, <1>10, <1>11, <1>12, <1>13, <1>14, <1>19
<1> QED
  BY <1>15, <1>16, <1>17, <1>18, <1>19 DEF RestoreNext

\* The invariant of restores that do not overlap.
THEOREM RestoreInvariance == ASSUME ~Overlap PROVE RestoreSpec => []RestoreInv
<1>1. ASSUME RestoreInit PROVE RestoreInv
  <2>1. PICK gs \in SUBSET Mirrored :
          disk = [n \in Mirrored \union {"stage", "aside"} |-> IF n \in gs THEN Repository(n) ELSE Nothing]
    BY <1>1 DEF RestoreInit
  <2>2. Scanned \subseteq Mirrored /\ Nothing \in Copies
    BY DEF Scanned, Nothing, Copies
  <2>3. disk \in [Places -> Copies]
    BY <2>1, <2>2, RepositoriesDiffer DEF Places
  <2>4. RestoreShape
    BY <1>1, <2>2, <2>3, RestoreAssumption DEF RestoreInit, RestoreShape
  <2>5. OneWorks
    BY <1>1 DEF RestoreInit, OneWorks, Working
  <2>6. disk["stage"] = Nothing /\ disk["aside"] = Nothing
    BY <2>1, RestoreAssumption
  <2>7. NothingLeft /\ \A r \in Restores : Works(r)
    BY <1>1, <2>6 DEF RestoreInit, NothingLeft, Works
  <2>8. ASSUME NEW g \in Mirrored PROVE IsKept(g)
    <3>1. disk[g] = Nothing \/ disk[g] = Repository(g)
      BY <2>1
    <3>2. g \in Scanned => disk[g] # Nothing
      BY RepositoriesDiffer DEF Scanned, Whole
    <3> QED
      BY <1>1, <3>1, <3>2 DEF RestoreInit, IsKept, Of
  <2> QED
    BY <2>4, <2>5, <2>7, <2>8 DEF RestoreInv, RestoresOK
<1>2. RestoreInv /\ [RestoreNext]_restoreVars => RestoreInv'
  <2> SUFFICES ASSUME RestoreInv, [RestoreNext]_restoreVars PROVE RestoreInv'
    OBVIOUS
  <2>1. RestoreShape' /\ OneWorks'
    BY ShapeStays DEF RestoreInv
  <2>2. breaks' <= 1 => NothingLeft' /\ (\A r \in Restores : Works(r)') /\ (\A g \in Mirrored : IsKept(g)')
    BY RestoresStayOK
  <2> QED
    BY <2>1, <2>2 DEF RestoreInv, RestoresOK
<1> QED
  BY <1>1, <1>2, PTL DEF RestoreSpec

\* Restores that do not overlap leave every repository whole or absent, lose
\* none, and no handle serves what they replaced, whatever crashes and whichever
\* one file operation fails.
THEOREM RestoresKeepGroups == ASSUME ~Overlap PROVE RestoreSpec => []RestoresAreWhole
<1>1. ASSUME RestoreInv PROVE RestoresAreWhole
  <2>1. SUFFICES ASSUME breaks <= 1, NEW g \in Mirrored
                 PROVE  /\ disk[g] = Nothing \/ \E o \in Of(g) : disk[g] = Repository(o)
                        /\ g \in owned =>
                             \E o \in Of(g) : Repository(o) \in debris \union {disk[g], disk["aside"]}
                        /\ \A r \in Restores :
                             Target(r) = g /\ reply[r] = "restored" => disk[g] # Repository(g)
                        /\ handle[g] \in {Nothing, disk[g]} \/ Replacing(g) \/ g \in late
    BY DEF RestoresAreWhole
  <2>2. IsKept(g) /\ \A r \in Restores : Works(r)
    BY <1>1, <2>1 DEF RestoreInv, RestoresOK
  <2>3. \A r \in Restores : Target(r) = g /\ restore[r] = "swap" => \E o \in Of(g) : disk["aside"] = Repository(o)
    BY <2>2 DEF Works
  <2> QED
    BY <2>2, <2>3 DEF IsKept
<1> QED
  BY <1>1, RestoreInvariance, PTL

-----------------------------------------------------------------------------
(* GroupSetup: what the calls hold, have loaded and have made.              *)

SetupSpec == SetupInit /\ [][SetupNext]_setupVars

\* A call that goes on, or went on, with the config it loaded.
Live(c) == loaded[c] \in Projects /\ answer[c] # "error"
Created(c) == answer[c] = "created"
Makes(c) == ask[c].op \in {"init", "create"}
Writing == {"bare", "read", "write", "publish"}

SetupShape ==
  /\ config \in Projects \union {Missing, Empty}
  /\ repo = [u \in Uuids |-> repo[u]]
  /\ holder \in SetupCalls \union {Unheld}
  /\ loaded \in [SetupCalls -> Projects \union {Missing}]
  /\ answer \in [SetupCalls -> {"none", "error", "unchanged", "changed", "present", "created"}]
  /\ place = [c \in SetupCalls |-> place[c]]
  /\ refreshing = [k \in SetupCalls \union {Watcher} |-> refreshing[k]]
  /\ scanned = [k \in SetupCalls \union {Watcher} |-> scanned[k]]

AsksOK ==
  \A c \in SetupCalls :
    /\ ask[c].op \in {"none", "init", "create", "adopt", "subscribe", "unsubscribe"}
    /\ ask[c].op = "init" =>
         ask[c].uuid \in Given \union {NoUuid} /\ ask[c].slug \in SlugNames \union {NoSlug}
    /\ ask[c].op = "create" => ask[c].slug \in SlugNames
    /\ ask[c].op = "adopt" => ask[c].uuid \in Given /\ ask[c].slug \in SlugNames
    /\ ask[c].op = "subscribe" => ask[c].entry \in Entries

\* Where a call can be, which calls hold the process, and what they have loaded.
CallsOK ==
  \A c \in SetupCalls :
    /\ ask[c].op = "none" => place[c] = "done" /\ answer[c] = "none"
    /\ ask[c].op = "init" =>
         place[c] \in Writing \union {"enter", "load", "truncate", "fill", "look", "refresh", "done"}
    /\ ask[c].op = "create" => place[c] \in Writing \union {"enter", "list", "done"}
    /\ ask[c].op = "adopt" => place[c] \in Writing \union {"resolve", "get", "done"}
    /\ ask[c].op \in {"subscribe", "unsubscribe"} =>
         /\ place[c] \in {"check", "reload", "truncate", "fill", "done"}
         /\ answer[c] \notin {"created", "present"}
    /\ holder = c <=> Makes(c) /\ place[c] \notin {"enter", "done"}
    /\ place[c] # "done" => answer[c] = "none"
    /\ loaded[c] \in Projects => ask[c].op \in {"init", "subscribe", "unsubscribe"}
    /\ place[c] \in {"truncate", "fill", "look"} => loaded[c] \in Projects
    /\ ask[c].op = "init" /\ (place[c] \notin {"enter", "load", "done"} \/ answer[c] \in {"created", "present"})
         => loaded[c] \in Projects

\* All that is loaded, and the config, are of one uuid.
UuidOK ==
  /\ \A c, d \in SetupCalls : Live(c) /\ Live(d) => loaded[c].uuid = loaded[d].uuid
  /\ config \in Projects => \A c \in SetupCalls : Live(c) => loaded[c].uuid = config.uuid
  /\ config = Missing => \A c \in SetupCalls : Live(c) => holder = c /\ place[c] = "truncate"

\* The uuids of configs are no groups that a create makes, and the slug that an
\* init goes on with is one.
OriginsOK ==
  /\ \A c \in SetupCalls : ask[c].op = "init" /\ loaded[c] \in Projects => loaded[c].slug \in SlugNames
  /\ config \in Projects => \A d \in SetupCalls : ask[d].op = "create" => config.uuid # d
  /\ \A c, d \in SetupCalls : loaded[c] \in Projects /\ ask[d].op = "create" => loaded[c].uuid # d

\* Without imports the call that holds the process makes its group alone.
MakersOK ==
  NoImport =>
    \A c \in SetupCalls :
      /\ place[c] = "bare" => repo[GroupOf(c)] = Absent
      /\ place[c] \in {"read", "write"} => repo[GroupOf(c)] = Bare
      /\ place[c] = "publish" \/ Created(c) => repo[GroupOf(c)] = Manifest(SlugOf(c), c)
      /\ ask[c].op = "create" /\ place[c] \in {"enter", "list"} => repo[c] = Absent

\* Without a watcher either, the index has what the calls made, and no create
\* goes on with the slug of another.
IndexOK ==
  NoImport /\ ~watches =>
    /\ refreshing[Watcher] = "idle"
    /\ \A c \in SetupCalls :
         /\ refreshing[c] \in {"scanned", "writing"} =>
              holder = c /\ place[c] \in {"publish", "refresh"} /\ scanned[c] = Readable
         /\ Created(c) => <<GroupOf(c), SlugOf(c)>> \in indexed
    /\ \A c, d \in SetupCalls :
         /\ ask[c].op = "create" /\ ask[d].op = "create" /\ c # d
         /\ Created(c) /\ (Created(d) \/ place[d] \in Writing)
         => ask[c].slug # ask[d].slug

SetupInv == SetupShape /\ AsksOK /\ CallsOK /\ UuidOK /\ OriginsOK /\ MakersOK /\ IndexOK

\* A config is neither missing nor empty, and is one after each change.
LEMMA ProjectsAreWhole ==
  /\ Missing \notin Projects /\ Empty \notin Projects /\ Missing # Empty
  /\ \A p \in Projects : p.uuid \in Uuids
  /\ \A p \in Projects, s \in SlugNames \union {NoSlug} :
       [p EXCEPT !.slug = s] \in Projects /\ [p EXCEPT !.slug = s].uuid = p.uuid
       /\ [p EXCEPT !.slug = s].slug = s
  /\ \A p \in Projects, es \in SUBSET Entries :
       [p EXCEPT !.entries = es] \in Projects /\ [p EXCEPT !.entries = es].uuid = p.uuid
  /\ \A u \in Uuids, s \in SlugNames \union {NoSlug}, es \in SUBSET Entries :
       Project(u, s, es) \in Projects /\ Project(u, s, es).uuid = u
<1>1. Missing \notin Projects /\ Empty \notin Projects /\ Missing # Empty
  BY DEF Missing, Empty, Projects
<1>2. \A p \in Projects : p.uuid \in Uuids
  BY DEF Projects
<1>3. ASSUME NEW p \in Projects, NEW s \in SlugNames \union {NoSlug}
      PROVE  [p EXCEPT !.slug = s] \in Projects /\ [p EXCEPT !.slug = s].uuid = p.uuid
             /\ [p EXCEPT !.slug = s].slug = s
  BY DEF Projects
<1>4. ASSUME NEW p \in Projects, NEW es \in SUBSET Entries
      PROVE  [p EXCEPT !.entries = es] \in Projects /\ [p EXCEPT !.entries = es].uuid = p.uuid
  BY DEF Projects
<1>5. \A u \in Uuids, s \in SlugNames \union {NoSlug}, es \in SUBSET Entries :
        Project(u, s, es) \in Projects /\ Project(u, s, es).uuid = u
  BY DEF Projects, Project
<1> QED
  BY <1>1, <1>2, <1>3, <1>4, <1>5

\* What a load takes is a config, and of the uuid of the config that was there.
LEMMA LoadsAreProjects ==
  ASSUME SetupShape, AsksOK, NEW c \in SetupCalls
  PROVE  /\ ask[c].op = "init" /\ config # Empty /\ SlugFor(c) # NoSlug =>
              LET new == [Discovered(c) EXCEPT !.slug = SlugFor(c)] IN
              /\ new \in Projects /\ new.slug \in SlugNames
              /\ config \in Projects => new.uuid = config.uuid
              /\ config = Missing => new.uuid \in Given \union {c}
         /\ ask[c].op \in {"subscribe", "unsubscribe"} /\ config \in Projects =>
              Applied(c) \in Projects /\ Applied(c).uuid = config.uuid
<1>1. ASSUME ask[c].op = "init", config # Empty, SlugFor(c) # NoSlug
      PROVE  LET new == [Discovered(c) EXCEPT !.slug = SlugFor(c)] IN
             /\ new \in Projects /\ new.slug \in SlugNames
             /\ config \in Projects => new.uuid = config.uuid
             /\ config = Missing => new.uuid \in Given \union {c}
  <2>1. Minted(c) \in Projects /\ Minted(c).uuid \in Given \union {c}
    <3>1. ask[c].uuid \in Given \union {NoUuid}
      BY <1>1 DEF AsksOK
    <3>2. PICK u \in Given \union {c} : u = IF ask[c].uuid = NoUuid THEN c ELSE ask[c].uuid
      BY <3>1
    <3>3. Minted(c) = Project(u, NoSlug, {}) /\ u \in Uuids
      BY <3>2 DEF Minted, Uuids
    <3> QED
      BY <3>3, ProjectsAreWhole
  <2>2. Discovered(c) \in Projects /\ (config \in Projects => Discovered(c) = config)
        /\ (config = Missing => Discovered(c) = Minted(c))
    BY <1>1, <2>1, ProjectsAreWhole DEF Discovered, SetupShape
  <2>3. SlugFor(c) \in SlugNames
    <3>1. Discovered(c).slug \in SlugNames \union {NoSlug} /\ ask[c].slug \in SlugNames \union {NoSlug}
      BY <1>1, <2>2 DEF AsksOK, Projects
    <3> QED
      BY <1>1, <3>1 DEF SlugFor
  <2> QED
    BY <2>1, <2>2, <2>3, ProjectsAreWhole
<1>2. ASSUME ask[c].op \in {"subscribe", "unsubscribe"}, config \in Projects
      PROVE  Applied(c) \in Projects /\ Applied(c).uuid = config.uuid
  <2>1. config.entries \subseteq Entries
    BY <1>2 DEF Projects
  <2>2. PICK es \in SUBSET Entries :
          es = IF ask[c].op = "subscribe" THEN config.entries \union {ask[c].entry}
               ELSE config.entries \ {ask[c].entry}
    BY <1>2, <2>1 DEF AsksOK
  <2>3. Applied(c) = [config EXCEPT !.entries = es]
    BY <2>2 DEF Applied
  <2> QED
    BY <1>2, <2>3, ProjectsAreWhole
<1> QED
  BY <1>1, <1>2

\* The types, and where the calls are.
LEMMA CallsStayOK ==
  ASSUME SetupShape, AsksOK, CallsOK, [SetupNext]_setupVars
  PROVE  SetupShape' /\ AsksOK' /\ CallsOK'
<1>1. ask' = ask /\ watches' = watches
  BY DEF SetupNext, setupVars, ownVars, Enter, LoadOrMint, Check, Reload, Truncate, Fill, Look, CheckSlug, ResolveTarget,
     GetTarget, InitBare, ReadManifest, WriteManifest, WriteFails, RefreshIndex, RefreshEnds, Wake
<1>2. AsksOK'
  BY <1>1 DEF AsksOK
<1>3. \A c \in SetupCalls : c # Unheld /\ c # Watcher
  BY SetupAssumption
<1>4. ASSUME NEW c \in SetupCalls, Enter(c) PROVE SetupShape' /\ CallsOK'
  <2>1. SetupShape'
    BY <1>4 DEF Enter, Goto, SetupShape, indexerVars
  <2>2. CallsOK'
    BY <1>1, <1>3, <1>4 DEF Enter, Goto, SetupShape, CallsOK, AsksOK, Makes, Writing
  <2> QED
    BY <2>1, <2>2
<1>5. ASSUME NEW c \in SetupCalls, LoadOrMint(c) PROVE SetupShape' /\ CallsOK'
  <2>1. ask[c].op = "init" /\ place[c] = "load"
    BY <1>5 DEF LoadOrMint, CallsOK, AsksOK, Writing
  <2>2. CASE loaded' = loaded /\ Return(c, "error")
    <3>1. SetupShape'
      BY <1>5, <2>2 DEF LoadOrMint, Return, Goto, SetupShape, indexerVars
    <3>2. CallsOK'
      BY <1>1, <1>3, <2>1, <2>2 DEF Return, Goto, SetupShape, CallsOK, Makes, Writing
    <3> QED
      BY <3>1, <3>2
  <2>3. CASE ~(loaded' = loaded /\ Return(c, "error"))
    <3>1. PICK p \in {"truncate", "look"} : Proceed(c, p)
      BY <1>5, <2>3 DEF LoadOrMint
    <3>2. config # Empty /\ SlugFor(c) # NoSlug
          /\ loaded' = [loaded EXCEPT ![c] = [Discovered(c) EXCEPT !.slug = SlugFor(c)]]
      BY <1>5, <2>3 DEF LoadOrMint
    <3>3. [Discovered(c) EXCEPT !.slug = SlugFor(c)] \in Projects
      BY <2>1, <3>2, LoadsAreProjects
    <3>4. SetupShape'
      BY <1>5, <3>1, <3>2, <3>3 DEF LoadOrMint, Proceed, Goto, SetupShape, indexerVars
    <3>5. loaded'[c] \in Projects /\ \A d \in SetupCalls \ {c} : loaded'[d] = loaded[d]
      BY <3>2, <3>3 DEF SetupShape
    <3>6. CallsOK'
      BY <1>1, <1>3, <2>1, <3>1, <3>5 DEF Proceed, Goto, SetupShape, CallsOK, Makes, Writing
    <3> QED
      BY <3>4, <3>6
  <2> QED
    BY <2>2, <2>3
<1>6. ASSUME NEW c \in SetupCalls, Reload(c) PROVE SetupShape' /\ CallsOK'
  <2>1. ask[c].op \in {"subscribe", "unsubscribe"} /\ place[c] = "reload"
    BY <1>6 DEF Reload, CallsOK, AsksOK, Writing
  <2>2. CASE loaded' = loaded /\ \E a \in {"error", "unchanged"} : Return(c, a)
    <3>1. SetupShape'
      BY <1>6, <2>2 DEF Reload, Return, Goto, SetupShape, indexerVars
    <3>2. CallsOK'
      BY <1>1, <1>3, <2>1, <2>2 DEF Return, Goto, SetupShape, CallsOK, Makes, Writing
    <3> QED
      BY <3>1, <3>2
  <2>3. CASE config \in Projects /\ Proceed(c, "truncate") /\ loaded' = [loaded EXCEPT ![c] = Applied(c)]
    <3>1. Applied(c) \in Projects
      BY <2>1, <2>3, LoadsAreProjects
    <3>2. SetupShape'
      BY <1>6, <2>3, <3>1 DEF Reload, Proceed, Goto, SetupShape, indexerVars
    <3>3. loaded'[c] \in Projects /\ \A d \in SetupCalls \ {c} : loaded'[d] = loaded[d]
      BY <2>3, <3>1 DEF SetupShape
    <3>4. CallsOK'
      BY <1>1, <1>3, <2>1, <2>3, <3>3 DEF Proceed, Goto, SetupShape, CallsOK, Makes, Writing
    <3> QED
      BY <3>2, <3>4
  <2> QED
    BY <1>6, <2>2, <2>3 DEF Reload, SetupShape
<1>7. ASSUME NEW c \in SetupCalls, Truncate(c) \/ Fill(c) PROVE SetupShape' /\ CallsOK'
  <2>1. ask[c].op \in {"init", "subscribe", "unsubscribe"} /\ loaded[c] \in Projects /\ place[c] \in {"truncate", "fill"}
    BY <1>7 DEF Truncate, Fill, CallsOK, AsksOK, Writing
  <2>2. SetupShape'
    BY <1>7, <2>1 DEF Truncate, Fill, Proceed, Return, Goto, SetupShape, indexerVars
  <2>3. CallsOK'
    BY <1>1, <1>3, <1>7, <2>1 DEF Truncate, Fill, Proceed, Return, Goto, SetupShape, CallsOK, Makes, Writing
  <2> QED
    BY <2>2, <2>3
<1>8. ASSUME NEW c \in SetupCalls, Check(c) \/ Look(c) \/ CheckSlug(c) PROVE SetupShape' /\ CallsOK'
  <2>1. SetupShape'
    BY <1>8 DEF Check, Look, CheckSlug, Proceed, Return, Goto, SetupShape, indexerVars
  <2>2. CallsOK'
    BY <1>1, <1>3, <1>8 DEF Check, Look, CheckSlug, Proceed, Return, Goto, SetupShape, CallsOK, AsksOK, Makes, Writing
  <2> QED
    BY <2>1, <2>2
<1>9. ASSUME NEW c \in SetupCalls, ResolveTarget(c) \/ GetTarget(c) \/ ReadManifest(c) \/ WriteFails(c)
      PROVE  SetupShape' /\ CallsOK'
  <2>1. SetupShape'
    BY <1>9 DEF ResolveTarget, GetTarget, ReadManifest, WriteFails, Proceed, Return, Goto, SetupShape, indexerVars
  <2>2. CallsOK'
    BY <1>1, <1>3, <1>9 DEF ResolveTarget, GetTarget, ReadManifest, WriteFails, Proceed, Return, Goto, SetupShape, CallsOK,
          AsksOK, Makes, Writing
  <2> QED
    BY <2>1, <2>2
<1>10. ASSUME NEW c \in SetupCalls, InitBare(c) \/ WriteManifest(c) PROVE SetupShape' /\ CallsOK'
  <2>1. SetupShape'
    BY <1>10 DEF InitBare, WriteManifest, Proceed, Goto, SetupShape, indexerVars
  <2>2. CallsOK'
    BY <1>1, <1>3, <1>10 DEF InitBare, WriteManifest, Proceed, Goto, SetupShape, CallsOK, AsksOK, Makes, Writing
  <2> QED
    BY <2>1, <2>2
<1>11. ASSUME NEW c \in SetupCalls, RefreshIndex(c) PROVE SetupShape' /\ CallsOK'
  <2>1. SetupShape'
    BY <1>11 DEF RefreshIndex, Wake, ownVars, X!Scan, X!Lock, X!Install, SetupShape
  <2>2. CallsOK'
    BY <1>11 DEF RefreshIndex, Wake, ownVars, CallsOK, Makes
  <2> QED
    BY <2>1, <2>2
<1>12. ASSUME NEW c \in SetupCalls, RefreshEnds(c) PROVE SetupShape' /\ CallsOK'
  <2>1. SetupShape'
    BY <1>12 DEF RefreshEnds, X!Install, Proceed, Return, Goto, SetupShape
  <2>2. CallsOK'
    BY <1>1, <1>3, <1>12 DEF RefreshEnds, Proceed, Return, Goto, SetupShape, CallsOK, AsksOK, Makes, Writing
  <2> QED
    BY <2>1, <2>2
<1>13. CASE Wake
  <2>1. SetupShape'
    BY <1>13 DEF Wake, ownVars, X!Scan, X!Lock, X!Install, SetupShape
  <2>2. CallsOK'
    BY <1>13 DEF Wake, ownVars, CallsOK, Makes
  <2> QED
    BY <1>2, <2>1, <2>2
<1>14. CASE UNCHANGED setupVars
  BY <1>2, <1>14 DEF setupVars, ownVars, indexerVars, SetupShape, CallsOK, Makes
<1> QED
  BY <1>2, <1>4, <1>5, <1>6, <1>7, <1>8, <1>9, <1>10, <1>11, <1>12, <1>13, <1>14 DEF SetupNext

\* Who goes on with a config goes on with the uuid of every other.
LEMMA UuidsStayOK ==
  ASSUME SetupShape, AsksOK, CallsOK, UuidOK, OriginsOK, [SetupNext]_setupVars
  PROVE  UuidOK' /\ OriginsOK'
<1>1. ask' = ask
  BY DEF SetupNext, setupVars, ownVars, Enter, LoadOrMint, Check, Reload, Truncate, Fill, Look, CheckSlug, ResolveTarget,
     GetTarget, InitBare, ReadManifest, WriteManifest, WriteFails, RefreshIndex, RefreshEnds, Wake
<1>2. \A c \in SetupCalls : c # Unheld /\ c \notin Given
  BY SetupAssumption
<1>3. Missing \notin Projects /\ Empty \notin Projects /\ Missing # Empty
  BY ProjectsAreWhole
<1>4. ASSUME NEW c \in SetupCalls, UNCHANGED <<config, loaded>>,
             \/ Enter(c) \/ RefreshIndex(c)
             \/ place[c] # "truncate" /\ \E p : Proceed(c, p)
             \/ \E a : Return(c, a) /\ (place[c] # "truncate" \/ a = "error") /\ place[c] # "done"
      PROVE  UuidOK' /\ OriginsOK'
  <2>1. \A d \in SetupCalls : Live(d)' => Live(d)
    BY <1>4 DEF Live, Return, Proceed, Enter, RefreshIndex, ownVars, SetupShape, CallsOK
  <2>2. OriginsOK'
    BY <1>1, <1>4 DEF OriginsOK
  <2>3. ASSUME config' = Missing, NEW d \in SetupCalls, Live(d)' PROVE holder' = d /\ place'[d] = "truncate"
    <3>1. holder = d /\ place[d] = "truncate"
      BY <1>4, <2>1, <2>3 DEF UuidOK
    <3>2. CASE Enter(c) \/ RefreshIndex(c)
      BY <1>2, <3>1, <3>2 DEF Enter, RefreshIndex, ownVars
    <3>3. CASE place[c] # "truncate" /\ \E p : Proceed(c, p)
      BY <3>1, <3>3 DEF Proceed, Goto, SetupShape
    <3>4. CASE \E a : Return(c, a) /\ (place[c] # "truncate" \/ a = "error")
      BY <2>3, <3>1, <3>4 DEF Return, Goto, SetupShape, Live
    <3> QED
      BY <1>4, <3>2, <3>3, <3>4
  <2> QED
    BY <1>4, <2>1, <2>2, <2>3 DEF UuidOK
<1>5. ASSUME NEW c \in SetupCalls, LoadOrMint(c) PROVE UuidOK' /\ OriginsOK'
  <2>1. ask[c].op = "init" /\ place[c] = "load" /\ answer[c] = "none" /\ holder = c /\ config' = config
    BY <1>5 DEF LoadOrMint, CallsOK, AsksOK, Writing, Makes
  <2>2. CASE loaded' = loaded /\ Return(c, "error")
    BY <1>4, <2>1, <2>2
  <2>3. CASE ~(loaded' = loaded /\ Return(c, "error"))
    <3> DEFINE new == [Discovered(c) EXCEPT !.slug = SlugFor(c)]
    <3>1. /\ config # Empty /\ SlugFor(c) # NoSlug
          /\ loaded' = [loaded EXCEPT ![c] = new]
          /\ Proceed(c, IF loaded'[c] # config THEN "truncate" ELSE "look")
      BY <1>5, <2>3 DEF LoadOrMint
    <3>2. /\ new \in Projects /\ new.slug \in SlugNames
          /\ config \in Projects => new.uuid = config.uuid
          /\ config = Missing => new.uuid \in Given \union {c}
      BY <2>1, <3>1, LoadsAreProjects
    <3> HIDE DEF new
    <3>3. loaded'[c] = new /\ \A d \in SetupCalls \ {c} : loaded'[d] = loaded[d]
      BY <3>1 DEF SetupShape
    <3>4. answer' = answer /\ holder' = holder /\ \A d \in SetupCalls \ {c} : place'[d] = place[d]
      BY <3>1 DEF Proceed, Goto, SetupShape
    <3>5. \A d \in SetupCalls \ {c} : Live(d)' <=> Live(d)
      BY <3>3, <3>4 DEF Live
    <3>6. CASE config = Missing
      <4>1. place'[c] = "truncate"
        BY <1>3, <3>1, <3>2, <3>3, <3>6 DEF Proceed, Goto, SetupShape
      <4>2. \A d \in SetupCalls \ {c} : ~Live(d)
        BY <2>1, <3>6 DEF UuidOK
      <4>3. UuidOK'
        BY <1>3, <2>1, <3>4, <3>5, <3>6, <4>1, <4>2 DEF UuidOK
      <4>4. \A d \in SetupCalls : ask[d].op = "create" => new.uuid # d
        BY <1>2, <2>1, <3>2, <3>6
      <4> QED
        BY <1>1, <2>1, <3>2, <3>3, <4>3, <4>4 DEF OriginsOK
    <3>7. CASE config # Missing
      <4>1. config \in Projects /\ new.uuid = config.uuid
        BY <3>1, <3>2, <3>7 DEF SetupShape
      <4>2. UuidOK'
        BY <1>3, <2>1, <3>3, <3>5, <4>1 DEF UuidOK
      <4> QED
        BY <1>1, <2>1, <3>2, <3>3, <4>1, <4>2 DEF OriginsOK
    <3> QED
      BY <3>6, <3>7
  <2> QED
    BY <2>2, <2>3
<1>6. ASSUME NEW c \in SetupCalls, Reload(c) PROVE UuidOK' /\ OriginsOK'
  <2>1. ask[c].op \in {"subscribe", "unsubscribe"} /\ place[c] = "reload" /\ answer[c] = "none" /\ config' = config
    BY <1>6 DEF Reload, CallsOK, AsksOK, Writing
  <2>2. CASE loaded' = loaded /\ \E a \in {"error", "unchanged"} : Return(c, a)
    BY <1>4, <2>1, <2>2
  <2>3. CASE config \in Projects /\ Proceed(c, "truncate") /\ loaded' = [loaded EXCEPT ![c] = Applied(c)]
    <3>1. Applied(c) \in Projects /\ Applied(c).uuid = config.uuid
      BY <2>1, <2>3, LoadsAreProjects
    <3>2. loaded'[c].uuid = config.uuid /\ \A d \in SetupCalls \ {c} : loaded'[d] = loaded[d]
      BY <2>3, <3>1 DEF SetupShape
    <3>3. \A d \in SetupCalls \ {c} : Live(d)' <=> Live(d)
      BY <2>3, <3>2 DEF Live, Proceed
    <3>4. UuidOK'
      BY <1>3, <2>1, <2>3, <3>2, <3>3 DEF UuidOK
    <3> QED
      BY <1>1, <2>1, <2>3, <3>2, <3>4 DEF OriginsOK
  <2> QED
    BY <1>6, <2>2, <2>3 DEF Reload, SetupShape
<1>7. ASSUME NEW c \in SetupCalls, Truncate(c) PROVE UuidOK' /\ OriginsOK'
  <2>1. config' = Empty /\ loaded' = loaded /\ answer' = answer
    BY <1>7 DEF Truncate, Proceed
  <2> QED
    BY <1>1, <1>3, <2>1 DEF UuidOK, OriginsOK, Live
<1>8. ASSUME NEW c \in SetupCalls, Fill(c) PROVE UuidOK' /\ OriginsOK'
  <2>1. config' = loaded[c] /\ loaded' = loaded /\ loaded[c] \in Projects /\ Live(c)
    BY <1>8 DEF Fill, CallsOK, Live
  <2>2. \A d \in SetupCalls : Live(d)' => Live(d)
    BY <1>8, <2>1 DEF Fill, Live, Proceed, Return, SetupShape
  <2> QED
    BY <1>1, <1>3, <2>1, <2>2 DEF UuidOK, OriginsOK
<1>9. ASSUME NEW c \in SetupCalls,
             Enter(c) \/ Check(c) \/ Look(c) \/ CheckSlug(c) \/ ResolveTarget(c) \/ GetTarget(c)
      PROVE  UuidOK' /\ OriginsOK'
  BY <1>4, <1>9 DEF Enter, Check, Look, CheckSlug, ResolveTarget, GetTarget
<1>10. ASSUME NEW c \in SetupCalls, InitBare(c) \/ ReadManifest(c) \/ WriteManifest(c) \/ RefreshIndex(c)
       PROVE  UuidOK' /\ OriginsOK'
  BY <1>4, <1>10 DEF InitBare, ReadManifest, WriteManifest, RefreshIndex, ownVars
<1>11. ASSUME NEW c \in SetupCalls, WriteFails(c) \/ RefreshEnds(c) PROVE UuidOK' /\ OriginsOK'
  BY <1>4, <1>11 DEF WriteFails, RefreshEnds
<1>12. CASE Wake \/ UNCHANGED setupVars
  BY <1>1, <1>12 DEF Wake, setupVars, ownVars, UuidOK, OriginsOK, Live
<1> QED
  BY <1>5, <1>6, <1>7, <1>8, <1>9, <1>10, <1>11, <1>12 DEF SetupNext

\* Two calls do not make the same group, and none takes the group of a create.
LEMMA MakersStayOK ==
  ASSUME SetupShape, AsksOK, CallsOK, OriginsOK, MakersOK, [SetupNext]_setupVars
  PROVE  MakersOK'
<1>1. ask' = ask /\ watches' = watches
  BY DEF SetupNext, setupVars, ownVars, Enter, LoadOrMint, Check, Reload, Truncate, Fill, Look, CheckSlug, ResolveTarget,
     GetTarget, InitBare, ReadManifest, WriteManifest, WriteFails, RefreshIndex, RefreshEnds, Wake
<1>2. SUFFICES ASSUME NoImport PROVE MakersOK'
  BY <1>1 DEF MakersOK, NoImport
<1>3. \A c \in SetupCalls : c # Unheld /\ ask[c].op # "adopt"
  BY <1>2, SetupAssumption DEF NoImport
<1>4. \A c \in SetupCalls : place[c] \in Writing => holder = c /\ GroupOf(c) \in Uuids /\ SlugOf(c) \in SlugNames
  <2>1. ASSUME NEW c \in SetupCalls, place[c] \in Writing
        PROVE  holder = c /\ GroupOf(c) \in Uuids /\ SlugOf(c) \in SlugNames
    <3>1. CASE ask[c].op = "init"
      BY <2>1, <3>1, ProjectsAreWhole DEF CallsOK, Makes, Writing, OriginsOK, GroupOf, SlugOf
    <3>2. CASE ask[c].op = "create"
      BY <2>1, <3>2 DEF CallsOK, AsksOK, Makes, Writing, GroupOf, SlugOf, Uuids
    <3> QED
      BY <1>3, <2>1, <3>1, <3>2 DEF CallsOK, AsksOK, Writing
  <2> QED
    BY <2>1
<1>5. \A c, d \in SetupCalls : place[c] \in Writing /\ ask[d].op = "create" /\ c # d => GroupOf(c) # d
  BY <1>3 DEF CallsOK, AsksOK, Writing, OriginsOK, GroupOf
<1>6. /\ Bare # Absent
      /\ \A s \in SlugNames : \A c : Manifest(s, c) \notin {Bare, Absent} /\ Manifest(s, c).maker = c
  BY SetupAssumption DEF Bare, Absent, Manifest
<1>7. ASSUME NEW c \in SetupCalls, UNCHANGED <<repo, loaded>>,
             \/ \E p : Proceed(c, p) /\ p \notin {"bare", "read", "write", "publish", "enter", "list"}
             \/ \E a : Return(c, a) /\ a # "created"
      PROVE  MakersOK'
  <2>1. \A d \in SetupCalls : GroupOf(d)' = GroupOf(d) /\ SlugOf(d)' = SlugOf(d)
    BY <1>1, <1>7 DEF GroupOf, SlugOf
  <2>2. \A d \in SetupCalls :
          /\ place'[d] \in Writing \union {"enter", "list"} => place'[d] = place[d]
          /\ Created(d)' => Created(d)
    BY <1>7 DEF Proceed, Return, Goto, SetupShape, Writing, Created
  <2> QED
    BY <1>1, <1>2, <1>7, <2>1, <2>2 DEF MakersOK, Writing
<1>8. ASSUME NEW c \in SetupCalls, Enter(c) PROVE MakersOK'
  <2>1. /\ place' = [place EXCEPT ![c] = IF ask[c].op = "init" THEN "load" ELSE "list"]
        /\ place[c] = "enter" /\ UNCHANGED <<repo, loaded, answer>>
    BY <1>8 DEF Enter, Goto
  <2>2. \A d \in SetupCalls : GroupOf(d)' = GroupOf(d) /\ SlugOf(d)' = SlugOf(d)
    BY <1>1, <2>1 DEF GroupOf, SlugOf
  <2> QED
    BY <1>1, <1>2, <2>1, <2>2 DEF MakersOK, SetupShape, Created
<1>9. ASSUME NEW c \in SetupCalls, LoadOrMint(c) \/ Reload(c) PROVE MakersOK'
  <2>1. /\ \A d \in SetupCalls \ {c} : loaded'[d] = loaded[d] /\ place'[d] = place[d] /\ answer'[d] = answer[d]
        /\ repo' = repo /\ place'[c] \notin Writing \union {"enter", "list"} /\ ~Created(c)'
    BY <1>9 DEF LoadOrMint, Reload, Proceed, Return, Goto, SetupShape, CallsOK, Writing, Created
  <2>2. \A d \in SetupCalls \ {c} : GroupOf(d)' = GroupOf(d) /\ SlugOf(d)' = SlugOf(d)
    BY <1>1, <2>1 DEF GroupOf, SlugOf
  <2> QED
    BY <1>1, <1>2, <2>1, <2>2 DEF MakersOK, Writing, Created
<1>10. ASSUME NEW c \in SetupCalls, Check(c) \/ Truncate(c) \/ Fill(c) \/ WriteFails(c) PROVE MakersOK'
  BY <1>7, <1>10 DEF Check, Truncate, Fill, WriteFails
<1>11. ASSUME NEW c \in SetupCalls, ResolveTarget(c) \/ GetTarget(c) PROVE MakersOK'
  BY <1>3, <1>11 DEF ResolveTarget, GetTarget, CallsOK, AsksOK, Writing
<1>12. ASSUME NEW c \in SetupCalls, Look(c) \/ CheckSlug(c) PROVE MakersOK'
  <2>1. CASE \E a \in {"present", "error"} : Return(c, a)
    BY <1>7, <1>12, <2>1 DEF Look, CheckSlug
  <2>2. CASE Proceed(c, "refresh")
    BY <1>7, <1>12, <2>2 DEF Look, CheckSlug
  <2>3. CASE Proceed(c, "bare")
    <3>1. UNCHANGED <<repo, loaded, answer>> /\ place' = [place EXCEPT ![c] = "bare"] /\ place[c] \in {"look", "list"}
      BY <1>12, <2>3 DEF Look, CheckSlug, Proceed, Goto
    <3>2. \A d \in SetupCalls : GroupOf(d)' = GroupOf(d) /\ SlugOf(d)' = SlugOf(d)
      BY <1>1, <3>1 DEF GroupOf, SlugOf
    <3>3. repo[GroupOf(c)] = Absent
      <4>1. CASE Look(c)
        BY <2>3, <3>1, <4>1 DEF Look, Proceed, Return, Goto, SetupShape
      <4>2. CASE CheckSlug(c)
        BY <1>2, <4>2 DEF CheckSlug, CallsOK, AsksOK, Writing, MakersOK, GroupOf
      <4> QED
        BY <1>12, <4>1, <4>2
    <3>4. ~Created(c)
      BY <3>1 DEF CallsOK, Created
    <3> QED
      BY <1>1, <1>2, <3>1, <3>2, <3>3, <3>4 DEF MakersOK, SetupShape, Created
  <2> QED
    BY <1>12, <2>1, <2>2, <2>3 DEF Look, CheckSlug
<1>13. ASSUME NEW c \in SetupCalls, InitBare(c) \/ WriteManifest(c) PROVE MakersOK'
  <2>1. /\ place[c] \in {"bare", "write"} /\ UNCHANGED <<loaded, answer>>
        /\ place' = [place EXCEPT ![c] = IF place[c] = "bare" THEN "read" ELSE "publish"]
        /\ \A u \in Uuids \ {GroupOf(c)} : repo'[u] = repo[u]
    BY <1>13 DEF InitBare, WriteManifest, Proceed, Goto, SetupShape
  <2>2. \A d \in SetupCalls : GroupOf(d)' = GroupOf(d) /\ SlugOf(d)' = SlugOf(d)
    BY <1>1, <2>1 DEF GroupOf, SlugOf
  <2>3. GroupOf(c) \in Uuids /\ holder = c /\ ~Created(c)
    BY <1>4, <2>1 DEF Writing, CallsOK, Created
  <2>4. repo[GroupOf(c)] = IF place[c] = "bare" THEN Absent ELSE Bare
    BY <1>2, <2>1 DEF MakersOK
  <2>5. repo'[GroupOf(c)] = IF place[c] = "bare" THEN Bare ELSE Manifest(SlugOf(c), c)
    BY <1>13, <2>1, <2>3, <2>4 DEF InitBare, WriteManifest, SetupShape
  <2>6. ASSUME NEW d \in SetupCalls, d # c PROVE place'[d] = place[d] /\ place[d] \notin Writing
    BY <1>4, <2>1, <2>3, <2>6 DEF SetupShape
  <2>7. ASSUME NEW d \in SetupCalls, d # c, Created(d) PROVE repo'[GroupOf(d)] = Manifest(SlugOf(d), d)
    <3>1. repo[GroupOf(d)] = Manifest(SlugOf(d), d)
      BY <1>2, <2>7 DEF MakersOK
    <3>2. ask[d].op \in {"init", "create"} /\ (ask[d].op = "init" => loaded[d] \in Projects)
      BY <1>3, <2>7 DEF CallsOK, AsksOK, Created
    <3>3. GroupOf(d) \in Uuids /\ SlugOf(d) \in SlugNames
      BY <3>2, ProjectsAreWhole DEF AsksOK, OriginsOK, GroupOf, SlugOf, Uuids
    <3>4. GroupOf(d) # GroupOf(c)
      BY <1>6, <2>4, <3>1, <3>3
    <3> QED
      BY <2>1, <3>1, <3>3, <3>4
  <2>8. ASSUME NEW d \in SetupCalls, d # c, ask[d].op = "create", place[d] \in {"enter", "list"}
        PROVE  repo'[d] = Absent
    BY <1>2, <1>5, <2>1, <2>8 DEF MakersOK, Writing, Uuids
  <2> QED
    BY <1>1, <1>2, <2>1, <2>2, <2>3, <2>5, <2>6, <2>7, <2>8 DEF MakersOK, SetupShape, Writing, Created
<1>14. ASSUME NEW c \in SetupCalls, ReadManifest(c) PROVE MakersOK'
  <2>1. place[c] = "read" /\ UNCHANGED <<repo, loaded, answer>>
    BY <1>14 DEF ReadManifest, Proceed
  <2>2. ~HasManifest(GroupOf(c)) /\ repo[GroupOf(c)] = Bare /\ ~Created(c)
    BY <1>2, <2>1 DEF MakersOK, HasManifest, CallsOK, Created
  <2>3. place' = [place EXCEPT ![c] = "write"]
    BY <1>14, <2>2 DEF ReadManifest, Proceed, Goto
  <2>4. \A d \in SetupCalls : GroupOf(d)' = GroupOf(d) /\ SlugOf(d)' = SlugOf(d)
    BY <1>1, <2>1 DEF GroupOf, SlugOf
  <2> QED
    BY <1>1, <1>2, <2>1, <2>2, <2>3, <2>4 DEF MakersOK, SetupShape, Created
<1>15. ASSUME NEW c \in SetupCalls, RefreshEnds(c) PROVE MakersOK'
  <2>1. /\ UNCHANGED <<repo, loaded>> /\ place' = [place EXCEPT ![c] = "done"]
        /\ answer' = [answer EXCEPT ![c] = IF place[c] = "publish" THEN "created" ELSE "present"]
    BY <1>3, <1>15 DEF RefreshEnds, Return, Goto
  <2>2. \A d \in SetupCalls : GroupOf(d)' = GroupOf(d) /\ SlugOf(d)' = SlugOf(d)
    BY <1>1, <2>1 DEF GroupOf, SlugOf
  <2> QED
    BY <1>1, <1>2, <2>1, <2>2 DEF MakersOK, SetupShape, Created
<1>16. CASE (\E c \in SetupCalls : RefreshIndex(c)) \/ Wake \/ UNCHANGED setupVars
  <2>1. UNCHANGED ownVars
    BY <1>16 DEF RefreshIndex, Wake, setupVars
  <2> QED
    BY <1>2, <2>1 DEF ownVars, MakersOK, GroupOf, SlugOf, Created
<1> QED
  BY <1>8, <1>9, <1>10, <1>11, <1>12, <1>13, <1>14, <1>15, <1>16 DEF SetupNext

\* Where only the calls refresh, each installs what its scan found, and nobody
\* makes a group in between.
LEMMA IndexStaysOK ==
  ASSUME SetupShape, AsksOK, CallsOK, OriginsOK, MakersOK, IndexOK, [SetupNext]_setupVars
  PROVE  IndexOK'
<1>1. ask' = ask /\ watches' = watches
  BY DEF SetupNext, setupVars, ownVars, Enter, LoadOrMint, Check, Reload, Truncate, Fill, Look, CheckSlug, ResolveTarget,
     GetTarget, InitBare, ReadManifest, WriteManifest, WriteFails, RefreshIndex, RefreshEnds, Wake
<1>2. SUFFICES ASSUME NoImport, ~watches PROVE IndexOK'
  BY <1>1 DEF IndexOK, NoImport
<1>3. /\ refreshing[Watcher] = "idle"
      /\ \A c \in SetupCalls :
           /\ c # Unheld /\ c # Watcher /\ ask[c].op # "adopt"
           /\ refreshing[c] \in {"scanned", "writing"} =>
                holder = c /\ place[c] \in {"publish", "refresh"} /\ scanned[c] = Readable
           /\ Created(c) => <<GroupOf(c), SlugOf(c)>> \in indexed
           /\ place[c] \in Writing \union {"refresh"} => holder = c
  BY <1>2, SetupAssumption DEF IndexOK, NoImport, CallsOK, AsksOK, Makes, Writing
<1>4. \A c, d \in SetupCalls :
        ask[c].op = "create" /\ ask[d].op = "create" /\ c # d /\ Created(c) /\ (Created(d) \/ place[d] \in Writing)
          => ask[c].slug # ask[d].slug
  BY <1>2 DEF IndexOK
<1>5. ASSUME NEW c \in SetupCalls, UNCHANGED <<repo, loaded, indexerVars>>, place[c] \notin {"publish", "refresh"},
             \/ \E p : /\ Proceed(c, p)
                       /\ p \in Writing /\ ask[c].op = "create" =>
                            \/ place[c] \in Writing
                            \/ \A d \in SetupCalls : ask[d].op = "create" /\ Created(d) => ask[d].slug # ask[c].slug
             \/ \E a : Return(c, a) /\ a # "created"
      PROVE  IndexOK'
  <2>1. \A d \in SetupCalls : GroupOf(d)' = GroupOf(d) /\ SlugOf(d)' = SlugOf(d)
    BY <1>1, <1>5 DEF GroupOf, SlugOf
  <2>2. Readable' = Readable
    BY <1>5 DEF Readable, HasManifest
  <2>3. \A d \in SetupCalls \ {c} : place'[d] = place[d] /\ answer'[d] = answer[d]
    BY <1>5 DEF Proceed, Return, Goto, SetupShape
  <2>4. holder # c => holder' = holder
    BY <1>5 DEF Proceed, Return
  <2>5. Created(c)' => Created(c)
    BY <1>5 DEF Proceed, Return, SetupShape, Created
  <2>6. \A d \in SetupCalls : refreshing'[d] \in {"scanned", "writing"} =>
          holder' = d /\ place'[d] \in {"publish", "refresh"} /\ scanned'[d] = Readable'
    BY <1>3, <1>5, <2>2, <2>3, <2>4 DEF indexerVars
  <2>7. \A d \in SetupCalls : Created(d)' => <<GroupOf(d)', SlugOf(d)'>> \in indexed'
    BY <1>3, <1>5, <2>1, <2>3, <2>5 DEF indexerVars, Created
  <2>8. place'[c] \in Writing /\ ask[c].op = "create" =>
          \/ place[c] \in Writing
          \/ \A d \in SetupCalls : ask[d].op = "create" /\ Created(d) => ask[d].slug # ask[c].slug
    BY <1>5 DEF Proceed, Return, Goto, SetupShape, Writing
  <2>9. \A b, d \in SetupCalls :
          ask[b].op = "create" /\ ask[d].op = "create" /\ b # d /\ Created(b)' /\ (Created(d)' \/ place'[d] \in Writing)
            => ask[b].slug # ask[d].slug
    BY <1>4, <2>3, <2>5, <2>8 DEF Created
  <2>10. refreshing'[Watcher] = "idle"
    BY <1>3, <1>5 DEF indexerVars
  <2> QED
    BY <1>1, <2>6, <2>7, <2>9, <2>10 DEF IndexOK, Writing
<1>6. ASSUME NEW c \in SetupCalls, Enter(c) PROVE IndexOK'
  <2>1. /\ place' = [place EXCEPT ![c] = IF ask[c].op = "init" THEN "load" ELSE "list"]
        /\ place[c] = "enter" /\ UNCHANGED <<repo, loaded, answer, indexerVars>> /\ holder = Unheld
    BY <1>6 DEF Enter, Goto
  <2>2. \A d \in SetupCalls : GroupOf(d)' = GroupOf(d) /\ SlugOf(d)' = SlugOf(d)
    BY <1>1, <2>1 DEF GroupOf, SlugOf
  <2>3. \A d \in SetupCalls : refreshing'[d] \notin {"scanned", "writing"} /\ (place'[d] \in Writing => place[d] \in Writing)
    BY <1>3, <2>1 DEF indexerVars, SetupShape, Writing
  <2> QED
    BY <1>1, <1>3, <1>4, <2>1, <2>2, <2>3 DEF IndexOK, Created, indexerVars
<1>7. ASSUME NEW c \in SetupCalls, LoadOrMint(c) \/ Reload(c) PROVE IndexOK'
  <2>1. /\ \A d \in SetupCalls \ {c} : loaded'[d] = loaded[d] /\ place'[d] = place[d] /\ answer'[d] = answer[d]
        /\ repo' = repo /\ place[c] \in {"load", "reload"} /\ place'[c] \notin Writing /\ ~Created(c)'
        /\ UNCHANGED indexerVars /\ (holder # c => holder' = holder)
    BY <1>7 DEF LoadOrMint, Reload, Proceed, Return, Goto, SetupShape, CallsOK, Writing, Created
  <2>2. \A d \in SetupCalls \ {c} : GroupOf(d)' = GroupOf(d) /\ SlugOf(d)' = SlugOf(d)
    BY <1>1, <2>1 DEF GroupOf, SlugOf
  <2>3. Readable' = Readable
    BY <2>1 DEF Readable, HasManifest
  <2>4. \A d \in SetupCalls : refreshing'[d] \in {"scanned", "writing"} =>
          holder' = d /\ place'[d] \in {"publish", "refresh"} /\ scanned'[d] = Readable'
    BY <1>3, <2>1, <2>3 DEF indexerVars
  <2> QED
    BY <1>1, <1>3, <1>4, <2>1, <2>2, <2>4 DEF IndexOK, Created, indexerVars
<1>8. ASSUME NEW c \in SetupCalls, Truncate(c) \/ Fill(c) \/ WriteFails(c) \/ ReadManifest(c) PROVE IndexOK'
  BY <1>5, <1>8 DEF Truncate, Fill, WriteFails, ReadManifest, Writing
<1>9. ASSUME NEW c \in SetupCalls, Check(c) \/ ResolveTarget(c) \/ GetTarget(c) PROVE IndexOK'
  <2>1. Check(c)
    BY <1>3, <1>9 DEF ResolveTarget, GetTarget, CallsOK, AsksOK, Writing
  <2> QED
    BY <1>5, <2>1 DEF Check, Writing
<1>10. ASSUME NEW c \in SetupCalls, Look(c) PROVE IndexOK'
  <2>1. ask[c].op = "init"
    BY <1>10 DEF Look, CallsOK, AsksOK, Writing
  <2> QED
    BY <1>5, <1>10, <2>1 DEF Look
<1>11. ASSUME NEW c \in SetupCalls, CheckSlug(c) PROVE IndexOK'
  <2>1. CASE Return(c, "error")
    BY <1>5, <1>11, <2>1 DEF CheckSlug
  <2>2. CASE Proceed(c, "bare") /\ \A e \in indexed : e[2] # ask[c].slug
    <3>1. ASSUME NEW d \in SetupCalls, ask[d].op = "create", Created(d) PROVE ask[d].slug # ask[c].slug
      <4>1. <<GroupOf(d), ask[d].slug>> \in indexed
        BY <1>3, <3>1 DEF SlugOf
      <4> QED
        BY <2>2, <4>1
    <3> QED
      BY <1>5, <1>11, <2>2, <3>1 DEF CheckSlug
  <2> QED
    BY <1>11, <2>1, <2>2 DEF CheckSlug
<1>12. ASSUME NEW c \in SetupCalls, InitBare(c) \/ WriteManifest(c) PROVE IndexOK'
  <2>1. /\ place[c] \in {"bare", "write"} /\ UNCHANGED <<loaded, answer, holder, indexerVars>>
        /\ place' = [place EXCEPT ![c] = IF place[c] = "bare" THEN "read" ELSE "publish"]
    BY <1>12 DEF InitBare, WriteManifest, Proceed, Goto
  <2>2. \A d \in SetupCalls : GroupOf(d)' = GroupOf(d) /\ SlugOf(d)' = SlugOf(d)
    BY <1>1, <2>1 DEF GroupOf, SlugOf
  <2>3. \A d \in SetupCalls : refreshing'[d] \notin {"scanned", "writing"}
    BY <1>3, <2>1 DEF indexerVars, Writing
  <2>4. \A d \in SetupCalls : place'[d] \in Writing => place[d] \in Writing
    BY <2>1 DEF SetupShape, Writing
  <2> QED
    BY <1>1, <1>3, <1>4, <2>1, <2>2, <2>3, <2>4 DEF IndexOK, Created, indexerVars
<1>13. ASSUME NEW c \in SetupCalls, RefreshIndex(c) PROVE IndexOK'
  <2>1. UNCHANGED ownVars /\ place[c] \in {"refresh", "publish"} /\ holder = c /\ indexed' = indexed
    BY <1>3, <1>13 DEF RefreshIndex, Writing, X!Scan, X!Lock
  <2>2. /\ Readable' = Readable
        /\ \A d \in SetupCalls : GroupOf(d)' = GroupOf(d) /\ SlugOf(d)' = SlugOf(d) /\ (Created(d)' <=> Created(d))
    BY <2>1 DEF ownVars, Readable, HasManifest, GroupOf, SlugOf, Created
  <2>3. \A k \in (SetupCalls \union {Watcher}) \ {c} : refreshing'[k] = refreshing[k] /\ scanned'[k] = scanned[k]
    BY <1>13 DEF RefreshIndex, X!Scan, X!Lock, SetupShape
  <2>4. scanned'[c] = Readable
    BY <1>3, <1>13 DEF RefreshIndex, X!Scan, X!Lock, SetupShape
  <2> QED
    BY <1>3, <1>4, <2>1, <2>2, <2>3, <2>4 DEF IndexOK, ownVars
<1>14. ASSUME NEW c \in SetupCalls, RefreshEnds(c) PROVE IndexOK'
  <2>1. /\ UNCHANGED <<repo, loaded>> /\ place' = [place EXCEPT ![c] = "done"]
        /\ answer' = [answer EXCEPT ![c] = IF place[c] = "publish" THEN "created" ELSE "present"]
        /\ place[c] \in {"refresh", "publish"} /\ holder = c
    BY <1>3, <1>14 DEF RefreshEnds, Return, Goto, Writing
  <2>2. refreshing[c] = "writing" /\ indexed' = Readable
        /\ refreshing' = [refreshing EXCEPT ![c] = "done"] /\ scanned' = scanned
    BY <1>3, <1>14 DEF RefreshEnds, X!Install
  <2>3. \A d \in SetupCalls : GroupOf(d)' = GroupOf(d) /\ SlugOf(d)' = SlugOf(d)
    BY <1>1, <2>1 DEF GroupOf, SlugOf
  <2>4. \A d \in SetupCalls \ {c} : place'[d] = place[d] /\ place[d] \notin Writing /\ (Created(d)' <=> Created(d))
    BY <1>3, <2>1 DEF SetupShape, Created
  <2>5. Created(c)' => place[c] = "publish"
    BY <2>1 DEF SetupShape, Created
  <2>6. ASSUME NEW d \in SetupCalls, Created(d)' PROVE <<GroupOf(d), SlugOf(d)>> \in Readable
    <3>1. repo[GroupOf(d)] = Manifest(SlugOf(d), d)
      BY <1>2, <2>4, <2>5, <2>6 DEF MakersOK
    <3>2. /\ ask[d].op \in {"init", "create"} /\ (ask[d].op = "init" => loaded[d] \in Projects)
      BY <1>3, <2>4, <2>5, <2>6 DEF CallsOK, AsksOK, Created, Writing
    <3>3. GroupOf(d) \in Uuids /\ SlugOf(d) \in SlugNames
      BY <3>2, ProjectsAreWhole DEF AsksOK, OriginsOK, GroupOf, SlugOf, Uuids
    <3>4. HasManifest(GroupOf(d)) /\ repo[GroupOf(d)].slug = SlugOf(d)
      <4>1. \A s \in SlugNames : \A m : Manifest(s, m) \notin {Bare, Absent} /\ Manifest(s, m).slug = s
        BY SetupAssumption DEF Manifest, Bare, Absent
      <4> QED
        BY <3>1, <3>3, <4>1 DEF HasManifest
    <3> QED
      BY <3>3, <3>4 DEF Readable
  <2>7. \A d \in SetupCalls : refreshing'[d] \notin {"scanned", "writing"}
    BY <1>3, <2>1, <2>2 DEF SetupShape
  <2>8. refreshing'[Watcher] = "idle"
    BY <1>3, <2>2 DEF SetupShape
  <2>9. \A b, d \in SetupCalls :
          ask[b].op = "create" /\ ask[d].op = "create" /\ b # d /\ Created(b)' /\ (Created(d)' \/ place'[d] \in Writing)
            => ask[b].slug # ask[d].slug
    <3>1. place'[c] \notin Writing
      BY <2>1 DEF SetupShape, Writing
    <3> QED
      BY <1>4, <2>4, <2>5, <3>1 DEF Writing
  <2> QED
    BY <1>1, <2>2, <2>3, <2>6, <2>7, <2>8, <2>9 DEF IndexOK, Writing
<1>15. CASE Wake \/ UNCHANGED setupVars
  <2>1. UNCHANGED setupVars
    BY <1>2, <1>15 DEF Wake
  <2>2. /\ Readable' = Readable
        /\ \A d \in SetupCalls : GroupOf(d)' = GroupOf(d) /\ SlugOf(d)' = SlugOf(d) /\ (Created(d)' <=> Created(d))
    BY <2>1 DEF setupVars, ownVars, Readable, HasManifest, GroupOf, SlugOf, Created
  <2> QED
    BY <1>3, <1>4, <2>1, <2>2 DEF IndexOK, setupVars, ownVars, indexerVars
<1> QED
  BY <1>6, <1>7, <1>8, <1>9, <1>10, <1>11, <1>12, <1>13, <1>14, <1>15 DEF SetupNext

\* The invariant of the set-up calls.
THEOREM SetupInvariance == SetupSpec => []SetupInv
<1>1. ASSUME SetupInit PROVE SetupInv
  <2>1. PICK s \in SetupScenarios :
          /\ config = s.config /\ ask = s.asks /\ watches = s.watches
          /\ place = [c \in SetupCalls |-> IF s.asks[c].op = "none" THEN "done" ELSE FirstPlace[s.asks[c].op]]
    BY <1>1 DEF SetupInit
  <2>2. config \in {Missing, Empty} \/ (config \in Projects /\ config.uuid \in Given)
    BY <2>1, SetupAssumption
  <2>3. AsksOK
    <3>1. ASSUME NEW c \in SetupCalls, NEW a, AsksFor(a)
          PROVE  /\ a.op \in {"none", "init", "create", "adopt", "subscribe", "unsubscribe"}
                 /\ a.op = "init" => a.uuid \in Given \union {NoUuid} /\ a.slug \in SlugNames \union {NoSlug}
                 /\ a.op = "create" => a.slug \in SlugNames
                 /\ a.op = "adopt" => a.uuid \in Given /\ a.slug \in SlugNames
                 /\ a.op = "subscribe" => a.entry \in Entries
      BY <3>1 DEF AsksFor
    <3>2. \A c \in SetupCalls : AsksFor(ask[c])
      BY <2>1, SetupAssumption
    <3> QED
      BY <3>1, <3>2 DEF AsksOK
  <2>4. SetupShape
    BY <1>1, <2>1, <2>2 DEF SetupInit, SetupShape, X!IndexInit
  <2>5. \A c \in SetupCalls :
          /\ ask[c].op = "none" => place[c] = "done"
          /\ ask[c].op \in {"init", "create"} => place[c] = "enter"
          /\ ask[c].op = "adopt" => place[c] = "resolve"
          /\ ask[c].op \in {"subscribe", "unsubscribe"} => place[c] = "check"
    BY <2>1, <2>3 DEF AsksOK, FirstPlace
  <2>6. /\ \A c \in SetupCalls : loaded[c] = Missing /\ answer[c] = "none" /\ c # Unheld /\ c # Watcher /\ c \notin Given
        /\ holder = Unheld /\ repo = [u \in Uuids |-> Absent]
        /\ refreshing = [k \in SetupCalls \union {Watcher} |-> "idle"]
    BY <1>1, SetupAssumption DEF SetupInit, X!IndexInit
  <2>7. CallsOK
    BY <2>3, <2>5, <2>6, ProjectsAreWhole DEF CallsOK, AsksOK, Makes, Writing
  <2>8. UuidOK /\ OriginsOK
    BY <2>2, <2>6, ProjectsAreWhole DEF UuidOK, OriginsOK, Live
  <2>9. MakersOK
    BY <2>3, <2>5, <2>6 DEF MakersOK, AsksOK, Created, Uuids
  <2>10. IndexOK
    BY <2>3, <2>5, <2>6 DEF IndexOK, AsksOK, Created
  <2> QED
    BY <2>3, <2>4, <2>7, <2>8, <2>9, <2>10 DEF SetupInv
<1>2. SetupInv /\ [SetupNext]_setupVars => SetupInv'
  <2> SUFFICES ASSUME SetupInv, [SetupNext]_setupVars PROVE SetupInv'
    OBVIOUS
  <2>0. SetupShape /\ AsksOK /\ CallsOK /\ UuidOK /\ OriginsOK /\ MakersOK /\ IndexOK
    BY DEF SetupInv
  <2>1. SetupShape' /\ AsksOK' /\ CallsOK'
    BY <2>0, CallsStayOK
  <2>2. UuidOK' /\ OriginsOK'
    BY <2>0, UuidsStayOK
  <2>3. MakersOK'
    BY <2>0, MakersStayOK
  <2>4. IndexOK'
    BY <2>0, IndexStaysOK
  <2> QED
    BY <2>1, <2>2, <2>3, <2>4 DEF SetupInv
<1> QED
  BY <1>1, <1>2, PTL DEF SetupSpec

\* Whatever calls, failures and refreshes run beside it, what a set-up call has
\* replied stays true.
THEOREM SetupRepliesStayTrue == SetupSpec => []RepliesStayTrue
<1>1. ASSUME SetupInv PROVE RepliesStayTrue
  <2>1. ASSUME NEW c \in Replied("init", {"created", "present"}), config \in Projects
        PROVE  config.uuid = loaded[c].uuid
    BY <1>1, <2>1 DEF SetupInv, Replied, CallsOK, UuidOK, Live
  <2>2. ASSUME NoImport, NEW c \in SetupCalls, answer[c] = "created" PROVE repo[GroupOf(c)].maker = c
    <3>1. repo[GroupOf(c)] = Manifest(SlugOf(c), c)
      BY <1>1, <2>2 DEF SetupInv, MakersOK, Created
    <3> QED
      BY <3>1 DEF Manifest
  <2>3. ASSUME NoImport, ~watches, NEW c \in SetupCalls, answer[c] = "created" PROVE IsIndexed(GroupOf(c))
    BY <1>1, <2>3 DEF SetupInv, IndexOK, Created, IsIndexed
  <2>4. ASSUME NoImport, ~watches, NEW c \in Replied("create", {"created"}), NEW d \in Replied("create", {"created"}),
               ask[c].slug = ask[d].slug
        PROVE  c = d
    BY <1>1, <2>4 DEF SetupInv, IndexOK, Created, Replied
  <2> QED
    BY <2>1, <2>2, <2>3, <2>4 DEF RepliesStayTrue
<1> QED
  BY <1>1, SetupInvariance, PTL

-----------------------------------------------------------------------------
(* RemoteWiring: what the merge of two files makes of them.                *)

\* A remote as the merge sees it, and the remotes of a whole file.
Items == [name : DOMAIN KeyOf, kind : {"server", "direct"}, default : BOOLEAN,
          group : References \union {NoRef}, level : Levels, url : BOOLEAN]
Offset(toml) == IF toml.url THEN 1 ELSE 0

\* A file that is valid has one default remote at most.
LEMMA OneDefault ==
  ASSUME NEW toml \in Settings, IsValid(toml), NEW i \in DOMAIN toml.remotes, NEW j \in DOMAIN toml.remotes,
         toml.remotes[i].default, toml.remotes[j].default
  PROVE  i = j
<1> DEFINE D == {k \in DOMAIN toml.remotes : toml.remotes[k].default}
<1>1. IsFiniteSet(DOMAIN toml.remotes)
  BY FS_Interval DEF Settings
<1>2. IsFiniteSet(D)
  BY <1>1, FS_Subset
<1>3. SUFFICES ASSUME i # j PROVE FALSE
  OBVIOUS
<1>4. IsFiniteSet({i}) /\ Cardinality({i}) = 1
  BY FS_Singleton
<1>5. Cardinality({i} \cup {j}) = 2
  <2>1. j \notin {i}
    BY <1>3
  <2>2. Cardinality({i} \cup {j}) = IF j \in {i} THEN Cardinality({i}) ELSE Cardinality({i}) + 1
    BY <1>4, FS_AddElement
  <2> QED
    BY <1>4, <2>1, <2>2
<1>6. {i} \cup {j} \in SUBSET D
  OBVIOUS
<1>7. Cardinality({i} \cup {j}) <= Cardinality(D) /\ Cardinality(D) \in Nat
  BY <1>2, <1>6, FS_Subset, FS_CardinalityType
<1>8. Cardinality(D) <= 1
  BY DEF IsValid
<1> HIDE DEF D
<1> QED
  BY <1>5, <1>7, <1>8

\* The remotes of a file are its own, in order, behind that of its server_url,
\* which is never a default.
LEMMA CollectedShape ==
  ASSUME NEW toml \in Settings, NEW level \in Levels, NEW root \in Roots
  PROVE  /\ Collected(toml, level, root) \in Seq(Items)
         /\ Len(Collected(toml, level, root)) = Offset(toml) + Len(toml.remotes)
         /\ \A i \in 1..Len(Collected(toml, level, root)) :
              LET r == Collected(toml, level, root)[i] IN
              /\ r.level = level
              /\ CanCollect(toml, level) => (IsShorthand(r.name) <=> r.url)
              /\ r.default => /\ i - Offset(toml) \in DOMAIN toml.remotes
                              /\ toml.remotes[i - Offset(toml)].default
<1> DEFINE n == Len(toml.remotes)
           Own(i) == [name |-> toml.remotes[i].name, kind |-> toml.remotes[i].kind,
                      default |-> toml.remotes[i].default, level |-> level, url |-> FALSE,
                      group |-> IF toml.remotes[i].kind = "direct" /\ toml.remotes[i].group = NoRef
                                   /\ level = "project" THEN HomeOf[root] ELSE toml.remotes[i].group]
           own == [i \in DOMAIN toml.remotes |-> Own(i)]
           legacy == [name |-> LegacyName[level], kind |-> "server", default |-> FALSE, group |-> NoRef,
                      level |-> level, url |-> TRUE]
           front == IF toml.url THEN <<legacy>> ELSE <<>>
<1>1. n \in Nat /\ DOMAIN toml.remotes = 1..n /\ \A i \in 1..n : toml.remotes[i] \in RemoteEntries
  BY DEF Settings
<1>2. \A i \in 1..n : Own(i) \in Items
  BY <1>1, WiringAssumption DEF RemoteEntries, Items
<1>3. own \in Seq(Items) /\ Len(own) = n
  <2> HIDE DEF Own
  <2> QED
    BY <1>1, <1>2
<1>4. legacy \in Items
  BY WiringAssumption DEF Items
<1>5. front \in Seq(Items) /\ Len(front) = Offset(toml) /\ (Offset(toml) = 1 => front[1] = legacy)
  <2> HIDE DEF legacy
  <2> QED
    BY <1>4 DEF Offset
<1>6. Collected(toml, level, root) = front \o own
  BY DEF Collected
<1> HIDE DEF front, own
<1>7. /\ front \o own \in Seq(Items)
      /\ Len(front \o own) = Len(front) + Len(own)
      /\ \A i \in 1 .. Len(front) + Len(own) :
           (front \o own)[i] = IF i <= Len(front) THEN front[i] ELSE own[i - Len(front)]
  <2> HIDE DEF n
  <2>1. own \in Seq(Items) /\ front \in Seq(Items)
    BY <1>3, <1>5
  <2> QED
    BY <2>1, ConcatProperties
<1>8. Offset(toml) \in {0, 1}
  BY DEF Offset
<1>9. ASSUME NEW i \in 1..(Offset(toml) + n)
      PROVE  /\ (front \o own)[i].level = level
             /\ CanCollect(toml, level) => (IsShorthand((front \o own)[i].name) <=> (front \o own)[i].url)
             /\ (front \o own)[i].default => /\ i - Offset(toml) \in DOMAIN toml.remotes
                                             /\ toml.remotes[i - Offset(toml)].default
  <2>0. i <= Offset(toml) \/ i > Offset(toml)
    BY <1>1, <1>8
  <2>1. CASE i <= Offset(toml)
    <3>1. (front \o own)[i] = legacy
      BY <1>1, <1>3, <1>5, <1>7, <1>8, <2>1
    <3>2. IsShorthand(legacy.name)
      BY DEF IsShorthand
    <3> QED
      BY <3>1, <3>2
  <2>2. CASE i > Offset(toml)
    <3>1. i - Offset(toml) \in 1..n
      BY <1>1, <1>8, <2>2
    <3>2. (front \o own)[i] = own[i - Offset(toml)]
      BY <1>1, <1>3, <1>5, <1>7, <1>8, <2>2
    <3>3. own[i - Offset(toml)] = Own(i - Offset(toml))
      BY <1>1, <3>1 DEF own
    <3>4. CanCollect(toml, level) => ~IsShorthand(Own(i - Offset(toml)).name)
      <4>1. CanCollect(toml, level) => NameIsFree(toml.remotes[i - Offset(toml)].name)
        BY <1>1, <3>1 DEF CanCollect
      <4>2. ASSUME NEW name, NameIsFree(name) PROVE ~IsShorthand(name)
        BY <4>2 DEF NameIsFree, IsShorthand
      <4> QED
        BY <4>1, <4>2
    <3> QED
      BY <1>1, <3>1, <3>2, <3>3, <3>4
  <2> QED
    BY <2>0, <2>1, <2>2
<1> QED
  BY <1>3, <1>5, <1>6, <1>7, <1>9

\* Where the remotes of an engine come from: an engine has those of the user
\* and of the project, in this order, or only the project's.
LEMMA MergedShape ==
  ASSUME NEW user \in Settings, NEW project \in Settings, NEW root \in Roots
  PROVE  LET u == Collected(user, "user", root)
             p == Collected(project, "project", root)
             m == Merged(user, project, root)
             gap == IF project.only THEN 0 ELSE Len(u)
         IN  /\ Len(u) \in Nat /\ Len(p) \in Nat /\ Len(m) = gap + Len(p)
             /\ DOMAIN m = 1..(gap + Len(p)) /\ DOMAIN u = 1..Len(u)
             /\ DOMAIN (u \o p) = 1..(Len(u) + Len(p))
             /\ \A i \in 1..Len(u) : (u \o p)[i] = u[i]
             /\ \A i \in 1..Len(p) : (u \o p)[Len(u) + i] = p[i]
             /\ \A i \in 1..(gap + Len(p)) : m[i] = IF i <= gap THEN u[i] ELSE p[i - gap]
<1> DEFINE u == Collected(user, "user", root)
           p == Collected(project, "project", root)
           front == IF project.only THEN <<>> ELSE u
<1>1. u \in Seq(Items) /\ p \in Seq(Items)
  BY CollectedShape DEF Levels
<1>2. front \in Seq(Items) /\ Len(front) = (IF project.only THEN 0 ELSE Len(u))
      /\ (Len(front) > 0 => front = u)
  BY <1>1
<1>3. Merged(user, project, root) = front \o p
  BY DEF Merged
<1> HIDE DEF u, p, front
<1>4. /\ u \o p \in Seq(Items) /\ Len(u \o p) = Len(u) + Len(p)
      /\ \A i \in 1..Len(u) + Len(p) : (u \o p)[i] = IF i <= Len(u) THEN u[i] ELSE p[i - Len(u)]
  BY <1>1, ConcatProperties
<1>5. /\ front \o p \in Seq(Items) /\ Len(front \o p) = Len(front) + Len(p)
      /\ \A i \in 1..Len(front) + Len(p) : (front \o p)[i] = IF i <= Len(front) THEN front[i] ELSE p[i - Len(front)]
  BY <1>1, <1>2, ConcatProperties
<1>6. Len(u) \in Nat /\ Len(p) \in Nat /\ DOMAIN u = 1..Len(u)
  BY <1>1
<1>7. DOMAIN (u \o p) = 1..(Len(u) + Len(p)) /\ DOMAIN (front \o p) = 1..(Len(front) + Len(p))
  BY <1>4, <1>5
<1>8. \A i \in 1..Len(u) : (u \o p)[i] = u[i]
  BY <1>4, <1>6
<1>9. ASSUME NEW i \in 1..Len(p) PROVE (u \o p)[Len(u) + i] = p[i]
  <2>1. Len(u) + i \in 1..Len(u) + Len(p) /\ ~(Len(u) + i <= Len(u)) /\ (Len(u) + i) - Len(u) = i
    BY <1>6
  <2> QED
    BY <1>4, <2>1
<1>10. \A i \in 1..Len(front) + Len(p) : i <= Len(front) => front[i] = u[i]
  BY <1>2, <1>6
<1> QED
  BY <1>2, <1>3, <1>5, <1>6, <1>7, <1>8, <1>9, <1>10 DEF u, p

\* An engine that is made is wired.
LEMMA BuiltIsWired ==
  ASSUME NEW user \in Settings, NEW project \in Settings, NEW root \in Roots, IsValid(project),
         Built(user, project, root) # Failure, Built(user, project, root) # NoEngine
  PROVE  IsWired(Built(user, project, root))
<1> DEFINE u == Collected(user, "user", root)
           p == Collected(project, "project", root)
           m == Merged(user, project, root)
           gap == IF project.only THEN 0 ELSE Len(u)
           e == Built(user, project, root)
           a == Len(u)
           b == Len(p)
<1>1. Resolves(user, project, root) /\ m # <<>> /\ CanBind(m)
  BY DEF Built
<1>2. e = [remotes |-> m, default |-> DefaultOf(m), root |-> root, avoids |-> Names(u)]
  BY <1>1 DEF Built
<1>3. KeysDiffer(u \o p) /\ DefaultOf(m) # 0
  BY <1>1 DEF Resolves, NamesMayMeet
<1>4. /\ a \in Nat /\ b \in Nat /\ gap \in Nat
      /\ DOMAIN m = 1..(gap + b) /\ DOMAIN u = 1..a /\ DOMAIN (u \o p) = 1..(a + b)
      /\ \A i \in 1..a : (u \o p)[i] = u[i]
      /\ \A i \in 1..b : (u \o p)[a + i] = p[i]
      /\ \A i \in 1..(gap + b) : m[i] = IF i <= gap THEN u[i] ELSE p[i - gap]
      /\ gap = 0 \/ gap = a
      /\ Len(m) = gap + b
  BY MergedShape
<1>5. /\ \A i \in 1..a : u[i].level = "user"
      /\ \A i \in 1..b : p[i].level = "project"
      /\ \A i \in 1..b : p[i].default => /\ i - Offset(project) \in DOMAIN project.remotes
                                              /\ project.remotes[i - Offset(project)].default
  BY CollectedShape DEF Levels
<1>6. /\ \A i \in 1..a : IsShorthand(u[i].name) <=> u[i].url
      /\ \A i \in 1..b : IsShorthand(p[i].name) <=> p[i].url
  <2>1. CanCollect(user, "user") /\ CanCollect(project, "project")
    BY <1>1 DEF Resolves
  <2> QED
    BY <2>1, CollectedShape DEF Levels
<1>7. Offset(project) \in Nat
  BY DEF Offset
<1> HIDE DEF u, p, m, gap, e, a, b
<1>8. ASSUME NEW i \in DOMAIN m
      PROVE  \/ i \in 1..a /\ i <= gap /\ gap = a /\ m[i] = u[i] /\ m[i].level = "user"
             \/ i > gap /\ i - gap \in 1..b /\ m[i] = p[i - gap] /\ m[i].level = "project"
  <2>1. CASE i <= gap
    <3>1. i \in 1..a /\ gap = a
      BY <1>4, <1>8, <2>1
    <3>2. m[i] = u[i]
      BY <1>4, <1>8, <2>1
    <3> QED
      BY <1>5, <2>1, <3>1, <3>2
  <2>2. CASE ~(i <= gap)
    <3>1. i > gap /\ i - gap \in 1..b
      BY <1>4, <1>8, <2>2
    <3>2. m[i] = p[i - gap]
      BY <1>4, <1>8, <2>2
    <3> QED
      BY <1>5, <3>1, <3>2
  <2> QED
    BY <2>1, <2>2
<1>9. DefaultOf(m) \in DOMAIN m
  <2>1. Defaults(m, "project") \subseteq DOMAIN m /\ Defaults(m, "user") \subseteq DOMAIN m
    BY DEF Defaults
  <2>2. Len(m) = 1 => 1 \in DOMAIN m
    <3>1. gap + b \in Nat /\ Len(m) = gap + b /\ DOMAIN m = 1..(gap + b)
      BY <1>4
    <3>2. \A n \in Nat : n = 1 => 1 \in 1..n
      OBVIOUS
    <3> QED
      BY <3>1, <3>2
  <2> QED
    BY <1>3, <2>1, <2>2 DEF DefaultOf
<1>10. ASSUME NEW i \in Defaults(m, "project") PROVE i = DefaultOf(m)
  <2>1. DefaultOf(m) \in Defaults(m, "project")
    BY <1>10 DEF DefaultOf
  <2>2. ASSUME NEW k \in Defaults(m, "project")
        PROVE  /\ k \in DOMAIN m /\ (k - gap) - Offset(project) \in DOMAIN project.remotes
               /\ project.remotes[(k - gap) - Offset(project)].default
    <3>1. k \in DOMAIN m /\ m[k].default /\ m[k].level = "project"
      BY <2>2 DEF Defaults
    <3>2. k - gap \in 1..b /\ m[k] = p[k - gap]
      BY <1>8, <3>1
    <3> QED
      BY <1>5, <3>1, <3>2
  <2>3. (i - gap) - Offset(project) = (DefaultOf(m) - gap) - Offset(project)
    BY <2>1, <2>2, OneDefault
  <2>4. i \in DOMAIN m /\ DefaultOf(m) \in DOMAIN m
    BY <2>1, <2>2
  <2>5. gap \in Nat /\ b \in Nat /\ i \in 1..(gap + b) /\ DefaultOf(m) \in 1..(gap + b)
    BY <1>4, <2>4
  <2> QED
    BY <1>7, <2>3, <2>5
<1>11. KeysDiffer(m)
  <2>1. ASSUME NEW i \in DOMAIN m, NEW j \in DOMAIN m, KeyOf[m[i].name] = KeyOf[m[j].name] PROVE i = j
    <3> DEFINE At(k) == k + (a - gap)
    <3>1. ASSUME NEW k \in DOMAIN m PROVE At(k) \in DOMAIN (u \o p) /\ (u \o p)[At(k)] = m[k]
      <4>1. CASE k \in 1..a /\ k <= gap /\ gap = a /\ m[k] = u[k]
        <5>1. At(k) = k /\ k \in 1..(a + b)
          BY <1>4, <4>1
        <5> QED
          BY <1>4, <4>1, <5>1
      <4>2. CASE k > gap /\ k - gap \in 1..b /\ m[k] = p[k - gap]
        <5>1. k \in Nat /\ k \in 1..(gap + b)
          BY <1>4, <3>1
        <5>2. At(k) = a + (k - gap)
          BY <1>4, <5>1
        <5>3. a + (k - gap) \in 1..(a + b)
          <6>1. a \in Nat /\ b \in Nat /\ gap \in Nat /\ k \in Nat /\ k - gap \in 1..b
            BY <1>4, <4>2, <5>1
          <6> QED
            BY <6>1
        <5> QED
          BY <1>4, <4>2, <5>2, <5>3
      <4> QED
        BY <1>8, <3>1, <4>1, <4>2
    <3>2. At(i) = At(j)
      <4> HIDE DEF At
      <4> QED
        BY <1>3, <2>1, <3>1 DEF KeysDiffer
    <3> QED
      BY <1>4, <3>2
  <2> QED
    BY <2>1 DEF KeysDiffer
<1>12. ASSUME NEW i \in DOMAIN m PROVE IsShorthand(m[i].name) <=> m[i].url
  BY <1>8, <1>6, <1>12
<1>13. ASSUME NEW i \in DOMAIN m, NEW n \in Names(u), CredentialsOf(n) = CredentialsOf(m[i].name)
       PROVE  m[i].level = "user" \/ m[i].url
  <2>1. SUFFICES ASSUME m[i].level # "user", ~m[i].url PROVE FALSE
    OBVIOUS
  <2>2. KeyOf[n] = KeyOf[m[i].name]
    BY <1>13, <1>12, <2>1 DEF CredentialsOf
  <2>3. i > gap /\ i - gap \in 1..b /\ m[i] = p[i - gap]
    BY <1>8, <2>1
  <2>4. PICK j \in 1..a : n = u[j].name
    BY <1>4, <1>13 DEF Names
  <2>5. (u \o p)[j] = u[j] /\ (u \o p)[a + (i - gap)] = m[i]
    BY <1>4, <2>3, <2>4
  <2>6. j \in 1..(a + b) /\ a + (i - gap) \in 1..(a + b) /\ j # a + (i - gap)
    <3>1. a \in Nat /\ b \in Nat
      BY <1>4
    <3>2. i - gap \in 1..b /\ j \in 1..a
      BY <2>3, <2>4
    <3>3. \A k \in 1..b, l \in 1..a : l \in 1..(a + b) /\ a + k \in 1..(a + b) /\ l # a + k
      BY <3>1
    <3> QED
      BY <3>2, <3>3
  <2>7. KeyOf[(u \o p)[j].name] = KeyOf[(u \o p)[a + (i - gap)].name]
    BY <2>2, <2>4, <2>5
  <2>8. j \in DOMAIN (u \o p) /\ a + (i - gap) \in DOMAIN (u \o p)
    BY <1>4, <2>6
  <2> QED
    BY <1>3, <2>6, <2>7, <2>8 DEF KeysDiffer
<1>14. \A i \in DOMAIN m : m[i].kind = "direct" => m[i].group \in Indexed
  BY <1>1 DEF CanBind, m
<1>15. IsWired(e)
  <2>1. e.remotes = m /\ e.default = DefaultOf(m) /\ e.avoids = Names(u)
    BY <1>2
  <2> QED
    BY <1>9, <1>10, <1>11, <1>13, <1>14, <1>12, <2>1 DEF IsWired
<1> QED
  BY <1>15 DEF e

\* Nothing is synchronised with an engine that is not wired.
Wired(e) == e = NoEngine \/ IsWired(e)

\* What a reference point makes of its two files is wired.
LEMMA FoundIsWired ==
  ASSUME NEW user \in UserStates, NEW toml \in ProjectStates, NEW root \in Roots,
         FoundAt(user, toml, root) # Failure
  PROVE  Wired(FoundAt(user, toml, root))
<1>1. CASE toml = NoFile
  BY <1>1 DEF FoundAt, Wired
<1>2. CASE toml # NoFile
  <2>1. toml \in Settings /\ IsValid(toml) /\ FoundAt(user, toml, root) = Built(UserOf(user), toml, root)
    BY <1>2 DEF FoundAt, Loads, ProjectStates
  <2>2. UserOf(user) \in Settings
    <3>1. NoSettings \in Settings
      BY DEF NoSettings, Config, Settings
    <3> QED
      BY <3>1 DEF UserOf, UserStates
  <2> QED
    BY <2>1, <2>2, BuiltIsWired DEF Wired
<1> QED
  BY <1>1, <1>2
-----------------------------------------------------------------------------
(* RemoteWiring: the commands in flight, and what the GUI shows.           *)

WiringSpec == WiringInit /\ [][WiringNext]_wiringVars

\* The files hold settings or nothing, and each command has in its hands what
\* it read, or an engine it found or made.
WiringShape ==
  /\ userFile \in UserStates /\ projectFile \in [Roots -> ProjectStates] /\ anchor \in Roots
  /\ \A t \in Tasks : IF t \in GuiTasks THEN AsksOfGui(command[t]) ELSE AsksOfTool(command[t])
  /\ phase \in [Tasks -> {"idle", "read", "built", "installed", "cleared", "running", "truncate", "fill",
                          "done", "failed"}]
  /\ held = [t \in Tasks |-> held[t]]
HandsOK ==
  \A t \in Tasks :
    /\ phase[t] \in {"read", "truncate", "fill"} => held[t] \in Settings
    /\ phase[t] \in {"built", "installed", "cleared", "running"} => Wired(held[t])
    /\ phase[t] \in {"read", "built"} => command[t].op \in {"switch", "tool"}
    /\ phase[t] \in {"truncate", "fill"} => command[t].op \in {"user", "project", "subscribe"}
    /\ Does(t, "sync", "running") => t \in GuiTasks /\ held[t] = engine

\* The steps of one change of the reference point make up for what they have
\* broken, and only for what no other change has done meanwhile.
SwitchesOK ==
  /\ Wired(engine)
  /\ syncError /\ engine # NoEngine => \E t \in Tasks : Does(t, "switch", "installed")
  /\ ~crossed =>
       /\ \A t, u \in Tasks : Switching(t) /\ Switching(u) => t = u
       /\ \A t \in Tasks : Does(t, "switch", "installed") \/ Does(t, "switch", "cleared") => engine = held[t]
       /\ probe # ProbeOf(engine) =>
            \E t \in Tasks : Does(t, "switch", "installed") \/ Does(t, "switch", "cleared")

WiringInv == WiringShape /\ HandsOK /\ SwitchesOK

\* What a command asks for has the parts its kind needs, and those of tools are
\* no changes of the reference point.
LEMMA AsksAreWhole ==
  ASSUME WiringShape, NEW t \in Tasks
  PROVE  /\ command[t].op \in {"switch", "project", "tool", "subscribe"} => command[t].root \in Roots
         /\ command[t].op \in {"user", "project"} => command[t].config \in Settings
         /\ command[t].op \in {"switch", "sync"} => t \in GuiTasks
<1>1. CASE t \in GuiTasks
  BY <1>1 DEF WiringShape, AsksOfGui
<1>2. CASE t \notin GuiTasks
  BY <1>2 DEF WiringShape, AsksOfTool
<1> QED
  BY <1>1, <1>2

\* A step moves the command it belongs to, and no other.
Alone(t) == \A u \in Tasks \ {t} : phase'[u] = phase[u] /\ held'[u] = held[u]

\* What the start of the GUI finds is wired, and shows what it found.
LEMMA DiscoveryAgrees ==
  ASSUME NEW user \in UserStates, NEW toml \in ProjectStates, NEW root \in Roots
  PROVE  /\ Wired(EngineOf(FoundAt(user, toml, root)))
         /\ FoundAt(user, toml, root) = Failure => EngineOf(FoundAt(user, toml, root)) = NoEngine
  BY FoundIsWired DEF EngineOf, Wired

\* The files, the hands and the phases stay as they must be.
LEMMA WiringShapeStays ==
  ASSUME WiringInv, [WiringNext]_wiringVars
  PROVE  WiringShape'
<1> USE DEF WiringInv, WiringShape
<1>1. CASE UNCHANGED wiringVars
  BY <1>1 DEF wiringVars, wiringFiles
<1>2. CASE Restarts
  BY <1>2 DEF Restarts, wiringFiles
<1>3. ASSUME NEW t \in Tasks,
             \/ SwitchBuilds(t) \/ SwitchInstalls(t) \/ SwitchClears(t) \/ SwitchProbes(t)
             \/ SyncStarts(t) \/ ToolStarts(t) \/ ToolBuilds(t) \/ SyncEnds(t)
             \/ SaveUserChecks(t) \/ SaveProjectChecks(t) \/ SubscriptionLoads(t)
      PROVE  WiringShape'
  <2>1. UNCHANGED <<userFile, projectFile, anchor, command>>
    BY <1>3 DEF SwitchBuilds, SwitchInstalls, SwitchClears, SwitchProbes, SyncStarts, ToolStarts, ToolBuilds,
       SyncEnds, SaveUserChecks, SaveProjectChecks, SubscriptionLoads, wiringFiles
  <2>2. \E p \in {"read", "built", "installed", "cleared", "running", "truncate", "done", "failed"} : Step(t, p)
    BY <1>3 DEF SwitchBuilds, SwitchInstalls, SwitchClears, SwitchProbes, SyncStarts, ToolStarts, ToolBuilds,
       SyncEnds, SaveUserChecks, SaveProjectChecks, SubscriptionLoads, ReadsProject, ReadsUser, Fails
  <2>3. held' = held \/ \E x : Takes(t, x)
    BY <1>3 DEF SwitchBuilds, SwitchInstalls, SwitchClears, SwitchProbes, SyncStarts, ToolStarts, ToolBuilds,
       SyncEnds, SaveUserChecks, SaveProjectChecks, SubscriptionLoads, ReadsProject, ReadsUser, Fails
  <2>4. held' = [u \in Tasks |-> held'[u]]
    BY <2>3 DEF Takes
  <2> QED
    BY <2>1, <2>2, <2>4 DEF Step
<1>4. ASSUME NEW t \in Tasks, SwitchStarts(t) PROVE WiringShape'
  <2>1. command[t].root \in Roots
    BY <1>4, AsksAreWhole DEF SwitchStarts, Does
  <2>2. \E p \in {"read", "built", "failed"} : Step(t, p)
    BY <1>4 DEF SwitchStarts, ReadsProject, Fails
  <2>3. held' = held \/ \E x : Takes(t, x)
    BY <1>4 DEF SwitchStarts, ReadsProject, Fails
  <2>4. held' = [u \in Tasks |-> held'[u]]
    BY <2>3 DEF Takes
  <2> QED
    BY <1>4, <2>1, <2>2, <2>4 DEF SwitchStarts, Step
<1>5. ASSUME NEW t \in Tasks, Truncates(t) \/ Fills(t) PROVE WiringShape'
  <2>1. PICK content : Puts(t, content) /\ content \in Settings \union {Hollow}
    BY <1>5 DEF Truncates, Fills, HandsOK
  <2>2. userFile' \in UserStates /\ projectFile' \in [Roots -> ProjectStates]
    BY <2>1 DEF Puts, UserStates, ProjectStates
  <2>3. \E p \in {"fill", "done"} : Step(t, p)
    BY <1>5 DEF Truncates, Fills
  <2> QED
    BY <2>1, <2>2, <2>3 DEF Puts, Step
<1> QED
  BY <1>1, <1>2, <1>3, <1>4, <1>5 DEF WiringNext

\* What a command has in its hands is of the kind its phase needs.
LEMMA HandsStayOK ==
  ASSUME WiringInv, [WiringNext]_wiringVars
  PROVE  HandsOK'
<1> USE DEF WiringInv
<1>0. phase \in [Tasks -> {"idle", "read", "built", "installed", "cleared", "running", "truncate", "fill",
                           "done", "failed"}]
      /\ held = [t \in Tasks |-> held[t]]
  BY DEF WiringShape
<1>1. CASE UNCHANGED wiringVars
  BY <1>1 DEF wiringVars, wiringFiles, gui, HandsOK, Does
<1>2. CASE Restarts
  <2>1. UNCHANGED <<held, command>>
        /\ phase' = [t \in Tasks |-> IF t \in GuiTasks /\ phase[t] # "idle" THEN "done" ELSE phase[t]]
    BY <1>2 DEF Restarts
  <2> QED
    BY <1>0, <2>1 DEF HandsOK, Does
<1>3. ASSUME NEW t \in Tasks, Alone(t), command' = command, engine' = engine,
             phase'[t] \in {"read", "truncate", "fill"} => held'[t] \in Settings,
             phase'[t] \in {"built", "installed", "cleared", "running"} => Wired(held'[t]),
             phase'[t] \in {"read", "built"} => command[t].op \in {"switch", "tool"},
             phase'[t] \in {"truncate", "fill"} => command[t].op \in {"user", "project", "subscribe"},
             phase'[t] = "running" => t \in GuiTasks /\ held'[t] = engine
      PROVE  HandsOK'
  <2> SUFFICES ASSUME NEW u \in Tasks
               PROVE  /\ phase'[u] \in {"read", "truncate", "fill"} => held'[u] \in Settings
                      /\ phase'[u] \in {"built", "installed", "cleared", "running"} => Wired(held'[u])
                      /\ phase'[u] \in {"read", "built"} => command'[u].op \in {"switch", "tool"}
                      /\ phase'[u] \in {"truncate", "fill"} => command'[u].op \in {"user", "project", "subscribe"}
                      /\ Does(u, "sync", "running")' => u \in GuiTasks /\ held'[u] = engine'
    BY DEF HandsOK, Wired, IsWired
  <2>1. CASE u = t
    BY <1>3, <2>1 DEF Does
  <2>2. CASE u # t
    BY <1>3, <2>2 DEF Does, HandsOK, Alone
  <2> QED
    BY <2>1, <2>2
<1>4. ASSUME NEW t \in Tasks, NEW p, Step(t, p), held' = held \/ \E x : Takes(t, x)
      PROVE  Alone(t) /\ phase'[t] = p
  BY <1>0, <1>4 DEF Step, Takes, Alone
<1>5. ASSUME NEW t \in Tasks, NEW x, Takes(t, x) PROVE held'[t] = x
  BY <1>0, <1>5 DEF Takes
<1>6. ASSUME NEW t \in Tasks, Fails(t), command' = command, engine' = engine PROVE HandsOK'
  BY <1>3, <1>4, <1>6 DEF Fails
<1>7. ASSUME NEW t \in Tasks, NEW root \in Roots, ReadsProject(t, root), command' = command, engine' = engine,
             command[t].op \in {"switch", "tool"}
      PROVE  HandsOK'
  <2>1. CASE Loads(projectFile[root])
    <3>1. projectFile[root] \in Settings
      BY <2>1 DEF WiringShape, Loads, ProjectStates
    <3>2. Step(t, "read") /\ Takes(t, projectFile[root])
      BY <1>7, <2>1 DEF ReadsProject
    <3> QED
      BY <1>3, <1>4, <1>5, <1>7, <3>1, <3>2
  <2> QED
    BY <1>6, <1>7, <2>1 DEF ReadsProject
<1>8. ASSUME NEW t \in Tasks, NEW root \in Roots, NEW refused, Failure \in refused, ReadsUser(t, root, refused),
             phase[t] = "read", command' = command, engine' = engine, command[t].op \in {"switch", "tool"}
      PROVE  HandsOK'
  <2> DEFINE made == FoundAt(userFile, held[t], root)
  <2>1. CASE made \in refused
    BY <1>6, <1>8, <2>1 DEF ReadsUser
  <2>2. CASE made \notin refused
    <3>1. Step(t, "built") /\ Takes(t, made)
      BY <1>8, <2>2 DEF ReadsUser
    <3>2. userFile \in UserStates /\ held[t] \in ProjectStates
      BY <1>8 DEF WiringShape, HandsOK, ProjectStates
    <3>3. Wired(made)
      BY <1>8, <2>2, <3>2, FoundIsWired
    <3> QED
      BY <1>3, <1>4, <1>5, <1>8, <3>1, <3>3
  <2> QED
    BY <2>1, <2>2
<1>9. ASSUME NEW t \in Tasks, SwitchStarts(t) PROVE HandsOK'
  <2>1. command[t].root \in Roots /\ command[t].op = "switch" /\ command' = command /\ engine' = engine
    BY <1>9, AsksAreWhole DEF SwitchStarts, Does, gui
  <2>2. CASE projectFile[command[t].root] = NoFile
    <3>1. Step(t, "built") /\ Takes(t, NoEngine)
      BY <1>9, <2>2 DEF SwitchStarts
    <3> QED
      BY <1>3, <1>4, <1>5, <2>1, <3>1 DEF Wired
  <2> QED
    BY <1>7, <1>9, <2>1, <2>2 DEF SwitchStarts
<1>10. ASSUME NEW t \in Tasks, SwitchBuilds(t) \/ ToolBuilds(t) PROVE HandsOK'
  <2>1. /\ command[t].op \in {"switch", "tool"} /\ phase[t] = "read" /\ command' = command /\ engine' = engine
        /\ \E refused : Failure \in refused /\ ReadsUser(t, command[t].root, refused)
    BY <1>10 DEF SwitchBuilds, ToolBuilds, Does, gui
  <2> QED
    BY <1>8, <2>1, AsksAreWhole
<1>11. ASSUME NEW t \in Tasks, SwitchInstalls(t) PROVE HandsOK'
  <2>1. Step(t, "installed") /\ held' = held /\ command' = command /\ phase[t] = "built"
        /\ command[t].op = "switch"
    BY <1>11 DEF SwitchInstalls, Does
  <2>2. Alone(t) /\ phase'[t] = "installed"
    BY <1>4, <2>1
  <2> SUFFICES ASSUME NEW u \in Tasks
               PROVE  /\ phase'[u] \in {"read", "truncate", "fill"} => held'[u] \in Settings
                      /\ phase'[u] \in {"built", "installed", "cleared", "running"} => Wired(held'[u])
                      /\ phase'[u] \in {"read", "built"} => command'[u].op \in {"switch", "tool"}
                      /\ phase'[u] \in {"truncate", "fill"} => command'[u].op \in {"user", "project", "subscribe"}
                      /\ Does(u, "sync", "running")' => u \in GuiTasks /\ held'[u] = engine'
    BY DEF HandsOK, Wired, IsWired
  <2>3. CASE u = t
    BY <2>1, <2>2, <2>3 DEF HandsOK, Does
  <2>4. CASE u # t
    <3>1. ~Does(u, "sync", "running")
      BY <1>11 DEF SwitchInstalls, NoSyncRuns, HandsOK
    <3> QED
      BY <2>1, <2>2, <2>4, <3>1 DEF HandsOK, Alone, Does
  <2> QED
    BY <2>3, <2>4
<1>12. ASSUME NEW t \in Tasks, SwitchClears(t) \/ SwitchProbes(t) \/ SyncEnds(t) PROVE HandsOK'
  <2>1. /\ \E p \in {"cleared", "done"} : Step(t, p) /\ (p = "cleared" => phase[t] = "installed")
        /\ held' = held /\ command' = command /\ engine' = engine
    BY <1>12 DEF SwitchClears, SwitchProbes, SyncEnds, Does, gui
  <2> QED
    BY <1>3, <1>4, <2>1 DEF HandsOK
<1>13. ASSUME NEW t \in Tasks, SyncStarts(t) PROVE HandsOK'
  <2>1. command[t].op = "sync" /\ t \in GuiTasks /\ command' = command /\ engine' = engine
    BY <1>13, AsksAreWhole DEF SyncStarts, Does, gui
  <2>2. CASE engine = NoEngine
    BY <1>6, <1>13, <2>1, <2>2 DEF SyncStarts
  <2>3. CASE engine # NoEngine
    <3>1. Step(t, "running") /\ Takes(t, engine)
      BY <1>13, <2>3 DEF SyncStarts
    <3> QED
      BY <1>3, <1>4, <1>5, <2>1, <3>1 DEF SwitchesOK
  <2> QED
    BY <2>2, <2>3
<1>14. ASSUME NEW t \in Tasks, ToolStarts(t) PROVE HandsOK'
  BY <1>7, <1>14, AsksAreWhole DEF ToolStarts, Does, gui
<1>15. ASSUME NEW t \in Tasks, SaveUserChecks(t) \/ SaveProjectChecks(t) \/ SubscriptionLoads(t) PROVE HandsOK'
  <2>1. command' = command /\ engine' = engine
    BY <1>15 DEF SaveUserChecks, SaveProjectChecks, SubscriptionLoads, gui
  <2>2. \/ Fails(t)
        \/ /\ Step(t, "truncate") /\ \E x \in Settings : Takes(t, x)
           /\ command[t].op \in {"user", "project", "subscribe"}
    <3>1. CASE SaveUserChecks(t)
      BY <3>1, AsksAreWhole DEF SaveUserChecks, Does
    <3>2. CASE SaveProjectChecks(t)
      BY <3>2, AsksAreWhole DEF SaveProjectChecks, Does
    <3>3. CASE SubscriptionLoads(t)
      BY <3>3, AsksAreWhole DEF SubscriptionLoads, Does, WiringShape, Loads, ProjectStates
    <3> QED
      BY <1>15, <3>1, <3>2, <3>3
  <2> QED
    BY <1>3, <1>4, <1>5, <1>6, <2>1, <2>2
<1>16. ASSUME NEW t \in Tasks, Truncates(t) \/ Fills(t) PROVE HandsOK'
  <2>1. /\ \E p \in {"fill", "done"} : Step(t, p) /\ (p = "fill" => phase[t] = "truncate")
        /\ held' = held /\ command' = command /\ engine' = engine
    BY <1>16 DEF Truncates, Fills, Puts, gui
  <2> QED
    BY <1>3, <1>4, <2>1 DEF HandsOK
<1> QED
  BY <1>1, <1>2, <1>9, <1>10, <1>11, <1>12, <1>13, <1>14, <1>15, <1>16 DEF WiringNext

\* Whatever the other commands do, the changes of the reference point still
\* make up for what they have broken.
LEMMA SwitchesStayOK ==
  ASSUME WiringInv, [WiringNext]_wiringVars
  PROVE  SwitchesOK'
<1> USE DEF WiringInv
<1>0. phase = [t \in Tasks |-> phase[t]]
  BY DEF WiringShape
<1>1. ASSUME NEW t \in Tasks, NEW p, Step(t, p)
      PROVE  phase'[t] = p /\ \A u \in Tasks \ {t} : phase'[u] = phase[u]
  BY <1>0, <1>1 DEF Step

\* Steps that leave the engine and what the GUI shows of it alone, and do not
\* begin or end a change.
<1>2. ASSUME UNCHANGED <<gui, command, crossed>>,
             \A u \in Tasks : \A p \in {"installed", "cleared"} : Does(u, "switch", p)' <=> Does(u, "switch", p),
             \A u \in Tasks : Does(u, "switch", "installed") \/ Does(u, "switch", "cleared") => held'[u] = held[u],
             ~crossed => \A u \in Tasks : Switching(u)' => Switching(u)
      PROVE  SwitchesOK'
  <2>1. Wired(engine)'
    BY <1>2 DEF SwitchesOK, gui
  <2>2. (syncError /\ engine # NoEngine)' => \E t \in Tasks : Does(t, "switch", "installed")'
    BY <1>2 DEF SwitchesOK, gui
  <2>3. ASSUME ~crossed', NEW t \in Tasks, NEW u \in Tasks, Switching(t)', Switching(u)' PROVE t = u
    BY <1>2, <2>3 DEF SwitchesOK
  <2>4. ASSUME ~crossed', NEW t \in Tasks, Does(t, "switch", "installed")' \/ Does(t, "switch", "cleared")'
        PROVE  engine' = held'[t]
    BY <1>2, <2>4 DEF SwitchesOK, gui
  <2>5. ASSUME ~crossed', probe' # ProbeOf(engine')
        PROVE  \E t \in Tasks : Does(t, "switch", "installed")' \/ Does(t, "switch", "cleared")'
    BY <1>2, <2>5 DEF SwitchesOK, gui
  <2> QED
    BY <2>1, <2>2, <2>3, <2>4, <2>5 DEF SwitchesOK, Wired, IsWired, ProbeOf
<1>3. CASE UNCHANGED wiringVars
  BY <1>2, <1>3 DEF wiringVars, wiringFiles, gui, Does, Switching
<1>4. ASSUME NEW t \in Tasks,
             \/ SwitchBuilds(t) \/ SyncStarts(t) \/ ToolStarts(t) \/ ToolBuilds(t) \/ SyncEnds(t)
             \/ SaveUserChecks(t) \/ SaveProjectChecks(t) \/ SubscriptionLoads(t) \/ Truncates(t) \/ Fills(t)
      PROVE  SwitchesOK'
  <2>1. UNCHANGED <<gui, command, crossed>>
    BY <1>4 DEF SwitchBuilds, SyncStarts, ToolStarts, ToolBuilds, SyncEnds, SaveUserChecks, SaveProjectChecks,
       SubscriptionLoads, Truncates, Fills, Puts
  <2>2. PICK p : Step(t, p) /\ p \notin {"installed", "cleared"}
    BY <1>4 DEF SwitchBuilds, SyncStarts, ToolStarts, ToolBuilds, SyncEnds, SaveUserChecks, SaveProjectChecks,
       SubscriptionLoads, Truncates, Fills, ReadsProject, ReadsUser, Fails
  <2>3. held' = held \/ \E x : Takes(t, x)
    BY <1>4 DEF SwitchBuilds, SyncStarts, ToolStarts, ToolBuilds, SyncEnds, SaveUserChecks, SaveProjectChecks,
       SubscriptionLoads, Truncates, Fills, Puts, ReadsProject, ReadsUser, Fails
  <2>4. ~Does(t, "switch", "installed") /\ ~Does(t, "switch", "cleared")
    BY <1>4 DEF SwitchBuilds, SyncStarts, ToolStarts, ToolBuilds, SyncEnds, SaveUserChecks, SaveProjectChecks,
       SubscriptionLoads, Truncates, Fills, Does
  <2>5. command[t].op = "switch" => Switching(t)
    BY <1>4 DEF SwitchBuilds, SyncStarts, ToolStarts, ToolBuilds, SyncEnds, SaveUserChecks, SaveProjectChecks,
       SubscriptionLoads, Truncates, Fills, Does, Switching, HandsOK
  <2>6. phase'[t] = p /\ \A u \in Tasks \ {t} : phase'[u] = phase[u]
    BY <1>1, <2>2
  <2>7. \A u \in Tasks \ {t} : held'[u] = held[u]
    BY <2>3 DEF Takes, WiringShape
  <2>8. \A u \in Tasks : \A q \in {"installed", "cleared"} : Does(u, "switch", q)' <=> Does(u, "switch", q)
    BY <2>1, <2>2, <2>4, <2>6 DEF Does
  <2>9. \A u \in Tasks : Switching(u)' => Switching(u)
    BY <2>1, <2>5, <2>6 DEF Switching
  <2> QED
    BY <1>2, <2>1, <2>4, <2>7, <2>8, <2>9
<1>5. ASSUME NEW t \in Tasks, SwitchStarts(t) PROVE SwitchesOK'
  <2>1. /\ UNCHANGED <<gui, command>> /\ Does(t, "switch", "idle")
        /\ crossed' = (crossed \/ \E u \in Tasks \ {t} : Switching(u))
    BY <1>5 DEF SwitchStarts
  <2>2. PICK p : Step(t, p) /\ p \notin {"installed", "cleared"}
    BY <1>5 DEF SwitchStarts, ReadsProject, Fails
  <2>3. held' = held \/ \E x : Takes(t, x)
    BY <1>5 DEF SwitchStarts, ReadsProject, Fails
  <2>4. phase'[t] = p /\ \A u \in Tasks \ {t} : phase'[u] = phase[u]
    BY <1>1, <2>2
  <2>5. \A u \in Tasks \ {t} : held'[u] = held[u]
    BY <2>3 DEF Takes, WiringShape
  <2>6. \A u \in Tasks : \A q \in {"installed", "cleared"} : Does(u, "switch", q)' <=> Does(u, "switch", q)
    BY <2>1, <2>2, <2>4 DEF Does
  <2>7. Wired(engine)'
    BY <2>1 DEF SwitchesOK, gui
  <2>8. (syncError /\ engine # NoEngine)' => \E u \in Tasks : Does(u, "switch", "installed")'
    BY <2>1, <2>6 DEF SwitchesOK, gui
  <2>9. ASSUME ~crossed', NEW u \in Tasks, NEW v \in Tasks, Switching(u)', Switching(v)' PROVE u = v
    BY <2>1, <2>4, <2>9 DEF Switching
  <2>10. ASSUME ~crossed', NEW u \in Tasks, Does(u, "switch", "installed")' \/ Does(u, "switch", "cleared")'
         PROVE  engine' = held'[u]
    <3>1. u # t /\ (Does(u, "switch", "installed") \/ Does(u, "switch", "cleared"))
      BY <2>1, <2>2, <2>4, <2>6, <2>10 DEF Does
    <3> QED
      BY <2>1, <2>5, <2>10, <3>1 DEF SwitchesOK, gui
  <2>11. ASSUME ~crossed', probe' # ProbeOf(engine')
         PROVE  \E u \in Tasks : Does(u, "switch", "installed")' \/ Does(u, "switch", "cleared")'
    BY <2>1, <2>6, <2>11 DEF SwitchesOK, gui
  <2> QED
    BY <2>7, <2>8, <2>9, <2>10, <2>11 DEF SwitchesOK, Wired, IsWired, ProbeOf

\* Steps of a change that has installed its engine.
<1>6. ASSUME NEW t \in Tasks, NEW p \in {"installed", "cleared", "done"}, Step(t, p), command[t].op = "switch",
             Switching(t), held' = held, UNCHANGED <<command, crossed>>,
             Wired(engine'), p = "installed" => engine' = held[t],
             p # "installed" => engine' = engine /\ (phase[t] = "installed" \/ phase[t] = "cleared"),
             p # "installed" => (syncError' => syncError) /\ (phase[t] = "installed" => ~syncError'),
             p = "done" => probe' = ProbeOf(held[t]),
             p = "done" => phase[t] = "cleared"
      PROVE  SwitchesOK'
  <2>1. phase'[t] = p /\ \A u \in Tasks \ {t} : phase'[u] = phase[u]
    BY <1>1, <1>6
  <2>2. (syncError /\ engine # NoEngine)' => \E u \in Tasks : Does(u, "switch", "installed")'
    <3>1. CASE p = "installed"
      BY <1>6, <2>1, <3>1 DEF Does
    <3>2. CASE p # "installed" /\ syncError' /\ engine' # NoEngine
      <4>1. PICK u \in Tasks : Does(u, "switch", "installed")
        BY <1>6, <3>2 DEF SwitchesOK
      <4>2. u # t
        BY <1>6, <3>2, <4>1 DEF Does
      <4> QED
        BY <1>6, <2>1, <4>1, <4>2 DEF Does
    <3> QED
      BY <3>1, <3>2
  <2>3. ASSUME ~crossed', NEW u \in Tasks, NEW v \in Tasks, Switching(u)', Switching(v)' PROVE u = v
    <3>1. Switching(u) /\ Switching(v)
      BY <1>6, <2>1, <2>3 DEF Switching
    <3> QED
      BY <1>6, <2>3, <3>1 DEF SwitchesOK
  <2>4. ASSUME ~crossed' PROVE \A u \in Tasks \ {t} : ~Switching(u)
    BY <1>6, <2>4 DEF SwitchesOK
  <2>5. ASSUME ~crossed', NEW u \in Tasks, Does(u, "switch", "installed")' \/ Does(u, "switch", "cleared")'
        PROVE  engine' = held'[u]
    <3>1. u = t
      BY <1>6, <2>1, <2>4, <2>5 DEF Does, Switching
    <3>2. p # "installed" => engine = held[t]
      BY <1>6, <2>5 DEF SwitchesOK, Does
    <3> QED
      BY <1>6, <3>1, <3>2
  <2>6. ASSUME ~crossed', probe' # ProbeOf(engine')
        PROVE  \E u \in Tasks : Does(u, "switch", "installed")' \/ Does(u, "switch", "cleared")'
    <3>1. CASE p # "done"
      BY <1>6, <2>1, <3>1 DEF Does
    <3>2. CASE p = "done"
      <4>1. engine = held[t] /\ engine' = engine /\ probe' = ProbeOf(held[t])
        BY <1>6, <2>6, <3>2 DEF SwitchesOK, Does
      <4> QED
        BY <2>6, <4>1
    <3> QED
      BY <3>1, <3>2
  <2> QED
    BY <1>6, <2>2, <2>3, <2>5, <2>6 DEF SwitchesOK, Wired, IsWired, ProbeOf
<1>7. ASSUME NEW t \in Tasks, SwitchInstalls(t) PROVE SwitchesOK'
  <2>1. Wired(engine') /\ engine' = held[t]
    BY <1>7 DEF SwitchInstalls, HandsOK, Does, Wired, IsWired
  <2> QED
    BY <1>6, <1>7, <2>1 DEF SwitchInstalls, Does, Switching
<1>8. ASSUME NEW t \in Tasks, SwitchClears(t) PROVE SwitchesOK'
  BY <1>6, <1>8 DEF SwitchClears, Does, Switching, SwitchesOK
<1>9. ASSUME NEW t \in Tasks, SwitchProbes(t) PROVE SwitchesOK'
  BY <1>6, <1>9 DEF SwitchProbes, Does, Switching, SwitchesOK
<1>10. CASE Restarts
  <2> DEFINE found == FoundAt(userFile, projectFile[anchor], anchor)
  <2>1. /\ engine' = EngineOf(found) /\ syncError' = (found = Failure) /\ probe' = ProbeOf(EngineOf(found))
        /\ command' = command
        /\ phase' = [t \in Tasks |-> IF t \in GuiTasks /\ phase[t] # "idle" THEN "done" ELSE phase[t]]
    BY <1>10 DEF Restarts
  <2>2. userFile \in UserStates /\ anchor \in Roots /\ projectFile[anchor] \in ProjectStates
    BY DEF WiringShape
  <2>3. Wired(engine') /\ (syncError' => engine' = NoEngine)
    BY <2>1, <2>2, DiscoveryAgrees
  <2>4. \A t \in Tasks : ~Switching(t)'
    BY <2>1, AsksAreWhole DEF Switching
  <2>5. \A t \in Tasks : ~Does(t, "switch", "installed")' /\ ~Does(t, "switch", "cleared")'
    BY <2>4 DEF Does, Switching
  <2> HIDE DEF found
  <2> QED
    BY <2>1, <2>3, <2>4, <2>5 DEF SwitchesOK, Wired, IsWired, ProbeOf
<1> QED
  BY <1>3, <1>4, <1>5, <1>7, <1>8, <1>9, <1>10 DEF WiringNext

\* Whatever is edited, saved, switched or killed, the hands, the files and the
\* engine stay as they must be.
THEOREM WiringInvariance == WiringSpec => []WiringInv
<1>1. WiringInit => WiringInv
  <2> SUFFICES ASSUME WiringInit PROVE WiringInv
    OBVIOUS
  <2> DEFINE found == FoundAt(userFile, projectFile[anchor], anchor)
  <2>1. /\ userFile \in UserStates /\ projectFile \in [Roots -> ProjectStates] /\ anchor \in Roots
        /\ \A t \in Tasks : IF t \in GuiTasks THEN AsksOfGui(command[t]) ELSE AsksOfTool(command[t])
    BY WiringAssumption DEF WiringInit
  <2>2. /\ phase = [t \in Tasks |-> IF command[t].op = "none" THEN "done" ELSE "idle"]
        /\ held = [t \in Tasks |-> NoEngine]
    BY DEF WiringInit
  <2>3. WiringShape
    BY <2>1, <2>2 DEF WiringShape
  <2>4. \A t \in Tasks : phase[t] \in {"done", "idle"}
    BY <2>2
  <2>5. HandsOK
    BY <2>4 DEF HandsOK, Does
  <2>6. Wired(engine) /\ (syncError => engine = NoEngine) /\ probe = ProbeOf(engine)
    <3>1. engine = EngineOf(found) /\ syncError = (found = Failure) /\ probe = ProbeOf(EngineOf(found))
      BY DEF WiringInit
    <3> QED
      BY <2>1, <3>1, DiscoveryAgrees
  <2>7. SwitchesOK
    BY <2>4, <2>6 DEF SwitchesOK, Switching, Does
  <2> QED
    BY <2>3, <2>5, <2>7 DEF WiringInv
<1>2. WiringInv /\ [WiringNext]_wiringVars => WiringInv'
  BY WiringShapeStays, HandsStayOK, SwitchesStayOK DEF WiringInv
<1> QED
  BY <1>1, <1>2, PTL DEF WiringSpec

\* The engines that synchronise are wired, and what the GUI shows agrees with
\* its engine.
THEOREM EnginesStayWired == WiringSpec => []SyncIsWired
<1>1. ASSUME WiringInv PROVE SyncIsWired
  <2>1. EnginesAreWired
    BY <1>1 DEF WiringInv, HandsOK, SwitchesOK, EnginesAreWired, InUse, Wired, Does
  <2>2. \A t \in GuiTasks : Does(t, "sync", "running") => held[t] = engine
    BY <1>1, WiringAssumption DEF WiringInv, HandsOK
  <2>3. ASSUME \A t \in Tasks : ~Switching(t)
        PROVE  (syncError => engine = NoEngine) /\ (~crossed => probe = ProbeOf(engine))
    <3>1. \A t \in Tasks : ~Does(t, "switch", "installed") /\ ~Does(t, "switch", "cleared")
      BY <2>3 DEF Switching, Does
    <3> QED
      BY <1>1, <3>1 DEF WiringInv, SwitchesOK
  <2> QED
    BY <2>1, <2>2, <2>3 DEF SyncIsWired, GuiAgrees
<1> QED
  BY <1>1, WiringInvariance, PTL
-----------------------------------------------------------------------------
(* ContentCache: what the index has, and what it cannot know yet.          *)

\* Keys of group g of which the rows need not agree with its files T: files
\* that drift, or two of one id, and changes of which the cache was not told,
\* or is yet to be.
Drifts(T, k) == \E d \in T : d.id # d.stem /\ (k = d.id \/ k = d.stem)
Doubles(T, k) == \E d, e \in T : d # e /\ d.id = k /\ e.id = k
Untold(g, k) == \E u \in untold : u[1] = g /\ u[2] = k
Awaited(g, k) == \E t \in Workers : work[t].group = g /\ \E f \in tell[t] : f.id = k
Unsure(g, k) == Untold(g, k) \/ Awaited(g, k) \/ Drifts(tree[g], k) \/ Doubles(tree[g], k)
\* What a rebuild that lists a group will have made up for once it commits.
Forgiven(g, k) == \E t \in Workers : \E u \in scan[t].forgiven : u[1] = g /\ u[2] = k

RowsAt(rs, g, k) == {r \in rs : r.group = g /\ r.key = k}
Truth(T, g, k) == {Row(g, k, f) : f \in {d \in T : d.id = k}}

IsScan(x) ==
  x = [todo |-> x.todo, now |-> x.now, listed |-> x.listed, done |-> x.done, staged |-> x.staged,
       forgiven |-> x.forgiven]
Listing(x, g) ==
  [todo |-> x.todo \ {g}, now |-> {g}, listed |-> {Path(f) : f \in tree[g]}, done |-> x.done,
   staged |-> x.staged, forgiven |-> x.forgiven \union {u \in untold : u[1] = g}]
Reading(x, g, new) ==
  [todo |-> x.todo, now |-> {}, listed |-> x.listed, done |-> x.done \union {g}, staged |-> x.staged \union new,
   forgiven |-> x.forgiven]
Scanning(t) == at[t] \in {"scanning", "reading", "read"}
CacheShape ==
  /\ tree = [g \in Groups |-> tree[g]] /\ built \in BOOLEAN
  /\ at \in [Workers -> {"start", "planned", "based", "telling", "pulled", "waiting", "scanning", "reading", "read",
                         "done"}]
  /\ tell = [t \in Workers |-> tell[t]]
  /\ scan = [t \in Workers |-> scan[t]] /\ \A t \in Workers : IsScan(scan[t])
  /\ \A t \in Workers :
       /\ work[t].op \in {"none", "search", "write", "delete", "move", "import", "pull"}
       /\ work[t].op # "none" => work[t].group \in Groups
       /\ at[t] \in {"planned", "based", "telling"} => work[t].op # "none"
       /\ at[t] = "pulled" => work[t].op = "pull"
       /\ work[t].op = "none" => at[t] = "done"
       /\ tell[t] # {} => at[t] = "telling"

\* One rebuild runs at a time, and passes its groups one by one.
ScanOK(t) ==
  /\ IF Scanning(t) THEN owner = t
     ELSE scan[t].now = {} /\ scan[t].done = {} /\ scan[t].staged = {} /\ scan[t].forgiven = {}
  /\ Scanning(t) \/ at[t] = "waiting" =>
       /\ work[t].op \in {"search", "pull"} /\ (work[t].op = "pull" => built)
       /\ scan[t].todo \union scan[t].now \union scan[t].done
            = IF work[t].op = "search" THEN Groups ELSE {work[t].group}
  /\ scan[t].todo \intersect scan[t].now = {} /\ scan[t].todo \intersect scan[t].done = {}
  /\ scan[t].now \intersect scan[t].done = {}
  /\ at[t] = "read" => scan[t].todo = {}
  /\ at[t] # "reading" => scan[t].now = {}
  /\ \A g, h \in scan[t].now : g = h
  /\ \A r \in scan[t].staged : r.group \in scan[t].done
  /\ \A u \in scan[t].forgiven : u[1] \in scan[t].now \union scan[t].done
ScansOK == \A t \in Workers : ScanOK(t)

\* The rows are true but for what is unsure, or was when a rebuild that has not
\* committed listed the group; so are the rows it has staged, and it has listed
\* every file of the group it is about to read.
RowsOK ==
  built => \A g \in Groups : \A k :
    Unsure(g, k) \/ Forgiven(g, k) \/ RowsAt(rows, g, k) = Truth(tree[g], g, k)
StagedOK ==
  \A t \in Workers :
    /\ \A g \in scan[t].done : \A k : Unsure(g, k) \/ RowsAt(scan[t].staged, g, k) = Truth(tree[g], g, k)
    /\ \A g \in scan[t].now : \A f \in tree[g] : Unsure(g, f.id) \/ Path(f) \in scan[t].listed

CacheInv == CacheShape /\ ScansOK /\ RowsOK /\ StagedOK

\* A step of an operation leaves the rows alone, and unsure is what it changes.
Steady ==
  \A g \in Groups :
    /\ \A k : Unsure(g, k)' \/ (~Unsure(g, k) /\ Truth(tree'[g], g, k) = Truth(tree[g], g, k))
    /\ \A f \in tree'[g] : Unsure(g, f.id)' \/ f \in tree[g]

\* The groups a rebuild has passed are groups.
LEMMA ScannedAreGroups ==
  ASSUME CacheShape, ScansOK, NEW t \in Workers
  PROVE  scan[t].now \subseteq Groups /\ scan[t].done \subseteq Groups
         /\ (Scanning(t) \/ at[t] = "waiting" => scan[t].todo \subseteq Groups)
<1>1. CASE Scanning(t) \/ at[t] = "waiting"
  <2>1. scan[t].todo \union scan[t].now \union scan[t].done \subseteq Groups
    <3>1. work[t].op = "pull" => work[t].group \in Groups
      BY DEF CacheShape
    <3>2. /\ work[t].op \in {"search", "pull"}
          /\ scan[t].todo \union scan[t].now \union scan[t].done
               = IF work[t].op = "search" THEN Groups ELSE {work[t].group}
      BY <1>1 DEF ScansOK, ScanOK
    <3> QED
      BY <3>1, <3>2
  <2> QED
    BY <2>1
<1>2. CASE ~(Scanning(t) \/ at[t] = "waiting")
  BY <1>2 DEF ScansOK, ScanOK
<1> QED
  BY <1>1, <1>2

\* Such a step keeps the index, and a rebuild that runs, as true as they were.
LEMMA SteadyKeepsRows ==
  ASSUME CacheInv, Steady, UNCHANGED <<rows, built, scan>>
  PROVE  RowsOK' /\ StagedOK'
<1>1. RowsOK'
  <2>1. ASSUME built, NEW g \in Groups, NEW k, ~Unsure(g, k)', ~Forgiven(g, k)'
        PROVE  RowsAt(rows', g, k) = Truth(tree'[g], g, k)
    BY <2>1 DEF CacheInv, RowsOK, Steady, Forgiven
  <2> QED
    BY <2>1 DEF RowsOK, RowsAt, Truth, Row
<1>2. ASSUME NEW t \in Workers, NEW g \in scan[t].done, NEW k, ~Unsure(g, k)'
      PROVE  RowsAt(scan[t].staged, g, k) = Truth(tree'[g], g, k)
  BY <1>2, ScannedAreGroups DEF CacheInv, StagedOK, Steady
<1>3. ASSUME NEW t \in Workers, NEW g \in scan[t].now, NEW f \in tree'[g], ~Unsure(g, f.id)'
      PROVE  Path(f) \in scan[t].listed
  BY <1>3, ScannedAreGroups DEF CacheInv, StagedOK, Steady
<1> QED
  BY <1>1, <1>2, <1>3 DEF StagedOK, RowsAt, Truth, Row, Path

\* A step that leaves the files alone, and forgets nothing of what is unsure.
LEMMA UnsureStays ==
  ASSUME CacheInv, tree' = tree, \A g \in Groups : \A k : Untold(g, k) \/ Awaited(g, k) => Unsure(g, k)'
  PROVE  Steady
<1>1. ASSUME NEW g \in Groups, NEW k, Unsure(g, k) PROVE Unsure(g, k)'
  BY <1>1 DEF Unsure, Drifts, Doubles
<1> QED
  BY <1>1 DEF Steady

\* A change of the files of a group, all of which is unsure from now on.
LEMMA ChangesAreUnsure ==
  ASSUME CacheInv, NEW g \in Groups, NEW T, tree' = [tree EXCEPT ![g] = T],
         \A h \in Groups : \A k : (Untold(h, k) => Untold(h, k)') /\ (Awaited(h, k) => Awaited(h, k)'),
         \A d \in tree[g] \ T :
           /\ Untold(g, d.id)' \/ Awaited(g, d.id)' \/ Drifts(T, d.id)
           /\ Untold(g, d.stem)' \/ Awaited(g, d.stem)' \/ Drifts(T, d.stem),
         \A d \in T \ tree[g] : Untold(g, d.id)' \/ Awaited(g, d.id)'
  PROVE  Steady
<1>1. tree'[g] = T /\ \A h \in Groups \ {g} : tree'[h] = tree[h]
  BY DEF CacheInv, CacheShape
<1>2. \A h \in Groups : \A k :
        Unsure(h, k)' <=> Untold(h, k)' \/ Awaited(h, k)' \/ Drifts(tree'[h], k) \/ Doubles(tree'[h], k)
  BY DEF Unsure, Drifts, Doubles
<1>3. ASSUME NEW k, ~Unsure(g, k)'
      PROVE  ~Unsure(g, k) /\ Truth(tree'[g], g, k) = Truth(tree[g], g, k)
  <2>1. ~Untold(g, k)' /\ ~Awaited(g, k)' /\ ~Drifts(T, k) /\ ~Doubles(T, k)
    BY <1>1, <1>2, <1>3
  <2>2. \A d \in tree[g] \ T : d.id # k /\ d.stem # k
    BY <2>1
  <2>3. \A d \in T \ tree[g] : d.id # k
    BY <2>1
  <2>4. ~Drifts(tree[g], k) /\ ~Doubles(tree[g], k)
    BY <2>1, <2>2 DEF Drifts, Doubles
  <2>5. ~Unsure(g, k)
    BY <2>1, <2>4 DEF Unsure
  <2>6. {d \in T : d.id = k} = {d \in tree[g] : d.id = k}
    BY <2>2, <2>3
  <2> QED
    BY <1>1, <2>5, <2>6 DEF Truth
<1>4. ASSUME NEW h \in Groups \ {g}, NEW k, Unsure(h, k) PROVE Unsure(h, k)'
  BY <1>1, <1>2, <1>4 DEF Unsure
<1>5. \A d \in T \ tree[g] : Unsure(g, d.id)'
  BY <1>2
<1> QED
  BY <1>1, <1>3, <1>4, <1>5 DEF Steady

\* What an operation on memories, or a pull, does is unsure as long as the
\* cache has not been told of it.
LEMMA OperationsAreSteady ==
  ASSUME CacheInv, NEW t \in Workers,
         \/ WriteFile(t) \/ DeleteFile(t) \/ MoveFile(t) \/ PlanImport(t) \/ FindParent(t) \/ Land(t)
         \/ LosesRace(t) \/ TellFails(t)
         \/ PullMain(t)
  PROVE  Steady
<1>0. /\ tell = [u \in Workers |-> tell[u]] /\ (at[t] # "telling" => tell[t] = {})
      /\ (at[t] # "done" => work[t].op # "none") /\ (work[t].op # "none" => work[t].group \in Groups)
  BY DEF CacheInv, CacheShape
<1>g. PICK g : g = work[t].group
  OBVIOUS
<1>1. ASSUME work' = work, untold \subseteq untold', tell[t] = {}, \A u \in Workers \ {t} : tell'[u] = tell[u]
      PROVE  \A h \in Groups : \A k : (Untold(h, k) => Untold(h, k)') /\ (Awaited(h, k) => Awaited(h, k)')
  BY <1>1 DEF Untold, Awaited
<1>k. ASSUME NEW k, <<g, k>> \in untold' PROVE Untold(g, k)'
  <2>1. <<g, k>>[1] = g /\ <<g, k>>[2] = k
    OBVIOUS
  <2> QED
    BY <1>k, <2>1 DEF Untold
<1>2. ASSUME NEW files, untold \union Ids(g, files) \subseteq untold' PROVE \A f \in files : Untold(g, f.id)'
  <2>1. \A f \in files : <<g, f.id>> \in untold'
    BY <1>2 DEF Ids
  <2> QED
    BY <1>k, <2>1
<1>3. ASSUME NEW files, untold \union Keys(g, files) \subseteq untold'
      PROVE  \A f \in files : Untold(g, f.id)' /\ Untold(g, f.stem)'
  <2>1. \A f \in files : <<g, f.id>> \in untold' /\ <<g, f.stem>> \in untold'
    BY <1>3 DEF Keys, Ids
  <2> QED
    BY <1>k, <2>1
<1>4. CASE Land(t)
  <2> DEFINE T == Edited(base[t].files, edit[t])
             alone == {f \in (tree[g] \ T) \union (T \ tree[g]) : \A n \in Told(t) : Path(n) # Path(f)}
  <2>1. /\ at[t] = "based" /\ work' = work
        /\ tree' = [tree EXCEPT ![g] = T] /\ tell' = [tell EXCEPT ![t] = Told(t)]
        /\ untold' = untold \union Ids(g, Displaced(g, Told(t))) \union Keys(g, alone)
    BY <1>g, <1>4 DEF Land
  <2>2. g \in Groups /\ tell[t] = {} /\ tell'[t] = Told(t) /\ \A u \in Workers \ {t} : tell'[u] = tell[u]
    BY <1>0, <1>g, <2>1
  <2>3. \A h \in Groups : \A k : (Untold(h, k) => Untold(h, k)') /\ (Awaited(h, k) => Awaited(h, k)')
    BY <1>1, <2>1, <2>2
  <2>4. \A f \in Told(t) : Awaited(g, f.id)'
    BY <1>g, <2>1, <2>2 DEF Awaited
  <2>5. \A f \in Displaced(g, Told(t)) : Untold(g, f.id)'
    BY <1>2, <2>1
  <2>6. \A f \in alone : Untold(g, f.id)' /\ Untold(g, f.stem)'
    BY <1>3, <2>1
  <2>7. Told(t) \subseteq T /\ \A n \in Told(t), f \in T : Path(n) = Path(f) => f \in Told(t)
    BY DEF Told, Edited, Put
  <2>8. ASSUME NEW d \in tree[g] \ T
        PROVE  /\ Untold(g, d.id)' \/ Awaited(g, d.id)' \/ Drifts(T, d.id)
               /\ Untold(g, d.stem)' \/ Awaited(g, d.stem)' \/ Drifts(T, d.stem)
    <3>1. CASE d \in alone
      BY <2>6, <3>1
    <3>2. CASE d \notin alone
      <4>1. PICK n \in Told(t) : Path(n) = Path(d)
        BY <3>2
      <4>2. n \in T /\ n.stem = d.stem
        BY <2>7, <4>1 DEF Path
      <4>3. n.id = d.id \/ d \in Displaced(g, Told(t))
        BY <4>1 DEF Displaced
      <4>4. n.stem = n.id \/ Drifts(T, n.stem)
        BY <4>2 DEF Drifts
      <4> HIDE DEF T, alone
      <4> QED
        BY <2>4, <2>5, <4>2, <4>3, <4>4
    <3> QED
      BY <3>1, <3>2
  <2>9. ASSUME NEW d \in T \ tree[g]
        PROVE  Untold(g, d.id)' \/ Awaited(g, d.id)'
    <3>1. CASE d \in alone
      BY <2>6, <3>1
    <3>2. CASE d \notin alone
      <4>1. PICK n \in Told(t) : Path(n) = Path(d)
        BY <3>2
      <4> HIDE DEF T, alone
      <4> QED
        BY <2>4, <2>7, <4>1
    <3> QED
      BY <3>1, <3>2
  <2> HIDE DEF T, alone
  <2> QED
    BY <2>1, <2>2, <2>3, <2>8, <2>9, ChangesAreUnsure
<1>5. CASE WriteFile(t) \/ DeleteFile(t) \/ MoveFile(t) \/ PlanImport(t) \/ FindParent(t)
        \/ LosesRace(t) \/ PullMain(t)
  <2>1. tree' = tree /\ tell' = tell /\ work' = work /\ untold' = untold
    BY <1>5 DEF WriteFile, DeleteFile, MoveFile, PlanImport, FindParent, LosesRace, PullMain
  <2>2. \A h, k : (Untold(h, k) => Untold(h, k)') /\ (Awaited(h, k) => Awaited(h, k)')
    BY <2>1 DEF Untold, Awaited
  <2>3. \A h \in Groups : \A k : Untold(h, k) \/ Awaited(h, k) => Unsure(h, k)'
    BY <2>2 DEF Unsure
  <2> QED
    BY <2>1, <2>3, UnsureStays
<1>6. CASE TellFails(t)
  <2>1. PICK f \in tell[t] :
          tell' = [tell EXCEPT ![t] = @ \ {f}] /\ untold' = untold \union Ids(g, {f}) /\ work' = work /\ tree' = tree
    BY <1>g, <1>6 DEF TellFails
  <2>2. tell'[t] = tell[t] \ {f} /\ \A u \in Workers \ {t} : tell'[u] = tell[u]
    BY <1>0, <1>g, <2>1
  <2>3. Untold(g, f.id)' /\ \A h, k : Untold(h, k) => Untold(h, k)'
    <3>1. \A h, k : Untold(h, k) => Untold(h, k)'
      BY <2>1 DEF Untold
    <3> QED
      BY <1>2, <2>1, <3>1
  <2>4. ASSUME NEW h, NEW k, Awaited(h, k) PROVE Awaited(h, k)' \/ Untold(h, k)'
    BY <1>g, <2>1, <2>2, <2>3, <2>4 DEF Awaited
  <2> QED
    BY <2>1, <2>3, <2>4, UnsureStays DEF Unsure
<1> QED
  BY <1>4, <1>5, <1>6

\* A rebuild that has not begun, and none, have nothing staged.
LEMMA NewScans ==
  ASSUME NEW todo
  PROVE  LET x == [NoScan EXCEPT !.todo = todo] IN
         /\ IsScan(x) /\ x.todo = todo /\ x.now = {} /\ x.done = {} /\ x.staged = {} /\ x.forgiven = {}
         /\ IsScan(NoScan) /\ NoScan.todo = {} /\ NoScan.now = {} /\ NoScan.done = {} /\ NoScan.staged = {}
         /\ NoScan.forgiven = {}
  BY DEF IsScan, NoScan

\* What a step of task t does to where the tasks are.
LEMMA StepsOfTasks ==
  ASSUME CacheInv, NEW t \in Workers,
         \/ WriteFile(t) \/ DeleteFile(t) \/ MoveFile(t) \/ PlanImport(t) \/ FindParent(t) \/ Land(t)
         \/ LosesRace(t) \/ Tell(t) \/ TellFails(t) \/ PullMain(t) \/ NotifyPull(t)
         \/ EnsureBuilt(t) \/ Begin(t) \/ ListGroup(t)
         \/ ReadGroup(t) \/ CommitScan(t) \/ RebuildFails(t)
  PROVE  /\ work' = work /\ built' \in BOOLEAN /\ work[t].op # "none"
         /\ tree' = [g \in Groups |-> tree'[g]]
         /\ at'[t] \in {"planned", "based", "telling", "pulled", "waiting", "scanning", "reading", "read", "done"}
         /\ at' \in [Workers -> {"start", "planned", "based", "telling", "pulled", "waiting", "scanning", "reading",
                                 "read", "done"}]
         /\ \A u \in Workers \ {t} : at'[u] = at[u] /\ tell'[u] = tell[u] /\ scan'[u] = scan[u]
         /\ tell' = [u \in Workers |-> tell'[u]] /\ (tell'[t] # {} => at'[t] = "telling")
         /\ scan' = [u \in Workers |-> scan'[u]] /\ IsScan(scan'[t])
         /\ at'[t] = "pulled" => work[t].op = "pull"
<1>0. /\ tree = [g \in Groups |-> tree[g]] /\ built \in BOOLEAN
      /\ at \in [Workers -> {"start", "planned", "based", "telling", "pulled", "waiting", "scanning", "reading", "read",
                             "done"}]
      /\ tell = [u \in Workers |-> tell[u]] /\ scan = [u \in Workers |-> scan[u]] /\ IsScan(scan[t])
      /\ (tell[t] # {} => at[t] = "telling") /\ (at[t] # "done" => work[t].op # "none")
  BY DEF CacheInv, CacheShape
<1>1. /\ work' = work /\ work[t].op # "none" /\ built' \in BOOLEAN
      /\ tree' = tree \/ \E g, T : tree' = [tree EXCEPT ![g] = T]
      /\ \E s \in {"planned", "based", "telling", "pulled", "waiting", "scanning", "reading", "read", "done"} :
           at' = [at EXCEPT ![t] = s]
  BY ZenonT(60), <1>0 DEF WriteFile, DeleteFile, MoveFile, PlanImport, FindParent, Land, LosesRace,
     Tell, TellFails, PullMain, NotifyPull,
     EnsureBuilt, Begin, ListGroup, ReadGroup, CommitScan, RebuildFails, LooksUp, Go
<1>2. /\ tree' = [g \in Groups |-> tree'[g]]
      /\ at'[t] \in {"planned", "based", "telling", "pulled", "waiting", "scanning", "reading", "read", "done"}
      /\ at' \in [Workers -> {"start", "planned", "based", "telling", "pulled", "waiting", "scanning", "reading",
                              "read", "done"}]
      /\ \A u \in Workers \ {t} : at'[u] = at[u]
  BY <1>0, <1>1
<1>3. (tell' = tell \/ \E x : tell' = [tell EXCEPT ![t] = x]) /\ (tell'[t] # {} => at'[t] = "telling")
  <2>1. CASE Land(t)
    <3>1. /\ tell' = [tell EXCEPT ![t] = Told(t)] /\ at[t] = "based"
          /\ Go(t, IF work[t].op = "pull" THEN "pulled" ELSE IF Told(t) # {} THEN "telling" ELSE "done")
      BY <2>1 DEF Land
    <3>2. Told(t) # {} => work[t].op # "pull"
      BY DEF Told
    <3> QED
      BY <1>0, <3>1, <3>2 DEF Go
  <2>2. CASE Tell(t)
    <3>1. PICK f \in tell[t] : tell' = [tell EXCEPT ![t] = tell[t] \ {f}]
                               /\ Go(t, IF tell[t] = {f} THEN "done" ELSE "telling")
      BY <2>2 DEF Tell
    <3> QED
      BY <1>0, <3>1 DEF Go
  <2>3. CASE TellFails(t)
    <3>1. PICK f \in tell[t] : tell' = [tell EXCEPT ![t] = tell[t] \ {f}]
                               /\ Go(t, IF tell[t] = {f} THEN "done" ELSE "telling")
      BY <2>3 DEF TellFails
    <3> QED
      BY <1>0, <3>1 DEF Go
  <2>4. CASE ~(Land(t) \/ Tell(t) \/ TellFails(t))
    <3>1. tell' = tell /\ at[t] # "telling"
      BY <2>4 DEF WriteFile, DeleteFile, MoveFile, PlanImport, FindParent, LosesRace, PullMain, NotifyPull,
         EnsureBuilt, Begin, ListGroup, ReadGroup, CommitScan, RebuildFails, LooksUp
    <3> QED
      BY <1>0, <3>1
  <2> QED
    BY <2>1, <2>2, <2>3, <2>4
<1>4. scan' = scan \/ \E x : scan' = [scan EXCEPT ![t] = x] /\ IsScan(x)
  <2>1. CASE NotifyPull(t) \/ EnsureBuilt(t) \/ CommitScan(t) \/ RebuildFails(t)
    BY <2>1, NewScans DEF NotifyPull, EnsureBuilt, CommitScan, RebuildFails
  <2>2. CASE ListGroup(t)
    <3>1. PICK g, x : scan' = [scan EXCEPT ![t] = x] /\ x = Listing(scan[t], g)
      BY <1>0, <2>2 DEF ListGroup, Listing
    <3> QED
      BY <3>1 DEF Listing, IsScan
  <2>3. CASE ReadGroup(t)
    <3>1. PICK g, new, x : scan' = [scan EXCEPT ![t] = x] /\ x = Reading(scan[t], g, new)
      BY ZenonT(60), <1>0, <2>3 DEF ReadGroup, Reading
    <3> QED
      BY <3>1 DEF Reading, IsScan
  <2>4. CASE ~(NotifyPull(t) \/ EnsureBuilt(t) \/ CommitScan(t) \/ RebuildFails(t) \/ ListGroup(t) \/ ReadGroup(t))
    BY <2>4 DEF WriteFile, DeleteFile, MoveFile, PlanImport, FindParent, Land, LosesRace, Tell,
       TellFails, PullMain, Begin
  <2> QED
    BY <2>1, <2>2, <2>3, <2>4
<1>5. tell' = [u \in Workers |-> tell'[u]] /\ \A u \in Workers \ {t} : tell'[u] = tell[u]
  BY <1>0, <1>3
<1>6. scan' = [u \in Workers |-> scan'[u]] /\ IsScan(scan'[t]) /\ \A u \in Workers \ {t} : scan'[u] = scan[u]
  BY <1>0, <1>4
<1>7. at'[t] = "pulled" => work[t].op = "pull"
  <2>1. at = [u \in Workers |-> at[u]]
    BY DEF CacheInv, CacheShape
  <2>2. CASE Land(t)
    BY <2>1, <2>2 DEF Land, Go
  <2>3. CASE WriteFile(t) \/ DeleteFile(t) \/ MoveFile(t) \/ PlanImport(t) \/ PullMain(t) \/ FindParent(t)
    <3>1. LooksUp(t) => Go(t, "based")
      BY DEF LooksUp
    <3>2. WriteFile(t) \/ DeleteFile(t) \/ PullMain(t) \/ FindParent(t) => LooksUp(t)
      BY DEF WriteFile, DeleteFile, PullMain, FindParent
    <3>3. MoveFile(t) => Go(t, "done") \/ Go(t, "planned")
      BY DEF MoveFile
    <3>4. PlanImport(t) => Go(t, "done") \/ Go(t, "planned")
      BY DEF PlanImport
    <3>5. Go(t, "done") \/ Go(t, "planned") \/ Go(t, "based")
      BY <2>3, <3>1, <3>2, <3>3, <3>4
    <3> QED
      BY <2>1, <3>5 DEF Go
  <2>4. CASE LosesRace(t) \/ Tell(t) \/ TellFails(t)
    BY <2>1, <2>4 DEF LosesRace, Tell, TellFails, Go
  <2>5. CASE NotifyPull(t) \/ EnsureBuilt(t) \/ Begin(t) \/ ListGroup(t) \/ ReadGroup(t) \/ CommitScan(t)
             \/ RebuildFails(t)
    BY <2>1, <2>5 DEF NotifyPull, EnsureBuilt, Begin, ListGroup, ReadGroup, CommitScan, RebuildFails, Go
  <2> QED
    BY <2>2, <2>3, <2>4, <2>5
<1> QED
  BY <1>1, <1>2, <1>3, <1>5, <1>6, <1>7

\* The files, the tasks and the rebuilds stay what they are.
LEMMA CacheShapeStays ==
  ASSUME CacheInv, [CacheNext]_cacheVars
  PROVE  CacheShape'
<1>1. CASE UNCHANGED cacheVars
  BY <1>1 DEF cacheVars, CacheInv, CacheShape, IsScan
<1>2. CASE Crash
  BY <1>2, NewScans DEF Crash, Mishap, CacheInv, CacheShape, IsScan
<1>3. ASSUME NEW t \in Workers, \/ WriteFile(t) \/ DeleteFile(t) \/ MoveFile(t) \/ PlanImport(t)
                                \/ FindParent(t) \/ Land(t) \/ LosesRace(t)
                                \/ Tell(t) \/ TellFails(t) \/ PullMain(t) \/ NotifyPull(t) \/ EnsureBuilt(t)
                                \/ Begin(t) \/ ListGroup(t) \/ ReadGroup(t) \/ CommitScan(t) \/ RebuildFails(t)
      PROVE  CacheShape'
  <2>1. /\ work' = work /\ built' \in BOOLEAN /\ work[t].op # "none"
        /\ tree' = [g \in Groups |-> tree'[g]]
        /\ at'[t] \in {"planned", "based", "telling", "pulled", "waiting", "scanning", "reading", "read", "done"}
        /\ at' \in [Workers -> {"start", "planned", "based", "telling", "pulled", "waiting", "scanning", "reading",
                                "read", "done"}]
        /\ \A u \in Workers \ {t} : at'[u] = at[u] /\ tell'[u] = tell[u] /\ scan'[u] = scan[u]
        /\ tell' = [u \in Workers |-> tell'[u]] /\ (tell'[t] # {} => at'[t] = "telling")
        /\ scan' = [u \in Workers |-> scan'[u]] /\ IsScan(scan'[t])
        /\ at'[t] = "pulled" => work[t].op = "pull"
    BY <1>3, StepsOfTasks
  <2>2. \A u \in Workers :
          /\ IsScan(scan[u])
          /\ work[u].op \in {"none", "search", "write", "delete", "move", "import", "pull"}
          /\ work[u].op # "none" => work[u].group \in Groups
          /\ at[u] \in {"planned", "based", "telling"} => work[u].op # "none"
          /\ at[u] = "pulled" => work[u].op = "pull"
          /\ work[u].op = "none" => at[u] = "done"
          /\ tell[u] # {} => at[u] = "telling"
    BY DEF CacheInv, CacheShape
  <2>3. ASSUME NEW u \in Workers
        PROVE  /\ IsScan(scan'[u])
               /\ at'[u] \in {"planned", "based", "telling"} => work[u].op # "none"
               /\ at'[u] = "pulled" => work[u].op = "pull"
               /\ work[u].op = "none" => at'[u] = "done"
               /\ tell'[u] # {} => at'[u] = "telling"
    <3>1. CASE u = t
      BY <2>1, <3>1
    <3>2. CASE u # t
      BY <2>1, <2>2, <3>2
    <3> QED
      BY <3>1, <3>2
  <2>4. ASSUME NEW u \in Workers PROVE IsScan(scan[u])'
    <3>1. IsScan(scan'[u])
      BY <2>3
    <3> QED
      BY <3>1 DEF IsScan
  <2>5. \A u \in Workers :
          (/\ work[u].op \in {"none", "search", "write", "delete", "move", "import", "pull"}
           /\ work[u].op # "none" => work[u].group \in Groups
           /\ at[u] \in {"planned", "based", "telling"} => work[u].op # "none"
           /\ at[u] = "pulled" => work[u].op = "pull"
           /\ work[u].op = "none" => at[u] = "done"
           /\ tell[u] # {} => at[u] = "telling")'
    BY <2>1, <2>2, <2>3
  <2>6. /\ (tree = [g \in Groups |-> tree[g]])' /\ (built \in BOOLEAN)'
        /\ (tell = [u \in Workers |-> tell[u]])' /\ (scan = [u \in Workers |-> scan[u]])'
        /\ at' \in [Workers -> {"start", "planned", "based", "telling", "pulled", "waiting", "scanning", "reading",
                                "read", "done"}]
    BY <2>1
  <2> QED
    BY <2>4, <2>5, <2>6 DEF CacheShape
<1> QED
  BY <1>1, <1>2, <1>3 DEF CacheNext

\* A task that does not move keeps its rebuild.
LEMMA OtherScansStay ==
  ASSUME NEW u \in Workers, ScanOK(u), at'[u] = at[u], scan'[u] = scan[u], work' = work, built => built',
         Scanning(u) => owner' = u
  PROVE  ScanOK(u)'
  BY DEF ScanOK, Scanning

\* One rebuild runs at a time, and passes its groups one by one.
LEMMA ScansStay ==
  ASSUME CacheInv, [CacheNext]_cacheVars
  PROVE  ScansOK'
<1>0. /\ \A t \in Workers : ScanOK(t) /\ at[t] \in {"start", "planned", "based", "telling", "pulled", "waiting", "scanning",
                                                    "reading", "read", "done"}
      /\ Nobody \notin Workers /\ scan = [t \in Workers |-> scan[t]]
      /\ at = [t \in Workers |-> at[t]]
  BY CacheAssumption DEF CacheInv, CacheShape, ScansOK
<1>1. CASE UNCHANGED cacheVars
  BY <1>0, <1>1, OtherScansStay DEF cacheVars, ScansOK, ScanOK, Scanning
<1>2. CASE Crash
  <2>1. \A t \in Workers : at'[t] \in {"start", "done"} /\ scan'[t] = NoScan
    BY <1>2 DEF Crash
  <2> QED
    BY <2>1, NewScans DEF ScansOK, ScanOK, Scanning
<1>3. ASSUME NEW t \in Workers, \/ WriteFile(t) \/ DeleteFile(t) \/ MoveFile(t) \/ PlanImport(t)
                                \/ FindParent(t) \/ Land(t) \/ LosesRace(t)
                                \/ Tell(t) \/ TellFails(t) \/ PullMain(t) \/ NotifyPull(t) \/ EnsureBuilt(t)
                                \/ Begin(t) \/ ListGroup(t) \/ ReadGroup(t) \/ CommitScan(t) \/ RebuildFails(t)
      PROVE  ScansOK'
  <2>0. work' = work /\ \A u \in Workers \ {t} : at'[u] = at[u] /\ scan'[u] = scan[u]
    BY <1>3, StepsOfTasks
  <2>o. (WriteFile(t) \/ DeleteFile(t) \/ MoveFile(t) \/ PlanImport(t) \/ PullMain(t) \/ FindParent(t)
         \/ Land(t) \/ LosesRace(t) \/ Tell(t) \/ TellFails(t))
        => built' = built /\ owner' = owner /\ ~Scanning(t)
    BY <1>0 DEF WriteFile, DeleteFile, MoveFile, PlanImport, PullMain, FindParent, Land, LosesRace, Tell, TellFails,
       Scanning
  <2>1. built => built'
    BY <1>3, <2>o DEF NotifyPull, EnsureBuilt, Begin, ListGroup, ReadGroup, CommitScan, RebuildFails
  <2>2. ASSUME NEW u \in Workers \ {t}, Scanning(u) PROVE owner' = u
    <3>1. owner = u /\ (Scanning(t) => owner = t)
      BY <1>0, <2>2 DEF ScanOK
    <3> QED
      BY <1>0, <1>3, <2>o, <3>1 DEF NotifyPull, EnsureBuilt, Begin, ListGroup, ReadGroup, CommitScan, RebuildFails, Scanning
  <2>3. \A u \in Workers \ {t} : ScanOK(u)'
    BY <1>0, <2>0, <2>1, <2>2, OtherScansStay
  <2> SUFFICES ScanOK(t)'
    BY <2>3 DEF ScansOK
  <2>4. ScanOK(t) /\ IsScan(scan'[t])
    BY <1>0, <1>3, StepsOfTasks
  <2>5. CASE WriteFile(t) \/ DeleteFile(t) \/ MoveFile(t) \/ PlanImport(t) \/ FindParent(t)
          \/ Land(t) \/ LosesRace(t) \/ Tell(t)
             \/ TellFails(t) \/ PullMain(t)
    <3>1. at[t] \in {"start", "planned", "based", "telling"} /\ scan' = scan
          /\ at'[t] \in {"done", "planned", "based", "telling", "pulled"}
      BY <1>0, <2>5 DEF WriteFile, DeleteFile, MoveFile, PlanImport, FindParent, Land, LosesRace,
         LooksUp, Tell, TellFails, PullMain, Go
    <3> QED
      BY <2>4, <3>1 DEF ScanOK, Scanning
  <2>6. CASE CommitScan(t) \/ RebuildFails(t)
    <3>1. at'[t] = "done" /\ scan'[t] = NoScan
      BY <1>0, <2>6 DEF CommitScan, RebuildFails, Go
    <3> QED
      BY <3>1, NewScans DEF ScanOK, Scanning
  <2>7. CASE NotifyPull(t)
    <3>1. at[t] = "pulled" /\ (~built => at'[t] = "done" /\ scan' = scan)
      BY <1>0, <2>7 DEF NotifyPull, Go
    <3>2. built => at'[t] = "waiting" /\ scan'[t] = [NoScan EXCEPT !.todo = {work[t].group}] /\ built'
      BY <1>0, <2>7 DEF NotifyPull, Go
    <3>3. work[t].op = "pull"
      BY <3>1 DEF CacheInv, CacheShape
    <3>4. CASE built
      <4>1. /\ scan'[t].todo = {work[t].group} /\ scan'[t].now = {} /\ scan'[t].done = {}
            /\ scan'[t].staged = {} /\ scan'[t].forgiven = {}
        BY <3>2, <3>4, NewScans
      <4> QED
        BY <2>0, <3>2, <3>3, <3>4, <4>1 DEF ScanOK, Scanning
    <3>5. CASE ~built
      BY <2>4, <3>1, <3>5 DEF ScanOK, Scanning
    <3> QED
      BY <3>4, <3>5
  <2>8. CASE EnsureBuilt(t)
    <3>1. at[t] = "start" /\ work[t].op = "search" /\ (built => at'[t] = "done" /\ scan' = scan)
      BY <1>0, <2>8 DEF EnsureBuilt, Go
    <3>2. ~built => at'[t] = "waiting" /\ scan'[t] = [NoScan EXCEPT !.todo = Groups]
      BY <1>0, <2>8 DEF EnsureBuilt, Go
    <3>4. CASE ~built
      <4>1. /\ scan'[t].todo = Groups /\ scan'[t].now = {} /\ scan'[t].done = {}
            /\ scan'[t].staged = {} /\ scan'[t].forgiven = {}
        BY <3>2, <3>4, NewScans
      <4> QED
        BY <2>0, <3>1, <3>2, <3>4, <4>1 DEF ScanOK, Scanning
    <3>5. CASE built
      BY <2>4, <3>1, <3>5 DEF ScanOK, Scanning
    <3> QED
      BY <3>4, <3>5
  <2>9. CASE Begin(t)
    <3>1. at[t] = "waiting" /\ at'[t] = "scanning" /\ owner' = t /\ scan' = scan /\ built' = built
      BY <1>0, <2>9 DEF Begin, Go
    <3> QED
      BY <2>0, <2>4, <3>1 DEF ScanOK, Scanning
  <2>10. CASE ListGroup(t)
    <3>1. PICK g \in scan[t].todo : scan'[t] = Listing(scan[t], g)
      BY <1>0, <2>10 DEF ListGroup, Listing
    <3>2. /\ scan'[t].todo = scan[t].todo \ {g} /\ scan'[t].now = {g} /\ scan'[t].done = scan[t].done
          /\ scan'[t].staged = scan[t].staged
          /\ scan'[t].forgiven = scan[t].forgiven \union {u \in untold : u[1] = g}
      BY <3>1 DEF Listing
    <3>3. at[t] = "scanning" /\ at'[t] = "reading" /\ owner' = owner /\ built' = built
      BY <1>0, <2>10 DEF ListGroup, Go
    <3> QED
      BY <2>0, <2>4, <3>1, <3>2, <3>3 DEF ScanOK, Scanning
  <2>11. CASE ReadGroup(t)
    <3>1. PICK g \in scan[t].now : \E last \in SUBSET tree[g] :
            scan'[t] = Reading(scan[t], g, {Row(g, f.stem, f) : f \in last})
      BY <1>0, <2>11 DEF ReadGroup, Reading
    <3>6. PICK last \in SUBSET tree[g] : scan'[t] = Reading(scan[t], g, {Row(g, f.stem, f) : f \in last})
      BY <3>1
    <3>2. /\ scan'[t].todo = scan[t].todo /\ scan'[t].now = {} /\ scan'[t].done = scan[t].done \union {g}
          /\ scan'[t].staged = scan[t].staged \union {Row(g, f.stem, f) : f \in last}
          /\ scan'[t].forgiven = scan[t].forgiven
      BY <3>6 DEF Reading
    <3>3. at[t] = "reading" /\ at'[t] = (IF scan[t].todo = {} THEN "read" ELSE "scanning")
          /\ owner' = owner /\ built' = built
      BY <1>0, <2>11 DEF ReadGroup, Go
    <3>4. \A r \in {Row(g, f.stem, f) : f \in last} : r.group = g
      BY DEF Row
    <3>5. scan[t].now = {g}
      BY <2>4, <3>1 DEF ScanOK
    <3> QED
      BY <2>0, <2>4, <3>1, <3>2, <3>3, <3>4, <3>5 DEF ScanOK, Scanning
  <2> QED
    BY <1>3, <2>5, <2>6, <2>7, <2>8, <2>9, <2>10, <2>11
<1> QED
  BY <1>1, <1>2, <1>3 DEF CacheNext

\* A step that leaves files and rows alone, and drops nothing of what is unsure
\* but what a rebuild makes up for.
LEMMA SameRows ==
  ASSUME CacheInv, tree' = tree, rows' = rows, built' = built,
         \A g \in Groups : \A k : Unsure(g, k) \/ Forgiven(g, k) => Unsure(g, k)' \/ Forgiven(g, k)'
  PROVE  RowsOK'
<1>1. ASSUME built, NEW g \in Groups, NEW k, ~Unsure(g, k)', ~Forgiven(g, k)'
      PROVE  RowsAt(rows', g, k) = Truth(tree'[g], g, k)
  BY <1>1 DEF CacheInv, RowsOK
<1> QED
  BY <1>1 DEF RowsOK, RowsAt, Truth, Row

\* A step that neither changes files nor tells anybody.
LEMMA SameUnsure ==
  ASSUME tree' = tree, tell' = tell, work' = work, untold \subseteq untold'
  PROVE  \A g, k : Unsure(g, k) => Unsure(g, k)'
  BY DEF Unsure, Untold, Awaited, Drifts, Doubles

\* A rebuild that runs is the only one.
LEMMA AloneInTransaction ==
  ASSUME CacheInv
  PROVE  \A t \in Workers : owner = Nobody \/ (\E u \in Workers \ {t} : owner = u) =>
           scan[t].now = {} /\ scan[t].done = {} /\ scan[t].staged = {} /\ scan[t].forgiven = {}
  BY CacheAssumption DEF CacheInv, ScansOK, ScanOK

\* A row told is the row of the file, if main still has it.
LEMMA TellingKeepsRows ==
  ASSUME CacheInv, NEW t \in Workers, Tell(t)
  PROVE  RowsOK' /\ StagedOK'
<1>1. PICK g : g = work[t].group
  OBVIOUS
<1>2. PICK f \in tell[t] :
        /\ rows' = Upserted(Row(g, f.id, f))
        /\ tell' = [tell EXCEPT ![t] = tell[t] \ {f}]
        /\ untold' = IF f \in tree[g] THEN untold ELSE untold \union Ids(g, {f})
  BY <1>1 DEF Tell
<1>3. tree' = tree /\ built' = built /\ work' = work /\ scan' = scan /\ owner = Nobody
      /\ tell = [u \in Workers |-> tell[u]]
  BY DEF Tell, CacheInv, CacheShape
<1>4. \A u \in Workers : scan[u].now = {} /\ scan[u].done = {} /\ scan[u].staged = {} /\ scan[u].forgiven = {}
  BY <1>3, AloneInTransaction
<1>5. StagedOK'
  BY <1>3, <1>4 DEF StagedOK
<1>6. f \notin tree[g] => Untold(g, f.id)'
  <2>1. <<g, f.id>> \in Ids(g, {f}) /\ <<g, f.id>>[1] = g /\ <<g, f.id>>[2] = f.id
    BY DEF Ids
  <2> QED
    BY <1>2, <2>1 DEF Untold
<1>7. ASSUME NEW h, NEW k, Unsure(h, k), ~(h = g /\ k = f.id) PROVE Unsure(h, k)'
  <2>1. Untold(h, k) => Untold(h, k)'
    BY <1>2 DEF Untold
  <2>2. Awaited(h, k) => Awaited(h, k)'
    <3>1. tell'[t] = tell[t] \ {f} /\ \A u \in Workers \ {t} : tell'[u] = tell[u]
      BY <1>2, <1>3
    <3> QED
      BY <1>1, <1>3, <1>7, <3>1 DEF Awaited
  <2> QED
    BY <1>3, <1>7, <2>1, <2>2 DEF Unsure, Drifts, Doubles
<1>8. Row(g, f.id, f).group = g /\ Row(g, f.id, f).key = f.id
  BY DEF Row
<1>9. ASSUME built, NEW h \in Groups, NEW k, ~Unsure(h, k)', ~Forgiven(h, k)'
      PROVE  RowsAt(rows', h, k) = Truth(tree[h], h, k)
  <2>1. CASE h = g /\ k = f.id
    <3>1. f \in tree[g] /\ ~Doubles(tree[g], k)
      BY <1>3, <1>6, <1>9, <2>1 DEF Unsure, Doubles
    <3>2. {d \in tree[g] : d.id = k} = {f}
      BY <2>1, <3>1 DEF Doubles
    <3>3. RowsAt(rows', g, k) = {Row(g, k, f)}
      BY <1>2, <1>8, <2>1 DEF RowsAt, Upserted
    <3> QED
      BY <2>1, <3>2, <3>3 DEF Truth
  <2>2. CASE ~(h = g /\ k = f.id)
    <3>1. ~Unsure(h, k) /\ ~Forgiven(h, k)
      BY <1>3, <1>7, <1>9, <2>2 DEF Forgiven
    <3>2. RowsAt(rows', h, k) = RowsAt(rows, h, k)
      BY <1>2, <1>8, <2>2 DEF RowsAt, Upserted
    <3> QED
      BY <1>9, <3>1, <3>2 DEF CacheInv, RowsOK
  <2> QED
    BY <2>1, <2>2
<1>10. RowsOK'
  BY <1>3, <1>9 DEF RowsOK, RowsAt, Truth, Row
<1> QED
  BY <1>5, <1>10

\* A rebuild that lists a group has every file of it on its list.
LEMMA ListingKeepsRows ==
  ASSUME CacheInv, NEW t \in Workers, ListGroup(t)
  PROVE  RowsOK' /\ StagedOK'
<1>0. /\ tree' = tree /\ rows' = rows /\ built' = built /\ work' = work /\ tell' = tell
      /\ scan = [u \in Workers |-> scan[u]] /\ at[t] = "scanning" /\ ScanOK(t)
  BY DEF ListGroup, CacheInv, CacheShape, ScansOK
<1>1. PICK g \in scan[t].todo : scan' = [scan EXCEPT ![t] = Listing(scan[t], g)] /\ untold' = {u \in untold : u[1] # g}
  BY DEF ListGroup, Listing
<1>2. /\ scan'[t].now = {g} /\ scan'[t].done = scan[t].done /\ scan'[t].staged = scan[t].staged
      /\ scan'[t].listed = {Path(f) : f \in tree[g]}
      /\ scan'[t].forgiven = scan[t].forgiven \union {u \in untold : u[1] = g}
      /\ \A u \in Workers \ {t} : scan'[u] = scan[u]
  BY <1>0, <1>1 DEF Listing
<1>3. ASSUME NEW h, NEW k, Unsure(h, k) PROVE Unsure(h, k)' \/ (h = g /\ Forgiven(h, k)')
  <2>1. CASE Untold(h, k)
    <3>1. PICK u \in untold : u[1] = h /\ u[2] = k
      BY <2>1 DEF Untold
    <3> QED
      BY <1>1, <1>2, <3>1 DEF Unsure, Untold, Forgiven
  <2>2. CASE ~Untold(h, k)
    BY <1>0, <1>3, <2>2 DEF Unsure, Awaited, Drifts, Doubles
  <2> QED
    BY <2>1, <2>2
<1>4. \A h, k : Forgiven(h, k) => Forgiven(h, k)'
  BY <1>2 DEF Forgiven
<1>5. RowsOK'
  BY <1>0, <1>3, <1>4, SameRows
<1>6. \A u \in Workers \ {t} : scan'[u].now = {} /\ scan'[u].done = {}
  BY <1>0, <1>2, AloneInTransaction DEF ScanOK, Scanning
<1>7. ASSUME NEW h \in scan[t].done, NEW k, ~Unsure(h, k)'
      PROVE  RowsAt(scan[t].staged, h, k) = Truth(tree[h], h, k)
  <2>1. h # g
    BY <1>0 DEF ScanOK
  <2> QED
    BY <1>3, <1>7, <2>1 DEF CacheInv, StagedOK
<1>8. \A f \in tree[g] : Path(f) \in scan'[t].listed
  BY <1>2
<1>9. ASSUME NEW u \in Workers
      PROVE  /\ \A h \in scan'[u].done : \A k : Unsure(h, k)' \/ RowsAt(scan'[u].staged, h, k) = Truth(tree'[h], h, k)
             /\ \A h \in scan'[u].now : \A f \in tree'[h] : Unsure(h, f.id)' \/ Path(f) \in scan'[u].listed
  BY <1>0, <1>2, <1>6, <1>7, <1>8
<1> QED
  BY <1>5, <1>9 DEF StagedOK, RowsAt, Truth, Row, Path

\* What a rebuild reads of a group is what the group has, but for what drifts,
\* is there twice, or has changed since it was listed.
LEMMA ReadingKeepsRows ==
  ASSUME CacheInv, NEW t \in Workers, ReadGroup(t)
  PROVE  RowsOK' /\ StagedOK'
<1>0. /\ tree' = tree /\ rows' = rows /\ built' = built /\ work' = work /\ tell' = tell /\ untold' = untold
      /\ scan = [u \in Workers |-> scan[u]] /\ at[t] = "reading" /\ ScanOK(t)
  BY DEF ReadGroup, CacheInv, CacheShape, ScansOK
<1>1. PICK g \in scan[t].now :
        \E last \in SUBSET {f \in tree[g] : Path(f) \in scan[t].listed} :
          /\ \A f \in {f \in tree[g] : Path(f) \in scan[t].listed} :
               \E l \in last : {m \in last : m.stem = f.stem} = {l}
          /\ scan' = [scan EXCEPT ![t] = Reading(scan[t], g, {Row(g, f.stem, f) : f \in last})]
  BY DEF ReadGroup, Reading
<1> DEFINE seen == {f \in tree[g] : Path(f) \in scan[t].listed}
<1>2. PICK last \in SUBSET seen :
        /\ \A f \in seen : \E l \in last : {m \in last : m.stem = f.stem} = {l}
        /\ scan' = [scan EXCEPT ![t] = Reading(scan[t], g, {Row(g, f.stem, f) : f \in last})]
  BY <1>1
<1> DEFINE new == {Row(g, f.stem, f) : f \in last}
<1>3. /\ scan'[t].now = {} /\ scan'[t].done = scan[t].done \union {g} /\ scan'[t].staged = scan[t].staged \union new
      /\ scan'[t].forgiven = scan[t].forgiven
      /\ \A u \in Workers \ {t} : scan'[u] = scan[u]
  BY <1>0, <1>2 DEF Reading
<1>4. \A h, k : (Unsure(h, k)' <=> Unsure(h, k)) /\ (Forgiven(h, k)' <=> Forgiven(h, k))
  BY <1>0, <1>3 DEF Unsure, Untold, Awaited, Drifts, Doubles, Forgiven
<1>5. RowsOK'
  BY <1>0, <1>4, SameRows
<1>6. \A u \in Workers \ {t} : scan'[u].now = {} /\ scan'[u].done = {}
  BY <1>0, <1>3, AloneInTransaction DEF ScanOK, Scanning
<1>7. g \notin scan[t].done /\ \A r \in scan[t].staged : r.group \in scan[t].done
  BY <1>0, <1>1 DEF ScanOK
<1>8. \A r \in new : r.group = g
  BY DEF Row
<1>9. ASSUME NEW h \in scan[t].done, NEW k, ~Unsure(h, k)
      PROVE  RowsAt(scan'[t].staged, h, k) = Truth(tree[h], h, k)
  <2>1. RowsAt(scan'[t].staged, h, k) = RowsAt(scan[t].staged, h, k)
    BY <1>3, <1>7, <1>8 DEF RowsAt
  <2> QED
    BY <1>9, <2>1 DEF CacheInv, StagedOK
<1>10. ASSUME NEW k, ~Unsure(g, k)
       PROVE  RowsAt(scan'[t].staged, g, k) = Truth(tree[g], g, k)
  <2>1. ~Drifts(tree[g], k) /\ ~Doubles(tree[g], k)
    BY <1>10 DEF Unsure
  <2>2. RowsAt(scan'[t].staged, g, k) = {r \in new : r.key = k}
    BY <1>3, <1>7, <1>8 DEF RowsAt
  <2>3. {r \in new : r.key = k} = {Row(g, k, f) : f \in {f \in last : f.stem = k}}
    BY DEF Row
  <2>4. {f \in last : f.stem = k} \subseteq {d \in tree[g] : d.id = k}
    BY <2>1 DEF Drifts
  <2>5. ASSUME NEW d \in tree[g], d.id = k PROVE d \in last /\ d.stem = k
    <3>1. d.stem = k
      BY <2>1, <2>5 DEF Drifts
    <3>2. Path(d) \in scan[t].listed
      BY <1>10, <2>5 DEF CacheInv, StagedOK
    <3>3. PICK l \in last : {m \in last : m.stem = k} = {l}
      BY <1>2, <3>1, <3>2
    <3>4. l \in tree[g] /\ l.stem = k
      BY <3>3
    <3>5. l = d
      BY <2>1, <2>5, <3>4 DEF Drifts, Doubles
    <3> QED
      BY <3>1, <3>5
  <2>6. {f \in last : f.stem = k} = {d \in tree[g] : d.id = k}
    BY <2>4, <2>5
  <2> QED
    BY <2>2, <2>3, <2>6 DEF Truth
<1>11. ASSUME NEW u \in Workers
       PROVE  /\ \A h \in scan'[u].done : \A k : Unsure(h, k)' \/ RowsAt(scan'[u].staged, h, k) = Truth(tree'[h], h, k)
              /\ \A h \in scan'[u].now : \A f \in tree'[h] : Unsure(h, f.id)' \/ Path(f) \in scan'[u].listed
  <2>1. CASE u = t
    BY <1>0, <1>3, <1>4, <1>9, <1>10, <2>1
  <2>2. CASE u # t
    BY <1>6, <2>2
  <2> QED
    BY <2>1, <2>2
<1> QED
  BY <1>5, <1>11 DEF StagedOK, RowsAt, Truth, Row, Path

\* A rebuild that commits puts what it staged in the place of what was there.
LEMMA CommittingKeepsRows ==
  ASSUME CacheInv, NEW t \in Workers, CommitScan(t)
  PROVE  RowsOK' /\ StagedOK'
<1>0. /\ tree' = tree /\ work' = work /\ tell' = tell /\ untold' = untold /\ at[t] = "read" /\ ScanOK(t)
      /\ rows' = {r \in rows : r.group \notin scan[t].done} \union scan[t].staged
      /\ built' = (built \/ work[t].op = "search")
      /\ scan = [u \in Workers |-> scan[u]] /\ scan' = [scan EXCEPT ![t] = NoScan]
  BY DEF CommitScan, CacheInv, CacheShape, ScansOK
<1>1. /\ \A u \in Workers : scan'[u].now = {} /\ scan'[u].done = {}
      /\ \A u \in Workers \ {t} : scan[u].forgiven = {}
  <2>1. scan'[t].now = {} /\ scan'[t].done = {} /\ \A u \in Workers \ {t} : scan'[u] = scan[u]
    BY <1>0, NewScans
  <2> QED
    BY <1>0, <2>1, AloneInTransaction DEF ScanOK, Scanning
<1>2. StagedOK'
  BY <1>1 DEF StagedOK
<1>3. \A g, k : Unsure(g, k)' <=> Unsure(g, k)
  BY <1>0 DEF Unsure, Untold, Awaited, Drifts, Doubles
<1>4. /\ \A r \in scan[t].staged : r.group \in scan[t].done
      /\ \A u \in scan[t].forgiven : u[1] \in scan[t].done
      /\ work[t].op \in {"search", "pull"} /\ (work[t].op = "pull" => built)
      /\ work[t].op = "search" => scan[t].done = Groups
  BY <1>0 DEF ScanOK, Scanning
<1>5. ASSUME built', NEW g \in Groups, NEW k, ~Unsure(g, k)
      PROVE  RowsAt(rows', g, k) = Truth(tree[g], g, k)
  <2>1. CASE g \in scan[t].done
    <3>1. RowsAt(rows', g, k) = RowsAt(scan[t].staged, g, k)
      BY <1>0, <1>4, <2>1 DEF RowsAt
    <3> QED
      BY <1>5, <2>1, <3>1 DEF CacheInv, StagedOK
  <2>2. CASE g \notin scan[t].done
    <3>1. RowsAt(rows', g, k) = RowsAt(rows, g, k)
      BY <1>0, <1>4, <2>2 DEF RowsAt
    <3>2. built
      BY <1>4, <2>2
    <3>3. ~Forgiven(g, k)
      BY <1>1, <1>4, <2>2 DEF Forgiven
    <3> QED
      BY <1>5, <3>1, <3>2, <3>3 DEF CacheInv, RowsOK
  <2> QED
    BY <2>1, <2>2
<1>6. RowsOK'
  BY <1>0, <1>3, <1>5 DEF RowsOK, RowsAt, Truth, Row
<1> QED
  BY <1>2, <1>6

\* A rebuild that is over without a commit, or not begun, has changed nothing.
LEMMA EndingKeepsRows ==
  ASSUME CacheInv, NEW t \in Workers, RebuildFails(t) \/ NotifyPull(t) \/ EnsureBuilt(t) \/ Begin(t)
  PROVE  RowsOK' /\ StagedOK'
<1>0. /\ tree' = tree /\ rows' = rows /\ built' = built /\ work' = work /\ tell' = tell
      /\ untold \union scan[t].forgiven \subseteq untold' \/ (untold \subseteq untold' /\ scan[t].forgiven = {})
         \/ (untold \subseteq untold' /\ scan' = scan)
      /\ \A u \in Workers \ {t} : scan'[u] = scan[u]
      /\ scan' = scan \/ (scan'[t].now = {} /\ scan'[t].done = {} /\ scan'[t].forgiven = {})
  <2>1. scan = [u \in Workers |-> scan[u]] /\ ScanOK(t)
    BY DEF CacheInv, CacheShape, ScansOK
  <2>2. CASE RebuildFails(t)
    BY <2>1, <2>2, NewScans DEF RebuildFails
  <2>3. CASE NotifyPull(t) \/ EnsureBuilt(t)
    <3>1. scan[t].forgiven = {}
      BY <2>1, <2>3 DEF NotifyPull, EnsureBuilt, ScanOK, Scanning
    <3>2. scan' = scan \/ \E todo : scan' = [scan EXCEPT ![t] = [NoScan EXCEPT !.todo = todo]]
      BY <2>3 DEF NotifyPull, EnsureBuilt
    <3>3. /\ \A u \in Workers \ {t} : scan'[u] = scan[u]
          /\ scan' = scan \/ (scan'[t].now = {} /\ scan'[t].done = {} /\ scan'[t].forgiven = {})
      BY <2>1, <3>2, NewScans
    <3> QED
      BY <2>3, <3>1, <3>3 DEF NotifyPull, EnsureBuilt
  <2>4. CASE Begin(t)
    BY <2>4 DEF Begin
  <2> QED
    BY <2>2, <2>3, <2>4
<1>1. \A g, k : Unsure(g, k) => Unsure(g, k)'
  BY <1>0, SameUnsure
<1>2. ASSUME NEW g, NEW k, Forgiven(g, k) PROVE Unsure(g, k)' \/ Forgiven(g, k)'
  <2>1. PICK u \in Workers : \E m \in scan[u].forgiven : m[1] = g /\ m[2] = k
    BY <1>2 DEF Forgiven
  <2> QED
    BY <1>0, <2>1 DEF Unsure, Untold, Forgiven
<1>3. RowsOK'
  BY <1>0, <1>1, <1>2, SameRows
<1>4. ASSUME NEW u \in Workers
      PROVE  /\ \A h \in scan'[u].done : \A k : Unsure(h, k)' \/ RowsAt(scan'[u].staged, h, k) = Truth(tree'[h], h, k)
             /\ \A h \in scan'[u].now : \A f \in tree'[h] : Unsure(h, f.id)' \/ Path(f) \in scan'[u].listed
  <2>1. scan'[u] = scan[u] \/ (scan'[u].now = {} /\ scan'[u].done = {})
    BY <1>0
  <2> QED
    BY <1>0, <1>1, <2>1 DEF CacheInv, StagedOK
<1> QED
  BY <1>3, <1>4 DEF StagedOK, RowsAt, Truth, Row, Path

\* What a process that dies had yet to tell, and to make up for, is unsure.
LEMMA CrashingKeepsRows ==
  ASSUME CacheInv, Crash
  PROVE  RowsOK' /\ StagedOK'
<1>0. /\ tree' = tree /\ rows' = rows /\ built' = built /\ work' = work
      /\ untold' = untold \union UNION {scan[t].forgiven \union Ids(work[t].group, tell[t]) : t \in Workers}
      /\ \A u \in Workers : scan'[u] = NoScan
  BY DEF Crash
<1>1. ASSUME NEW g, NEW k, Unsure(g, k) PROVE Unsure(g, k)'
  <2>1. CASE Awaited(g, k)
    <3>1. PICK t \in Workers : work[t].group = g /\ \E f \in tell[t] : f.id = k
      BY <2>1 DEF Awaited
    <3>2. <<g, k>> \in Ids(work[t].group, tell[t])
      BY <3>1 DEF Ids
    <3>3. <<g, k>> \in untold' /\ <<g, k>>[1] = g /\ <<g, k>>[2] = k
      BY <1>0, <3>2
    <3> QED
      BY <3>3 DEF Unsure, Untold
  <2>2. CASE ~Awaited(g, k)
    BY <1>0, <1>1, <2>2 DEF Unsure, Untold, Drifts, Doubles
  <2> QED
    BY <2>1, <2>2
<1>2. ASSUME NEW g, NEW k, Forgiven(g, k) PROVE Unsure(g, k)'
  <2>1. PICK t \in Workers : \E m \in scan[t].forgiven : m[1] = g /\ m[2] = k
    BY <1>2 DEF Forgiven
  <2>2. PICK m \in scan[t].forgiven : m[1] = g /\ m[2] = k
    BY <2>1
  <2>3. m \in untold'
    BY <1>0, <2>2
  <2> QED
    BY <2>2, <2>3 DEF Unsure, Untold
<1>3. RowsOK'
  BY <1>0, <1>1, <1>2, SameRows
<1>4. StagedOK'
  BY <1>0, NewScans DEF StagedOK
<1> QED
  BY <1>3, <1>4

\* What the initial states of the cache are: an index that was ever built has
\* the rows of a rebuild.
LEMMA CacheStarts ==
  ASSUME CacheInit
  PROVE  CacheInv
<1>1. PICK s \in CacheScenarios : tree = s.tree /\ work = s.work /\ rows = s.rows /\ built = s.built
  BY DEF CacheInit
<1>2. /\ tree = [g \in Groups |-> tree[g]] /\ built \in BOOLEAN
      /\ built => rows = Rebuilt(tree)
      /\ \A t \in Workers :
           /\ work[t].op \in {"none", "search", "write", "delete", "move", "import", "pull"}
           /\ work[t].op # "none" => work[t].group \in Groups
  BY <1>1, CacheAssumption DEF IsWork
<1>3. /\ \A t \in Workers : at[t] = (IF work[t].op = "none" THEN "done" ELSE "start") /\ tell[t] = {} /\ scan[t] = NoScan
      /\ at \in [Workers -> {"start", "done"}] /\ tell = [t \in Workers |-> tell[t]]
      /\ scan = [t \in Workers |-> scan[t]] /\ untold = {}
  BY DEF CacheInit
<1>4. CacheShape
  BY <1>2, <1>3, NewScans DEF CacheShape
<1>5. ScansOK
  BY <1>3, NewScans DEF ScansOK, ScanOK, Scanning
<1>6. StagedOK
  BY <1>3, NewScans DEF StagedOK
<1>7. ASSUME built, NEW g \in Groups, NEW k, ~Unsure(g, k) PROVE RowsAt(rows, g, k) = Truth(tree[g], g, k)
  <2>1. ~Drifts(tree[g], k)
    BY <1>7 DEF Unsure
  <2>2. \A r : r \in rows <=> \E h \in Groups : \E f \in tree[h] : r = Row(h, f.stem, f)
    BY <1>2, <1>7 DEF Rebuilt
  <2>3. RowsAt(rows, g, k) = {Row(g, k, f) : f \in {d \in tree[g] : d.stem = k}}
    BY <2>2 DEF RowsAt, Row
  <2>4. {d \in tree[g] : d.stem = k} = {d \in tree[g] : d.id = k}
    BY <2>1 DEF Drifts
  <2> QED
    BY <2>3, <2>4 DEF Truth
<1>8. RowsOK
  BY <1>7 DEF RowsOK
<1> QED
  BY <1>4, <1>5, <1>6, <1>8 DEF CacheInv

\* The index is true but for what is unsure, in every state.
THEOREM CacheInvariance == CacheSpec => []CacheInv
<1>1. CacheInit => CacheInv
  BY CacheStarts
<1>2. CacheInv /\ [CacheNext]_cacheVars => CacheInv'
  <2> SUFFICES ASSUME CacheInv, [CacheNext]_cacheVars PROVE RowsOK' /\ StagedOK'
    BY CacheShapeStays, ScansStay DEF CacheInv
  <2>1. CASE UNCHANGED cacheVars
    <3>1. Steady
      BY <2>1, UnsureStays DEF cacheVars, Unsure, Untold, Awaited, Drifts, Doubles
    <3> QED
      BY <2>1, <3>1, SteadyKeepsRows DEF cacheVars
  <2>2. CASE Crash
    BY <2>2, CrashingKeepsRows
  <2>3. ASSUME NEW t \in Workers,
               \/ WriteFile(t) \/ DeleteFile(t) \/ MoveFile(t) \/ PlanImport(t) \/ FindParent(t) \/ Land(t)
         \/ LosesRace(t) \/ TellFails(t)
               \/ PullMain(t)
        PROVE  RowsOK' /\ StagedOK'
    <3>1. Steady
      BY <2>3, OperationsAreSteady
    <3>2. UNCHANGED <<rows, built, scan>>
      BY <2>3 DEF WriteFile, DeleteFile, MoveFile, PlanImport, FindParent, Land, LosesRace, TellFails, PullMain
    <3> QED
      BY <3>1, <3>2, SteadyKeepsRows
  <2>4. ASSUME NEW t \in Workers, \/ Tell(t) \/ NotifyPull(t) \/ EnsureBuilt(t) \/ Begin(t) \/ ListGroup(t)
                                  \/ ReadGroup(t) \/ CommitScan(t) \/ RebuildFails(t)
        PROVE  RowsOK' /\ StagedOK'
    BY <2>4, TellingKeepsRows, ListingKeepsRows, ReadingKeepsRows, CommittingKeepsRows, EndingKeepsRows
  <2> QED
    BY <2>1, <2>2, <2>3, <2>4 DEF CacheNext
<1> QED
  BY <1>1, <1>2, PTL DEF CacheSpec

\* Between operations, an index that was ever built agrees with main, but for
\* the keys that are excused (search over crates/mmcp-store/src/cache): those of
\* a file whose commit was told and then dropped are among them.
THEOREM IndexStaysTrue == CacheSpec => []IndexIsTrue
<1>1. CacheInv => IndexIsTrue
  <2> SUFFICES ASSUME CacheInv, Quiet, built, NEW g \in Groups
               PROVE  {r \in rows : r.group = g /\ r.key \notin Excused(g)}
                        = {Row(g, f.id, f) : f \in {x \in tree[g] : x.id \notin Excused(g)}}
    BY DEF IndexIsTrue
  <2>1. \A t \in Workers : tell[t] = {} /\ scan[t].forgiven = {}
    <3>1. \A t \in Workers : tell[t] = {}
      BY DEF Quiet, CacheInv, CacheShape
    <3>2. \A t \in Workers : scan[t].forgiven = {}
      BY DEF Quiet, CacheInv, ScansOK, ScanOK, Scanning
    <3> QED
      BY <3>1, <3>2
  <2>2. ASSUME NEW k PROVE Unsure(g, k) => k \in Excused(g)
    <3>1. Untold(g, k) => k \in {u[2] : u \in {x \in untold : x[1] = g}}
      BY DEF Untold
    <3>2. Drifts(tree[g], k) => k \in Drifted(g)
      BY DEF Drifts, Drifted
    <3>3. Doubles(tree[g], k) => k \in Doubled(g)
      BY DEF Doubles, Doubled
    <3>4. ~Awaited(g, k)
      BY <2>1 DEF Awaited
    <3> QED
      BY <3>1, <3>2, <3>3, <3>4 DEF Unsure, Excused
  <2>3. \A k : ~Forgiven(g, k)
    BY <2>1 DEF Forgiven
  <2>4. \A k : k \notin Excused(g) => RowsAt(rows, g, k) = Truth(tree[g], g, k)
    BY <2>2, <2>3 DEF CacheInv, RowsOK
  <2>5. ASSUME NEW r \in rows, r.group = g, r.key \notin Excused(g)
        PROVE  \E f \in tree[g] : f.id \notin Excused(g) /\ r = Row(g, f.id, f)
    <3>1. PICK k : k = r.key
      OBVIOUS
    <3>2. r \in Truth(tree[g], g, k)
      BY <2>4, <2>5, <3>1 DEF RowsAt
    <3>3. PICK f \in tree[g] : f.id = k /\ r = Row(g, k, f)
      BY <3>2 DEF Truth
    <3> QED
      BY <2>5, <3>1, <3>3
  <2>6. ASSUME NEW f \in tree[g], f.id \notin Excused(g)
        PROVE  Row(g, f.id, f) \in rows /\ Row(g, f.id, f).group = g /\ Row(g, f.id, f).key = f.id
    <3>1. PICK k : k = f.id
      OBVIOUS
    <3>2. Row(g, k, f) \in Truth(tree[g], g, k)
      BY <3>1 DEF Truth
    <3>3. Row(g, k, f) \in rows
      BY <2>4, <2>6, <3>1, <3>2 DEF RowsAt
    <3> QED
      BY <3>1, <3>3 DEF Row
  <2> QED
    BY <2>5, <2>6
<1> QED
  BY <1>1, CacheInvariance, PTL
=============================================================================
