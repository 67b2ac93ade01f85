--------------------------- MODULE SyncEngineProofs ---------------------------
(***************************************************************************)
(* What the sync engine guarantees of the histories of the remotes and of  *)
(* the local main, and of what a call of it reports, for every set of      *)
(* remotes, groups, calls and commits.                                     *)
(*                                                                         *)
(* The argument: a transfer that is about to fetch or push finds in origin *)
(* a remote of the engine, though maybe not its own.  For a group that one *)
(* remote has this can only be that remote or one that refuses; and what   *)
(* was read from a remote stays a prefix of it, since heads only grow.     *)
(***************************************************************************)
EXTENDS SyncEngine, SequenceTheorems, FiniteSetTheorems, TLAPS

\* The scenario, which no step changes.
ConfOK ==
  /\ conf.hosts \in [Remotes -> SUBSET Groups]
  /\ conf.order \in Seq(Remotes) /\ Bindings \subseteq Remotes
  /\ conf.default \in Bindings
  /\ \A r \in Direct : Bound(r) \in Groups
  /\ \A t \in Tasks : call[t].filter.kind = "group" => call[t].filter.group \in Groups

\* The histories of the branches, and the groups that can be named.
StoreOK ==
  /\ main \in [Groups -> Histories]
  /\ head \in [Remotes -> [Groups -> Histories]]
  /\ tracking \in [Remotes -> [Groups -> Histories]]
  /\ DOMAIN origin = Groups
IndexOK ==
  /\ disk \subseteq Groups /\ index \subseteq Groups
  /\ found \in [Refreshers -> SUBSET Groups]

\* The calls: what they were offered, what they transfer, where they are.
CallsOK ==
  /\ DOMAIN offers = Tasks /\ DOMAIN job = Tasks /\ DOMAIN report = Tasks /\ DOMAIN phase = Tasks
  /\ \A t \in Tasks : \A o \in offers[t] : o.remote \in Bindings /\ o.group \in Groups
  /\ \A t \in Tasks : DOMAIN job[t] \subseteq Bindings \X Groups

\* A transfer that has begun finds a remote of the engine in origin.
OriginsAreBound ==
  \A t \in Tasks : \A p \in DOMAIN job[t] :
    job[t][p].at = "pointed" => origin[p[2]] \in Bindings

\* A fast-forward goes forward from where it compared.
MovesGoForward ==
  \A t \in Tasks : \A p \in DOMAIN job[t] :
    job[t][p].at = "moving" =>
      job[t][p].to \in Histories /\ IsPrefix(job[t][p].base, job[t][p].to)

\* What was fetched from, or pushed to, the only remote that has the group is
\* part of that remote's history.
TransfersAreExact ==
  \A t \in Tasks : \A o \in report[t] : o.what \in {"fetched", "pushed"} =>
    /\ o.remote \in Bindings /\ o.group \in Groups /\ o.tip \in Histories
    /\ Unshared(o.remote, o.group) => IsPrefix(o.tip, head[o.remote][o.group])
TrackingIsExact ==
  \A r \in Bindings, g \in Groups : Unshared(r, g) => IsPrefix(tracking[r][g], head[r][g])

\* A call pushes when it has fetched all it will.
PushesComeLast ==
  \A t \in Tasks : \A o \in report[t] :
    o.what = "pushed" => phase[t] \in {"pick", "push", "done"}

SyncInv ==
  /\ ConfOK /\ StoreOK /\ IndexOK /\ CallsOK /\ OriginsAreBound /\ MovesGoForward
  /\ TransfersAreExact /\ TrackingIsExact /\ PushesComeLast /\ UnsharedPushHasWhatWasFetched

-----------------------------------------------------------------------------
(* Prefixes *)

\* A prefix has the same commits at the same places.
LEMMA PrefixByIndex ==
  ASSUME NEW S, NEW s \in Seq(S), NEW u \in Seq(S)
  PROVE  IsPrefix(s, u) <=> Len(s) <= Len(u) /\ \A i \in 1..Len(s) : s[i] = u[i]
<1>1. Len(s) \in Nat /\ Len(u) \in Nat
  BY LenProperties
<1>2. SubSeq(s, 1, Len(s)) \in Seq(S) /\ Len(SubSeq(s, 1, Len(s))) = Len(s)
      /\ \A i \in 1..Len(s) : SubSeq(s, 1, Len(s))[i] = s[i]
  BY <1>1, SubSeqProperties, ElementOfSeq
<1>3. ASSUME Len(s) <= Len(u)
      PROVE  /\ SubSeq(u, 1, Len(s)) \in Seq(S) /\ Len(SubSeq(u, 1, Len(s))) = Len(s)
             /\ \A i \in 1..Len(s) : SubSeq(u, 1, Len(s))[i] = u[i]
  <2>1. \A i \in 1..Len(s) : u[i] \in S
    BY <1>1, <1>3, ElementOfSeq
  <2> QED
    BY <1>1, <2>1, SubSeqProperties
<1>4. ASSUME Len(s) <= Len(u), \A i \in 1..Len(s) : s[i] = u[i]
      PROVE  SubSeq(s, 1, Len(s)) = SubSeq(u, 1, Len(s))
  BY <1>2, <1>3, <1>4, SeqEqual
<1> QED
  BY <1>2, <1>3, <1>4 DEF IsPrefix

\* Being a prefix is reflexive and transitive.
LEMMA PrefixReflexive ==
  ASSUME NEW s \in Histories PROVE IsPrefix(s, s)
BY LenProperties DEF IsPrefix, Histories

\* A prefix of a prefix is one.
LEMMA PrefixTransitive ==
  ASSUME NEW r \in Histories, NEW s \in Histories, NEW u \in Histories,
         IsPrefix(r, s), IsPrefix(s, u)
  PROVE  IsPrefix(r, u)
<1>1. Len(r) \in Nat /\ Len(s) \in Nat /\ Len(u) \in Nat
  BY LenProperties DEF Histories
<1>2. Len(r) <= Len(s) /\ \A i \in 1..Len(r) : r[i] = s[i]
  BY PrefixByIndex DEF Histories
<1>3. Len(s) <= Len(u) /\ \A i \in 1..Len(s) : s[i] = u[i]
  BY PrefixByIndex DEF Histories
<1>4. Len(r) <= Len(u) /\ \A i \in 1..Len(r) : r[i] = u[i]
  BY <1>1, <1>2, <1>3
<1> QED
  BY <1>4, PrefixByIndex DEF Histories

\* A commit extends the history it is made on.
LEMMA AppendExtends ==
  ASSUME NEW s \in Histories, NEW e \in Edits
  PROVE  Append(s, e) \in Histories /\ IsPrefix(s, Append(s, e))
<1>1. /\ Append(s, e) \in Histories
      /\ Len(Append(s, e)) = Len(s) + 1
      /\ \A i \in 1..Len(s) : Append(s, e)[i] = s[i]
  BY AppendProperties DEF Histories
<1>2. Len(s) \in Nat
  BY LenProperties DEF Histories
<1>3. Len(s) <= Len(Append(s, e))
  BY <1>1, <1>2
<1> QED
  BY <1>1, <1>3, PrefixByIndex DEF Histories

-----------------------------------------------------------------------------
(* Who changes what *)

\* A step is one of a call, of the world, or of the index.
LEMMA StepCases ==
  ASSUME Next
  PROVE  \/ \E t \in Tasks : CallStep(t) /\ UNCHANGED indexVars
         \/ WorldStep /\ UNCHANGED indexVars
         \/ IndexStep /\ UNCHANGED syncVars
BY DEF Next

\* The step of a call belongs to a phase of it, or to one of its transfers.
LEMMA CallCases ==
  ASSUME NEW t \in Tasks, CallStep(t)
  PROVE  \/ Poll(t) \/ Gather(t) \/ Fetched(t) \/ Pulled(t) \/ Pick(t) \/ Picked(t)
         \/ Pushed(t) \/ Timeout(t)
         \/ \E p \in DOMAIN job[t] :
              \/ PointOrigin(t, p) \/ Fetch(t, p) \/ FetchFails(t, p)
              \/ Advance(t, p) \/ Move(t, p) \/ AdvanceFails(t, p)
              \/ StartPush(t, p) \/ Push(t, p) \/ PushFails(t, p)
BY DEF CallStep

\* Nobody changes the scenario.
LEMMA ConfIsKept ==
  ASSUME [Next]_vars
  PROVE  /\ conf' = conf /\ call' = call /\ Bindings' = Bindings
         /\ \A r, g : Hosts(r, g)' = Hosts(r, g) /\ Unshared(r, g)' = Unshared(r, g)
<1>1. conf' = conf /\ call' = call
  <2>1. CASE UNCHANGED vars
    BY <2>1 DEF vars, syncVars
  <2>2. ASSUME NEW t \in Tasks, CallStep(t)
        PROVE  conf' = conf /\ call' = call
    BY <2>2, CallCases DEF Poll, Gather, Fetched, Pulled, Pick, Picked, Pushed, Timeout, PointOrigin,
       Fetch, FetchFails, Advance, Move, AdvanceFails, StartPush, Push, PushFails
  <2>3. CASE WorldStep
    BY <2>3 DEF WorldStep, Edit, PeerPush
  <2>4. CASE IndexStep /\ UNCHANGED syncVars
    BY <2>4 DEF syncVars
  <2> QED
    BY <2>1, <2>2, <2>3, <2>4, StepCases
<1>2. Bindings' = Bindings
  BY <1>1 DEF Bindings
<1>3. \A r, g : Hosts(r, g)' = Hosts(r, g)
  BY <1>1 DEF Hosts
<1>4. \A r, g : Unshared(r, g)' = Unshared(r, g)
  BY <1>2, <1>3 DEF Unshared
<1> QED
  BY <1>1, <1>2, <1>3, <1>4

\* A remote changes by a push of this machine or of another.
LEMMA WhoMovesHeads ==
  ASSUME [Next]_vars
  PROVE  \/ head' = head
         \/ \E t \in Tasks : \E p \in DOMAIN job[t] : Push(t, p)
         \/ \E e \in Edits : PeerPush(e)
<1>1. CASE UNCHANGED vars
  BY <1>1 DEF vars, syncVars
<1>2. ASSUME NEW t \in Tasks, CallStep(t)
      PROVE  head' = head \/ \E p \in DOMAIN job[t] : Push(t, p)
  BY <1>2, CallCases DEF Poll, Gather, Fetched, Pulled, Pick, Picked, Pushed, Timeout, PointOrigin,
     Fetch, FetchFails, Advance, Move, AdvanceFails, StartPush, PushFails
<1>3. CASE WorldStep
  BY <1>3 DEF WorldStep, Edit
<1>4. CASE IndexStep /\ UNCHANGED syncVars
  BY <1>4 DEF syncVars
<1> QED
  BY <1>1, <1>2, <1>3, <1>4, StepCases

\* The local main changes by a fast-forward or a commit.
LEMMA WhoMovesMain ==
  ASSUME [Next]_vars
  PROVE  \/ main' = main
         \/ \E t \in Tasks : \E p \in DOMAIN job[t] : Move(t, p)
         \/ \E e \in Edits : Edit(e)
<1>1. CASE UNCHANGED vars
  BY <1>1 DEF vars, syncVars
<1>2. ASSUME NEW t \in Tasks, CallStep(t)
      PROVE  main' = main \/ \E p \in DOMAIN job[t] : Move(t, p)
  BY <1>2, CallCases DEF Poll, Gather, Fetched, Pulled, Pick, Picked, Pushed, Timeout, PointOrigin,
     Fetch, FetchFails, Advance, AdvanceFails, StartPush, Push, PushFails
<1>3. CASE WorldStep
  BY <1>3 DEF WorldStep, PeerPush
<1>4. CASE IndexStep /\ UNCHANGED syncVars
  BY <1>4 DEF syncVars
<1> QED
  BY <1>1, <1>2, <1>3, <1>4, StepCases

\* A tracking ref changes by a fetch, origin by what precedes a fetch or a push.
LEMMA WhoMovesRefs ==
  ASSUME [Next]_vars
  PROVE  /\ \/ tracking' = tracking
            \/ \E t \in Tasks : \E p \in DOMAIN job[t] : Fetch(t, p)
         /\ \/ origin' = origin
            \/ \E t \in Tasks : \E p \in DOMAIN job[t] :
                 origin' = [origin EXCEPT ![p[2]] = p[1]]
<1>1. CASE UNCHANGED vars
  BY <1>1 DEF vars, syncVars
<1>2. ASSUME NEW t \in Tasks, CallStep(t)
      PROVE  tracking' = tracking \/ \E p \in DOMAIN job[t] : Fetch(t, p)
  BY <1>2, CallCases DEF Poll, Gather, Fetched, Pulled, Pick, Picked, Pushed, Timeout, PointOrigin,
     FetchFails, Advance, Move, AdvanceFails, StartPush, Push, PushFails
<1>3. ASSUME NEW t \in Tasks, CallStep(t)
      PROVE  origin' = origin \/ \E p \in DOMAIN job[t] : origin' = [origin EXCEPT ![p[2]] = p[1]]
  BY <1>3, CallCases DEF Poll, Gather, Fetched, Pulled, Pick, Picked, Pushed, Timeout, PointOrigin,
     Fetch, FetchFails, Advance, Move, AdvanceFails, StartPush, Push, PushFails
<1>4. CASE WorldStep
  BY <1>4 DEF WorldStep, Edit, PeerPush
<1>5. CASE IndexStep /\ UNCHANGED syncVars
  BY <1>5 DEF syncVars
<1> QED
  BY <1>1, <1>2, <1>3, <1>4, <1>5, StepCases

-----------------------------------------------------------------------------
(* How the transfers of a call change *)

\* A call that enters a phase has the transfers of the phase waiting, ...
LEMMA EnteringWaits ==
  ASSUME CallsOK, NEW t \in Tasks, NEW ph, NEW pairs, EnterPhase(t, ph, pairs),
         NEW u \in Tasks, NEW p \in DOMAIN job'[u]
  PROVE  \/ p \in DOMAIN job[u] /\ job'[u][p] = job[u][p]
         \/ p \in pairs /\ job'[u][p] = Waiting
BY DEF CallsOK, EnterPhase, Jobs

\* ... one that ends a transfer keeps the others, ...
LEMMA EndingKeeps ==
  ASSUME CallsOK, NEW t \in Tasks, NEW q, NEW what, NEW tip, End(t, q, what, tip),
         NEW u \in Tasks, NEW p \in DOMAIN job'[u]
  PROVE  p \in DOMAIN job[u] /\ job'[u][p] = job[u][p]
BY DEF CallsOK, End

\* ... and one that takes a transfer further changes no other.
LEMMA TakingMoves ==
  ASSUME CallsOK, NEW t \in Tasks, NEW q \in DOMAIN job[t], NEW at, NEW base, NEW to,
         Take(t, q, at, base, to), NEW u \in Tasks, NEW p \in DOMAIN job'[u]
  PROVE  /\ p \in DOMAIN job[u]
         /\ \/ job'[u][p] = job[u][p]
            \/ u = t /\ p = q /\ job'[u][p] = Stage(at, base, to)
BY DEF CallsOK, Take

\* The transfers a phase begins with are of remotes of the engine and groups
\* that are named.
LEMMA PhasesBeginBound ==
  ASSUME SyncInv, NEW t \in Tasks, Gather(t) \/ Fetched(t) \/ Pulled(t) \/ Pick(t) \/ Picked(t) \/ Pushed(t)
  PROVE  \E ph, pairs : pairs \subseteq Bindings \X Groups /\ EnterPhase(t, ph, pairs)
<1> USE DEF SyncInv, ConfOK, IndexOK, CallsOK
<1>1. CASE Gather(t)
  <2> DEFINE offered == {<<o.remote, o.group>> : o \in offers[t]}
             pairs == offered \union {<<r, Bound(r)>> : r \in Direct}
  <2>1. pairs \subseteq Bindings \X Groups
    BY DEF Direct
  <2>2. PICK missed, unmatched :
          EnterPhase(t, "fetch", {p \in {q \in pairs \ missed : q[2] \in index} :
                                    Matches(call[t].filter, p[2], p \in unmatched)})
    BY ZenonT(60), <1>1 DEF Gather
  <2> QED
    BY <2>1, <2>2
<1>2. CASE Fetched(t)
  <2>1. EnterPhase(t, "done", {})
        \/ EnterPhase(t, "advance", {<<conf.default, g>> : g \in {h \in Groups :
             Reported(t, "fetched", conf.default, h) \/ Reported(t, "skipped", conf.default, h)}})
    BY <1>2 DEF Fetched
  <2> QED
    BY <2>1
<1>3. CASE Pulled(t)
  BY <1>3 DEF Pulled
<1>4. CASE Pick(t)
  <2> DEFINE groups(r) == IF r \in Direct THEN {Bound(r)}
                          ELSE IF call[t].filter.kind = "group" THEN {call[t].filter.group}
                          ELSE IF writer = NoOne THEN index ELSE {}
  <2>1. PICK i \in DOMAIN conf.order :
          /\ conf.order[i] \in Targets(call[t].scope)
          /\ EnterPhase(t, "push", {<<conf.order[i], g>> : g \in groups(conf.order[i])})
    BY <1>4 DEF Pick, First, Left
  <2>2. conf.order[i] \in Bindings
    BY <2>1 DEF Targets
  <2>3. groups(conf.order[i]) \subseteq Groups
    OBVIOUS
  <2> QED
    BY <2>1, <2>2, <2>3
<1>5. CASE Picked(t)
  BY <1>5 DEF Picked
<1>6. CASE Pushed(t)
  BY <1>6 DEF Pushed
<1> QED
  BY <1>1, <1>2, <1>3, <1>4, <1>5, <1>6

\* A transfer of a later state was there before, waits since this step, was
\* just given origin, or is a fast-forward that was just compared.
LEMMA WhoHasTransfers ==
  ASSUME SyncInv, [Next]_vars, NEW u \in Tasks, NEW p \in DOMAIN job'[u]
  PROVE  \/ p \in DOMAIN job[u] /\ job'[u][p] = job[u][p]
         \/ p \in Bindings \X Groups /\ job'[u][p] = Waiting
         \/ /\ p \in DOMAIN job[u] /\ job'[u][p] = Stage("pointed", <<>>, <<>>)
            /\ origin' = [origin EXCEPT ![p[2]] = p[1]]
         \/ /\ p \in DOMAIN job[u]
            /\ job'[u][p] = Stage("moving", main[p[2]], tracking[p[1]][p[2]])
            /\ IsPrefix(main[p[2]], tracking[p[1]][p[2]])
<1>0. CallsOK
  BY DEF SyncInv
<1>1. CASE job' = job
  BY <1>1
<1>2. CASE WorldStep
  BY <1>1, <1>2 DEF WorldStep, Edit, PeerPush
<1>3. CASE UNCHANGED syncVars
  BY <1>1, <1>3 DEF syncVars
<1>4. ASSUME NEW t \in Tasks, Gather(t) \/ Fetched(t) \/ Pulled(t) \/ Pick(t) \/ Picked(t) \/ Pushed(t)
      PROVE  \/ p \in DOMAIN job[u] /\ job'[u][p] = job[u][p]
             \/ p \in Bindings \X Groups /\ job'[u][p] = Waiting
  BY <1>0, <1>4, PhasesBeginBound, EnteringWaits
<1>5. ASSUME NEW t \in Tasks, Timeout(t)
      PROVE  p \in DOMAIN job[u] /\ job'[u][p] = job[u][p]
  BY <1>0, <1>5 DEF Timeout, CallsOK
<1>6. ASSUME NEW t \in Tasks, NEW q \in DOMAIN job[t], \E what, tip : End(t, q, what, tip)
      PROVE  p \in DOMAIN job[u] /\ job'[u][p] = job[u][p]
  BY <1>0, <1>6, EndingKeeps
<1>7. ASSUME NEW t \in Tasks, NEW q \in DOMAIN job[t],
             Fetch(t, q) \/ FetchFails(t, q) \/ AdvanceFails(t, q) \/ Push(t, q) \/ PushFails(t, q)
      PROVE  p \in DOMAIN job[u] /\ job'[u][p] = job[u][p]
  <2>1. \E what, tip : End(t, q, what, tip)
    BY <1>7 DEF Fetch, FetchFails, AdvanceFails, Push, PushFails
  <2> QED
    BY <1>6, <2>1
<1>8. ASSUME NEW t \in Tasks, NEW q \in DOMAIN job[t], Move(t, q)
      PROVE  p \in DOMAIN job[u] /\ job'[u][p] = job[u][p]
  <2>1. CASE phase[t] = "done"
    BY <1>0, <1>8, <2>1 DEF Move, CallsOK
  <2>2. CASE phase[t] # "done"
    BY <1>6, <1>8, <2>2 DEF Move
  <2> QED
    BY <2>1, <2>2
<1>9. ASSUME NEW t \in Tasks, NEW q \in DOMAIN job[t], PointOrigin(t, q) \/ StartPush(t, q)
      PROVE  \/ p \in DOMAIN job[u] /\ job'[u][p] = job[u][p]
             \/ /\ p \in DOMAIN job[u] /\ job'[u][p] = Stage("pointed", <<>>, <<>>)
                /\ origin' = [origin EXCEPT ![p[2]] = p[1]]
  <2>1. \/ \E what, tip : End(t, q, what, tip)
        \/ /\ origin' = [origin EXCEPT ![q[2]] = q[1]]
           /\ Take(t, q, "pointed", <<>>, <<>>)
    BY <1>9 DEF PointOrigin, StartPush
  <2> QED
    BY <1>0, <1>6, <2>1, TakingMoves
<1>10. ASSUME NEW t \in Tasks, NEW q \in DOMAIN job[t], Advance(t, q)
       PROVE  \/ p \in DOMAIN job[u] /\ job'[u][p] = job[u][p]
              \/ /\ p \in DOMAIN job[u]
                 /\ job'[u][p] = Stage("moving", main[p[2]], tracking[p[1]][p[2]])
                 /\ IsPrefix(main[p[2]], tracking[p[1]][p[2]])
  <2>1. \/ \E what, tip : End(t, q, what, tip)
        \/ /\ IsPrefix(main[q[2]], tracking[q[1]][q[2]])
           /\ Take(t, q, "moving", main[q[2]], tracking[q[1]][q[2]])
    BY <1>10 DEF Advance
  <2> QED
    BY <1>0, <1>6, <2>1, TakingMoves
<1>11. ASSUME NEW t \in Tasks, Poll(t)
       PROVE  job' = job
  BY <1>11 DEF Poll
<1>12. ASSUME UNCHANGED vars PROVE UNCHANGED syncVars
  BY <1>12 DEF vars
<1> QED
  BY <1>1, <1>2, <1>3, <1>4, <1>5, <1>7, <1>8, <1>9, <1>10, <1>11, <1>12, StepCases, CallCases

-----------------------------------------------------------------------------
(* What a call reports, and when *)

\* A transfer that fetched, with what it read from whom.
FetchedNow(t, o) ==
  \E p \in DOMAIN job[t] :
    /\ phase[t] = "fetch" /\ phase' = phase /\ head' = head
    /\ job[t][p].at = "pointed" /\ Hosts(origin[p[2]], p[2])
    /\ o = Outcome("fetched", p[1], p[2], head[origin[p[2]]][p[2]])

\* A transfer that pushed, with what it wrote to whom.
PushedNow(t, o) ==
  \E p \in DOMAIN job[t] :
    /\ phase[t] = "push" /\ phase' = phase
    /\ job[t][p].at = "pointed" /\ Hosts(origin[p[2]], p[2])
    /\ IsPrefix(head[origin[p[2]]][p[2]], main[p[2]])
    /\ head' = [head EXCEPT ![origin[p[2]]][p[2]] = main[p[2]]]
    /\ o = Outcome("pushed", p[1], p[2], main[p[2]])

\* A transfer that ends reports its one outcome.
LEMMA EndingReports ==
  ASSUME CallsOK, NEW t \in Tasks, NEW p, NEW what, NEW tip, End(t, p, what, tip),
         NEW u \in Tasks, NEW o \in report'[u]
  PROVE  o \in report[u] \/ (u = t /\ o = Outcome(what, p[1], p[2], tip))
BY DEF CallsOK, End

\* A fetch that worked and a push that worked report it; nothing else does.
LEMMA WhoReports ==
  ASSUME SyncInv, [Next]_vars, NEW u \in Tasks, NEW o \in report'[u], o.what \in {"fetched", "pushed"}
  PROVE  o \in report[u] \/ FetchedNow(u, o) \/ PushedNow(u, o)
<1>0. CallsOK
  BY DEF SyncInv
<1>1. CASE report' = report
  BY <1>1
<1>2. CASE WorldStep
  BY <1>1, <1>2 DEF WorldStep, Edit, PeerPush
<1>3. ASSUME NEW t \in Tasks,
             Fetched(t) \/ Pulled(t) \/ Pick(t) \/ Pushed(t) \/ \E p \in DOMAIN job[t] : PointOrigin(t, p)
      PROVE  report' = report
  BY <1>3 DEF Fetched, Pulled, Pick, Pushed, PointOrigin
<1>4. ASSUME NEW t \in Tasks, Poll(t)
      PROVE  o \in report[u]
  <2>1. report' = report
        \/ \E r : report' = [report EXCEPT ![t] = @ \union {Outcome("unreachable", r, NoGroup, <<>>)}]
    BY <1>4 DEF Poll
  <2> QED
    BY <1>0, <2>1 DEF CallsOK, Outcome
<1>5. ASSUME NEW t \in Tasks, Gather(t)
      PROVE  o \in report[u]
  <2>1. \E S : report' = [report EXCEPT ![t] = @ \union {Outcome("new", NoRemote, p[2], <<>>) : p \in S}]
    BY <1>5 DEF Gather
  <2> QED
    BY <1>0, <2>1 DEF CallsOK, Outcome
<1>6. ASSUME NEW t \in Tasks, Picked(t) \/ Timeout(t)
      PROVE  o \in report[u]
  BY <1>0, <1>6 DEF Picked, Timeout, CallsOK, Outcome
<1>7. ASSUME NEW t \in Tasks, NEW p \in DOMAIN job[t],
             \/ \E what, tip : End(t, p, what, tip) /\ what \notin {"fetched", "pushed"}
             \/ UNCHANGED report
      PROVE  o \in report[u]
  <2>1. CASE UNCHANGED report
    BY <2>1
  <2>2. ASSUME NEW what, NEW tip, End(t, p, what, tip), what \notin {"fetched", "pushed"}
        PROVE  o \in report[u]
    BY <1>0, <2>2, EndingReports DEF Outcome
  <2> QED
    BY <1>7, <2>1, <2>2
<1>8. ASSUME NEW t \in Tasks, NEW p \in DOMAIN job[t],
             FetchFails(t, p) \/ AdvanceFails(t, p) \/ PushFails(t, p)
      PROVE  o \in report[u]
  <2>1. \E what, tip : End(t, p, what, tip)
                       /\ what \in {"skipped", "fetch_failed", "pull_failed", "not_transferred", "push_failed"}
    BY <1>8 DEF FetchFails, AdvanceFails, PushFails
  <2> QED
    BY <1>7, <2>1
<1>9. ASSUME NEW t \in Tasks, NEW p \in DOMAIN job[t], Advance(t, p) \/ Move(t, p) \/ StartPush(t, p)
      PROVE  o \in report[u]
  <2>1. \/ \E what, tip : /\ End(t, p, what, tip)
                          /\ what \in {"updated", "pull_diverged", "out_of_scope", "contended",
                                      "not_indexed", "not_transferred"}
        \/ UNCHANGED report
    BY <1>9 DEF Advance, Move, StartPush
  <2> QED
    BY <1>7, <2>1
<1>10. ASSUME NEW t \in Tasks, NEW p \in DOMAIN job[t], Fetch(t, p)
       PROVE  o \in report[u] \/ FetchedNow(u, o)
  <2> DEFINE tip == head[origin[p[2]]][p[2]]
  <2>1. \/ \E what : End(t, p, what, tip) /\ what \notin {"fetched", "pushed"}
        \/ End(t, p, "fetched", tip) /\ Hosts(origin[p[2]], p[2])
    BY <1>10 DEF Fetch
  <2>2. phase[t] = "fetch" /\ phase' = phase /\ head' = head /\ job[t][p].at = "pointed"
    BY <1>10 DEF Fetch
  <2>3. CASE End(t, p, "fetched", tip) /\ Hosts(origin[p[2]], p[2])
    BY <1>0, <2>2, <2>3, EndingReports DEF FetchedNow
  <2> QED
    BY <1>7, <2>1, <2>3
<1>11. ASSUME NEW t \in Tasks, NEW p \in DOMAIN job[t], Push(t, p)
       PROVE  o \in report[u] \/ PushedNow(u, o)
  <2>1. \/ \E what, tip : End(t, p, what, tip) /\ what \in {"not_transferred", "push_failed", "push_diverged"}
        \/ /\ End(t, p, "pushed", main[p[2]])
           /\ Hosts(origin[p[2]], p[2])
           /\ IsPrefix(head[origin[p[2]]][p[2]], main[p[2]])
           /\ head' = [head EXCEPT ![origin[p[2]]][p[2]] = main[p[2]]]
    BY <1>11 DEF Push
  <2>2. phase[t] = "push" /\ phase' = phase /\ job[t][p].at = "pointed"
    BY <1>11 DEF Push
  <2>3. CASE \E what, tip : End(t, p, what, tip) /\ what \in {"not_transferred", "push_failed", "push_diverged"}
    BY <1>7, <2>3
  <2>4. CASE /\ End(t, p, "pushed", main[p[2]])
             /\ Hosts(origin[p[2]], p[2])
             /\ IsPrefix(head[origin[p[2]]][p[2]], main[p[2]])
             /\ head' = [head EXCEPT ![origin[p[2]]][p[2]] = main[p[2]]]
    <3>1. o \in report[u] \/ (u = t /\ o = Outcome("pushed", p[1], p[2], main[p[2]]))
      BY <1>0, <2>4, EndingReports
    <3> QED
      BY <2>2, <2>4, <3>1 DEF PushedNow
  <2> QED
    BY <2>1, <2>3, <2>4
<1>12. CASE UNCHANGED vars \/ UNCHANGED syncVars
  BY <1>1, <1>12 DEF vars, syncVars
<1> QED
  BY <1>1, <1>2, <1>3, <1>4, <1>5, <1>6, <1>8, <1>9, <1>10, <1>11, <1>12, StepCases, CallCases

\* A call that has come to push never goes back.
LEMMA PhasesGoForward ==
  ASSUME CallsOK, [Next]_vars, NEW u \in Tasks, phase[u] \in {"pick", "push", "done"}
  PROVE  phase'[u] \in {"pick", "push", "done"}
<1>1. CASE phase' = phase
  BY <1>1
<1>2. CASE WorldStep
  BY <1>1, <1>2 DEF WorldStep, Edit, PeerPush
<1>3. ASSUME NEW t \in Tasks, CallStep(t)
      PROVE  phase' = phase \/ (DOMAIN phase' = Tasks /\ \A v \in Tasks \ {t} : phase'[v] = phase[v])
  BY <1>3, CallCases DEF Poll, Gather, Fetched, Pulled, Pick, Picked, Pushed, Timeout, PointOrigin, EnterPhase,
     Fetch, FetchFails, Advance, Move, AdvanceFails, StartPush, Push, PushFails, CallsOK
<1>4. ASSUME CallStep(u), phase' # phase
      PROVE  phase'[u] \in {"pick", "push", "done"}
  <2>1. Gather(u) \/ Fetched(u) \/ Pulled(u) \/ Pick(u) \/ Picked(u) \/ Pushed(u) \/ Timeout(u)
    BY ZenonT(60), <1>4, CallCases DEF Poll, PointOrigin, Fetch, FetchFails, Advance, Move, AdvanceFails, StartPush,
       Push, PushFails
  <2> QED
    BY <2>1 DEF Gather, Fetched, Pulled, Pick, Picked, Pushed, Timeout, EnterPhase, CallsOK
<1>5. CASE UNCHANGED vars \/ UNCHANGED syncVars
  BY <1>1, <1>5 DEF vars, syncVars
<1> QED
  BY <1>1, <1>2, <1>3, <1>4, <1>5, StepCases

\* Offers come from the servers' manifests.
LEMMA WhoOffers ==
  ASSUME SyncInv, [Next]_vars, NEW u \in Tasks, NEW o \in offers'[u]
  PROVE  o \in offers[u] \/ (o.remote \in Bindings /\ o.group \in Groups)
<1>0. CallsOK
  BY DEF SyncInv
<1>1. CASE offers' = offers
  BY <1>1
<1>2. ASSUME NEW t \in Tasks, Poll(t)
      PROVE  o \in offers[u] \/ (o.remote \in Bindings /\ o.group \in Groups)
  <2>1. CASE offers' = offers
    BY <2>1
  <2>2. CASE offers' # offers
    <3>1. PICK i \in DOMAIN conf.order :
            /\ conf.order[i] \in Servers
            /\ offers' = [offers EXCEPT ![t] = @ \union
                 {[remote |-> conf.order[i], group |-> g, tip |-> head[conf.order[i]][g]] :
                    g \in conf.hosts[conf.order[i]]}]
      BY <1>2, <2>2 DEF Poll, First, Left
    <3>2. conf.order[i] \in Bindings /\ conf.hosts[conf.order[i]] \subseteq Groups
      BY <3>1 DEF Servers, SyncInv, ConfOK
    <3> QED
      BY <1>0, <3>1, <3>2 DEF CallsOK
  <2> QED
    BY <2>1, <2>2
<1>3. ASSUME NEW t \in Tasks, CallStep(t)
      PROVE  offers' = offers \/ Poll(t)
  BY <1>3, CallCases DEF Gather, Fetched, Pulled, Pick, Picked, Pushed, Timeout, PointOrigin,
     Fetch, FetchFails, Advance, Move, AdvanceFails, StartPush, Push, PushFails
<1>4. CASE WorldStep
  BY <1>1, <1>4 DEF WorldStep, Edit, PeerPush
<1>5. CASE UNCHANGED vars \/ UNCHANGED syncVars
  BY <1>1, <1>5 DEF vars, syncVars
<1> QED
  BY <1>1, <1>2, <1>3, <1>4, <1>5, StepCases

-----------------------------------------------------------------------------
(* The invariant *)

\* The heads of the remotes stay histories and only grow.
LEMMA HeadsGrow ==
  ASSUME SyncInv, [Next]_vars
  PROVE  /\ head' \in [Remotes -> [Groups -> Histories]]
         /\ \A r \in Remotes, g \in Groups : IsPrefix(head[r][g], head'[r][g])
<1>0. head \in [Remotes -> [Groups -> Histories]] /\ main \in [Groups -> Histories]
  BY DEF SyncInv, StoreOK
<1>1. CASE head' = head
  BY <1>0, <1>1, PrefixReflexive
<1>2. ASSUME NEW t \in Tasks, NEW p \in DOMAIN job[t], Push(t, p)
      PROVE  /\ head' \in [Remotes -> [Groups -> Histories]]
             /\ \A r \in Remotes, g \in Groups : IsPrefix(head[r][g], head'[r][g])
  <2>1. p[2] \in Groups
    BY DEF SyncInv, CallsOK
  <2>2. origin[p[2]] \in Remotes
    BY <1>2 DEF Push, SyncInv, OriginsAreBound, ConfOK
  <2>3. CASE head' = head
    BY <1>1, <2>3
  <2>4. CASE head' # head
    <3>1. /\ IsPrefix(head[origin[p[2]]][p[2]], main[p[2]])
          /\ head' = [head EXCEPT ![origin[p[2]]][p[2]] = main[p[2]]]
      BY <1>2, <2>4 DEF Push
    <3>2. head' \in [Remotes -> [Groups -> Histories]]
      BY <1>0, <2>1, <2>2, <3>1
    <3>3. ASSUME NEW r \in Remotes, NEW g \in Groups
          PROVE  head'[r][g] = head[r][g] \/ IsPrefix(head[r][g], head'[r][g])
      BY <1>0, <2>1, <2>2, <3>1
    <3>4. \A r \in Remotes, g \in Groups : head[r][g] \in Histories
      BY <1>0
    <3> QED
      BY <3>2, <3>3, <3>4, PrefixReflexive
  <2> QED
    BY <2>3, <2>4
<1>3. ASSUME NEW e \in Edits, PeerPush(e)
      PROVE  /\ head' \in [Remotes -> [Groups -> Histories]]
             /\ \A r \in Remotes, g \in Groups : IsPrefix(head[r][g], head'[r][g])
  <2>1. Author[e] \in Remotes /\ Place[e] \in Groups
    BY <1>3, EditsAssumption DEF PeerPush
  <2>2. head' = [head EXCEPT ![Author[e]][Place[e]] = Append(head[Author[e]][Place[e]], e)]
    BY <1>0, <1>3, <2>1 DEF PeerPush
  <2>3. /\ Append(head[Author[e]][Place[e]], e) \in Histories
        /\ IsPrefix(head[Author[e]][Place[e]], Append(head[Author[e]][Place[e]], e))
    BY <1>0, <2>1, AppendExtends
  <2>4. head' \in [Remotes -> [Groups -> Histories]]
    BY <1>0, <2>1, <2>2, <2>3
  <2>5. ASSUME NEW r \in Remotes, NEW g \in Groups
        PROVE  head'[r][g] = head[r][g] \/ IsPrefix(head[r][g], head'[r][g])
    BY <1>0, <2>1, <2>2, <2>3
  <2>6. \A r \in Remotes, g \in Groups : head[r][g] \in Histories
    BY <1>0
  <2> QED
    BY <2>4, <2>5, <2>6, PrefixReflexive
<1> QED
  BY <1>1, <1>2, <1>3, WhoMovesHeads

\* For a group that one remote has, an origin that can be bound to it is that remote.
LEMMA UnsharedIsAlone ==
  ASSUME NEW r \in Bindings, NEW s \in Bindings, NEW g, Unshared(r, g), Hosts(s, g)
  PROVE  s = r
BY DEF Unshared

\* The branches stay histories.
LEMMA StoreIsKept ==
  ASSUME SyncInv, [Next]_vars PROVE StoreOK'
<1>0. StoreOK /\ ConfOK /\ CallsOK /\ OriginsAreBound /\ MovesGoForward
  BY DEF SyncInv
<1>1. main' \in [Groups -> Histories]
  <2>1. ASSUME NEW t \in Tasks, NEW p \in DOMAIN job[t], Move(t, p)
        PROVE  main' \in [Groups -> Histories]
    BY <1>0, <2>1 DEF StoreOK, MovesGoForward, Move
  <2>2. ASSUME NEW e \in Edits, Edit(e)
        PROVE  main' \in [Groups -> Histories]
    <3>1. Place[e] \in Groups
      BY EditsAssumption
    <3>2. main[Place[e]] \in Histories /\ main' = [main EXCEPT ![Place[e]] = Append(main[Place[e]], e)]
      BY <1>0, <2>2, <3>1 DEF Edit, StoreOK
    <3> QED
      BY <1>0, <3>1, <3>2, AppendExtends DEF StoreOK
  <2> QED
    BY <1>0, <2>1, <2>2, WhoMovesMain DEF StoreOK
<1>2. tracking' \in [Remotes -> [Groups -> Histories]]
  <2>1. ASSUME NEW t \in Tasks, NEW p \in DOMAIN job[t], Fetch(t, p)
        PROVE  tracking' \in [Remotes -> [Groups -> Histories]]
    <3>1. p[1] \in Remotes /\ p[2] \in Groups
      BY <1>0 DEF CallsOK, ConfOK
    <3>2. head[origin[p[2]]][p[2]] \in Histories
      BY <1>0, <2>1, <3>1 DEF OriginsAreBound, ConfOK, StoreOK, Fetch
    <3>3. tracking' = tracking \/ tracking' = [tracking EXCEPT ![p[1]][p[2]] = head[origin[p[2]]][p[2]]]
      BY <2>1 DEF Fetch
    <3> QED
      BY <1>0, <3>1, <3>2, <3>3 DEF StoreOK
  <2> QED
    BY <1>0, <2>1, WhoMovesRefs DEF StoreOK
<1>3. DOMAIN origin' = Groups
  BY <1>0, WhoMovesRefs DEF StoreOK
<1> QED
  BY <1>1, <1>2, <1>3, HeadsGrow DEF StoreOK

\* The index names groups.
LEMMA IndexIsKept ==
  ASSUME IndexOK, [Next]_vars PROVE IndexOK'
<1>1. CASE UNCHANGED indexVars
  BY <1>1 DEF IndexOK, indexVars
<1>2. CASE IndexStep
  <2>1. ASSUME NEW g \in Groups, Appear(g) PROVE IndexOK'
    BY <2>1 DEF IndexOK, Appear
  <2>2. ASSUME NEW k \in Refreshers, Scan(k) \/ Lock(k) \/ Install(k) PROVE IndexOK'
    BY <2>2 DEF IndexOK, Scan, Lock, Install
  <2> QED
    BY <1>2, <2>1, <2>2 DEF IndexStep
<1> QED
  BY <1>1, <1>2, StepCases DEF vars

\* The calls keep to the remotes of the engine.
LEMMA CallsAreKept ==
  ASSUME SyncInv, [Next]_vars PROVE CallsOK'
<1>0. CallsOK
  BY DEF SyncInv
<1>1. DOMAIN offers' = Tasks /\ DOMAIN job' = Tasks /\ DOMAIN report' = Tasks /\ DOMAIN phase' = Tasks
  <2>1. ASSUME NEW t \in Tasks, CallStep(t)
        PROVE  DOMAIN offers' = Tasks /\ DOMAIN report' = Tasks /\ DOMAIN phase' = Tasks
    <3>1. DOMAIN report' = Tasks
      BY ZenonT(60), <1>0, <2>1, CallCases DEF Poll, Gather, Fetched, Pulled, Pick, Picked, Pushed, Timeout, PointOrigin,
         Fetch, FetchFails, Advance, Move, AdvanceFails, StartPush, Push, PushFails, End, CallsOK
    <3>2. DOMAIN offers' = Tasks
      BY <1>0, <2>1, CallCases DEF Poll, Gather, Fetched, Pulled, Pick, Picked, Pushed, Timeout, PointOrigin,
         Fetch, FetchFails, Advance, Move, AdvanceFails, StartPush, Push, PushFails, CallsOK
    <3>3. DOMAIN phase' = Tasks
      BY <1>0, <2>1, CallCases DEF Poll, Gather, Fetched, Pulled, Pick, Picked, Pushed, Timeout, PointOrigin,
         Fetch, FetchFails, Advance, Move, AdvanceFails, StartPush, Push, PushFails, EnterPhase, CallsOK
    <3> QED
      BY <3>1, <3>2, <3>3
  <2>2. ASSUME NEW t \in Tasks, CallStep(t)
        PROVE  DOMAIN job' = Tasks
    BY ZenonT(60), <1>0, <2>2, CallCases DEF Poll, Gather, Fetched, Pulled, Pick, Picked, Pushed, Timeout, PointOrigin,
       Fetch, FetchFails, Advance, Move, AdvanceFails, StartPush, Push, PushFails, EnterPhase, End, Take,
       CallsOK
  <2>3. CASE WorldStep
    BY <1>0, <2>3 DEF WorldStep, Edit, PeerPush, CallsOK
  <2>4. CASE UNCHANGED vars \/ UNCHANGED syncVars
    BY <1>0, <2>4 DEF vars, syncVars, CallsOK
  <2> QED
    BY <2>1, <2>2, <2>3, <2>4, StepCases
<1>2. \A t \in Tasks : \A o \in offers'[t] : o.remote \in Bindings /\ o.group \in Groups
  BY <1>0, WhoOffers DEF CallsOK
<1>3. ASSUME NEW t \in Tasks, NEW p \in DOMAIN job'[t]
      PROVE  p \in Bindings \X Groups
  BY <1>0, <1>3, WhoHasTransfers DEF CallsOK
<1> QED
  BY <1>1, <1>2, <1>3, ConfIsKept DEF CallsOK

\* Origin keeps naming remotes of the engine.
LEMMA OriginsStayBound ==
  ASSUME SyncInv, [Next]_vars PROVE OriginsAreBound'
<1>0. CallsOK /\ StoreOK /\ OriginsAreBound
  BY DEF SyncInv
<1>1. SUFFICES ASSUME NEW u \in Tasks, NEW q \in DOMAIN job'[u], job'[u][q].at = "pointed"
               PROVE  origin'[q[2]] \in Bindings
  BY ConfIsKept DEF OriginsAreBound
<1>2. CASE /\ q \in DOMAIN job[u] /\ job'[u][q] = Stage("pointed", <<>>, <<>>)
           /\ origin' = [origin EXCEPT ![q[2]] = q[1]]
  <2>1. q[1] \in Bindings /\ q[2] \in DOMAIN origin
    BY <1>0, <1>2 DEF CallsOK, StoreOK
  <2> QED
    BY <1>2, <2>1
<1>3. CASE q \in DOMAIN job[u] /\ job'[u][q] = job[u][q]
  <2>1. origin[q[2]] \in Bindings
    BY <1>0, <1>1, <1>3 DEF OriginsAreBound
  <2>2. origin' = origin \/ \E t \in Tasks : \E p \in DOMAIN job[t] : origin' = [origin EXCEPT ![p[2]] = p[1]]
    BY WhoMovesRefs
  <2>3. ASSUME NEW t \in Tasks, NEW p \in DOMAIN job[t], origin' = [origin EXCEPT ![p[2]] = p[1]]
        PROVE  origin'[q[2]] \in Bindings
    <3>1. p[1] \in Bindings
      BY <1>0 DEF CallsOK
    <3> QED
      BY <1>0, <1>3, <2>1, <2>3, <3>1 DEF CallsOK, StoreOK
  <2> QED
    BY <2>1, <2>2, <2>3
<1>4. CASE /\ q \in DOMAIN job[u]
           /\ job'[u][q] = Stage("moving", main[q[2]], tracking[q[1]][q[2]])
  BY <1>1, <1>4 DEF Stage
<1>5. CASE job'[u][q] = Waiting
  BY <1>1, <1>5 DEF Waiting, Stage
<1> QED
  BY <1>2, <1>3, <1>4, <1>5, WhoHasTransfers

\* A fast-forward that was just compared goes forward.
LEMMA MovesStayForward ==
  ASSUME SyncInv, [Next]_vars PROVE MovesGoForward'
<1>1. SUFFICES ASSUME NEW u \in Tasks, NEW q \in DOMAIN job'[u], job'[u][q].at = "moving"
               PROVE  job'[u][q].to \in Histories /\ IsPrefix(job'[u][q].base, job'[u][q].to)
  BY DEF MovesGoForward
<1>2. CASE q \in DOMAIN job[u] /\ job'[u][q] = job[u][q]
  BY <1>1, <1>2 DEF SyncInv, MovesGoForward
<1>3. CASE /\ q \in DOMAIN job[u]
           /\ job'[u][q] = Stage("moving", main[q[2]], tracking[q[1]][q[2]])
           /\ IsPrefix(main[q[2]], tracking[q[1]][q[2]])
  <2>1. tracking[q[1]][q[2]] \in Histories
    BY <1>3 DEF SyncInv, CallsOK, ConfOK, StoreOK
  <2> QED
    BY <1>3, <2>1 DEF Stage
<1> QED
  BY <1>1, <1>2, <1>3, WhoHasTransfers DEF Waiting, Stage

\* What was read from, or written to, the only remote that has a group.
LEMMA TransferIsExact ==
  ASSUME SyncInv, [Next]_vars, NEW u \in Tasks, NEW o, FetchedNow(u, o) \/ PushedNow(u, o)
  PROVE  /\ o.remote \in Bindings /\ o.group \in Groups /\ o.tip \in Histories
         /\ Unshared(o.remote, o.group) => o.tip = head'[o.remote][o.group]
<1>0. ConfOK /\ StoreOK /\ CallsOK /\ OriginsAreBound
  BY DEF SyncInv
<1>1. PICK p \in DOMAIN job[u] :
        /\ job[u][p].at = "pointed" /\ Hosts(origin[p[2]], p[2])
        /\ \/ /\ head' = head
              /\ o = Outcome("fetched", p[1], p[2], head[origin[p[2]]][p[2]])
           \/ /\ head' = [head EXCEPT ![origin[p[2]]][p[2]] = main[p[2]]]
              /\ o = Outcome("pushed", p[1], p[2], main[p[2]])
  BY DEF FetchedNow, PushedNow
<1>2. /\ p[1] \in Bindings /\ p[2] \in Groups
      /\ origin[p[2]] \in Bindings /\ origin[p[2]] \in Remotes
  BY <1>0, <1>1 DEF CallsOK, OriginsAreBound, ConfOK
<1>3. head[origin[p[2]]][p[2]] \in Histories /\ main[p[2]] \in Histories
  BY <1>0, <1>2 DEF StoreOK
<1>4. o.remote = p[1] /\ o.group = p[2] /\ o.tip \in Histories
  BY <1>1, <1>3 DEF Outcome
<1>5. o.tip = head'[origin[p[2]]][p[2]]
  BY <1>0, <1>1, <1>2 DEF Outcome, StoreOK
<1>6. Unshared(p[1], p[2]) => origin[p[2]] = p[1]
  BY <1>1, <1>2, UnsharedIsAlone
<1> QED
  BY <1>2, <1>4, <1>5, <1>6

\* What is reported as fetched or pushed stays on the remote.
LEMMA TransfersStayExact ==
  ASSUME SyncInv, [Next]_vars PROVE TransfersAreExact'
<1>1. SUFFICES ASSUME NEW u \in Tasks, NEW o \in report'[u], o.what \in {"fetched", "pushed"}
               PROVE  /\ o.remote \in Bindings /\ o.group \in Groups /\ o.tip \in Histories
                      /\ Unshared(o.remote, o.group) => IsPrefix(o.tip, head'[o.remote][o.group])
  BY ConfIsKept DEF TransfersAreExact
<1>2. CASE o \in report[u]
  <2>1. /\ o.remote \in Bindings /\ o.group \in Groups /\ o.tip \in Histories
        /\ Unshared(o.remote, o.group) => IsPrefix(o.tip, head[o.remote][o.group])
    BY <1>1, <1>2 DEF SyncInv, TransfersAreExact
  <2>2. o.remote \in Remotes
    BY <2>1 DEF SyncInv, ConfOK
  <2>3. /\ head[o.remote][o.group] \in Histories /\ head'[o.remote][o.group] \in Histories
        /\ IsPrefix(head[o.remote][o.group], head'[o.remote][o.group])
    BY <2>1, <2>2, HeadsGrow DEF SyncInv, StoreOK
  <2> QED
    BY <2>1, <2>3, PrefixTransitive
<1>3. CASE FetchedNow(u, o) \/ PushedNow(u, o)
  BY <1>3, TransferIsExact, PrefixReflexive
<1> QED
  BY <1>1, <1>2, <1>3, WhoReports

\* Tracking refs stay behind the heads of their remotes.
LEMMA TrackingStaysExact ==
  ASSUME SyncInv, [Next]_vars PROVE TrackingIsExact'
<1>0. ConfOK /\ StoreOK /\ CallsOK /\ OriginsAreBound /\ TrackingIsExact
  BY DEF SyncInv
<1>1. SUFFICES ASSUME NEW r \in Bindings, NEW g \in Groups, Unshared(r, g)
               PROVE  IsPrefix(tracking'[r][g], head'[r][g])
  BY ConfIsKept DEF TrackingIsExact
<1>2. /\ r \in Remotes
      /\ tracking[r][g] \in Histories /\ head[r][g] \in Histories /\ head'[r][g] \in Histories
      /\ IsPrefix(head[r][g], head'[r][g])
  BY <1>0, HeadsGrow DEF ConfOK, StoreOK
<1>3. CASE tracking'[r][g] = tracking[r][g]
  BY <1>0, <1>1, <1>2, <1>3, PrefixTransitive DEF TrackingIsExact
<1>4. ASSUME NEW t \in Tasks, NEW p \in DOMAIN job[t], Fetch(t, p), tracking'[r][g] # tracking[r][g]
      PROVE  tracking'[r][g] = head[r][g]
  <2>1. /\ tracking' = [tracking EXCEPT ![p[1]][p[2]] = head[origin[p[2]]][p[2]]]
        /\ Hosts(origin[p[2]], p[2]) /\ job[t][p].at = "pointed"
    BY <1>4 DEF Fetch
  <2>2. p[1] \in Remotes /\ p[2] \in Groups /\ origin[p[2]] \in Bindings
    BY <1>0, <2>1 DEF CallsOK, ConfOK, OriginsAreBound
  <2>3. p[1] = r /\ p[2] = g
    BY <1>0, <1>2, <1>4, <2>1, <2>2 DEF StoreOK
  <2>4. origin[g] = r
    BY <1>1, <2>1, <2>2, <2>3, UnsharedIsAlone
  <2> QED
    BY <1>0, <1>2, <2>1, <2>2, <2>3, <2>4 DEF StoreOK
<1> QED
  BY <1>2, <1>3, <1>4, WhoMovesRefs

\* No call goes back to fetching once it has pushed.
LEMMA PushesStayLast ==
  ASSUME SyncInv, [Next]_vars PROVE PushesComeLast'
<1>1. SUFFICES ASSUME NEW u \in Tasks, NEW o \in report'[u], o.what = "pushed"
               PROVE  phase'[u] \in {"pick", "push", "done"}
  BY DEF PushesComeLast
<1>2. o \in report[u] \/ FetchedNow(u, o) \/ PushedNow(u, o)
  BY <1>1, WhoReports
<1>3. ~FetchedNow(u, o)
  BY <1>1 DEF FetchedNow, Outcome
<1>4. CASE o \in report[u]
  <2>1. phase[u] \in {"pick", "push", "done"}
    BY <1>1, <1>4 DEF SyncInv, PushesComeLast
  <2> QED
    BY <2>1, PhasesGoForward DEF SyncInv
<1>5. CASE PushedNow(u, o)
  BY <1>5 DEF PushedNow
<1> QED
  BY <1>2, <1>3, <1>4, <1>5

\* A push extends what the same call fetched from that remote.
LEMMA PushesKeepWhatWasFetched ==
  ASSUME SyncInv, [Next]_vars PROVE UnsharedPushHasWhatWasFetched'
<1>1. SUFFICES ASSUME NEW u \in Tasks, NEW o \in report'[u], NEW f \in report'[u],
                      o.what = "pushed", f.what = "fetched", f.remote = o.remote, f.group = o.group,
                      Unshared(o.remote, o.group)
               PROVE  IsPrefix(f.tip, o.tip)
  BY ConfIsKept DEF UnsharedPushHasWhatWasFetched
<1>2. o \in report[u] \/ PushedNow(u, o)
  BY <1>1, WhoReports DEF FetchedNow, Outcome
<1>3. f \in report[u]
  <2>1. f \in report[u] \/ FetchedNow(u, f)
    <3>1. f \in report[u] \/ FetchedNow(u, f) \/ PushedNow(u, f)
      BY <1>1, WhoReports
    <3>2. PushedNow(u, f) => \E r, g, tip : f = Outcome("pushed", r, g, tip)
      BY DEF PushedNow
    <3>3. ~PushedNow(u, f)
      BY <1>1, <3>2 DEF Outcome
    <3> QED
      BY <3>1, <3>3
  <2>2. ~FetchedNow(u, f)
    <3>1. phase[u] # "fetch"
      BY <1>1, <1>2 DEF SyncInv, PushesComeLast, PushedNow
    <3> QED
      BY <3>1 DEF FetchedNow
  <2> QED
    BY <2>1, <2>2
<1>4. CASE o \in report[u]
  BY <1>1, <1>3, <1>4 DEF SyncInv, UnsharedPushHasWhatWasFetched
<1>5. CASE PushedNow(u, o)
  <2>1. /\ o.remote \in Bindings /\ o.group \in Groups /\ f.tip \in Histories
        /\ IsPrefix(f.tip, head[o.remote][o.group])
    BY <1>1, <1>3 DEF SyncInv, TransfersAreExact
  <2>2. PICK p \in DOMAIN job[u] :
          /\ job[u][p].at = "pointed" /\ Hosts(origin[p[2]], p[2])
          /\ IsPrefix(head[origin[p[2]]][p[2]], main[p[2]])
          /\ o = Outcome("pushed", p[1], p[2], main[p[2]])
    BY <1>5 DEF PushedNow
  <2>3. o.remote = p[1] /\ o.group = p[2] /\ o.tip = main[p[2]]
    BY <2>2 DEF Outcome
  <2>4. origin[p[2]] \in Bindings
    BY <2>2 DEF SyncInv, OriginsAreBound
  <2>5. origin[p[2]] = o.remote
    BY <1>1, <2>1, <2>2, <2>3, <2>4, UnsharedIsAlone
  <2>6. o.remote \in Remotes /\ head[o.remote][o.group] \in Histories /\ main[o.group] \in Histories
    BY <2>1 DEF SyncInv, ConfOK, StoreOK
  <2> QED
    BY <2>1, <2>2, <2>3, <2>5, <2>6, PrefixTransitive
<1> QED
  BY <1>2, <1>4, <1>5

\* The invariant holds in the scenarios ...
LEMMA SyncInvInit ==
  ASSUME Init PROVE SyncInv
<1>1. PICK s \in Scenarios :
        /\ conf = s.conf /\ IndexInit(s.groups, s.refreshers)
        /\ main = s.main /\ head = s.head /\ call = s.call
  BY DEF Init
<1>2. /\ tracking = [r \in Remotes |-> [g \in Groups |-> <<>>]]
      /\ origin = [g \in Groups |-> NoRemote]
      /\ offers = [t \in Tasks |-> {}] /\ report = [t \in Tasks |-> {}]
      /\ job = [t \in Tasks |-> NoJobs] /\ DOMAIN phase = Tasks
  BY DEF Init
<1>3. ConfOK
  <2>1. \A r \in Direct : Bound(r) \in Groups
    BY <1>1, ScenariosAssumption DEF Direct, Bound, Bindings, Hosts
  <2>2. conf.order \in Seq(Remotes)
    BY <1>1, ScenariosAssumption
  <2>3. Bindings \subseteq Remotes
    BY <2>2, LenProperties DEF Bindings, ToSet
  <2> QED
    BY <1>1, <2>1, <2>2, <2>3, ScenariosAssumption DEF ConfOK, Bindings
<1>4. <<>> \in Histories
  BY EmptySeq DEF Histories
<1>5. StoreOK
  BY <1>1, <1>2, <1>4, ScenariosAssumption DEF StoreOK
<1>6. IndexOK
  BY <1>1, ScenariosAssumption DEF IndexOK, IndexInit
<1>7. \A t \in Tasks : DOMAIN job[t] = {}
  BY <1>2 DEF NoJobs
<1>8. CallsOK /\ OriginsAreBound /\ MovesGoForward
  BY <1>2, <1>7 DEF CallsOK, OriginsAreBound, MovesGoForward
<1>9. TransfersAreExact /\ PushesComeLast /\ UnsharedPushHasWhatWasFetched
  BY <1>2 DEF TransfersAreExact, PushesComeLast, UnsharedPushHasWhatWasFetched
<1>10. TrackingIsExact
  <2>1. ASSUME NEW r \in Bindings, NEW g \in Groups PROVE IsPrefix(tracking[r][g], head[r][g])
    <3>1. tracking[r][g] = <<>> /\ head[r][g] \in Histories
      BY <1>2, <1>3, <1>5 DEF ConfOK, StoreOK
    <3>2. Len(head[r][g]) \in Nat /\ Len(<<>>) = 0
      BY <3>1, LenProperties DEF Histories
    <3>3. Len(<<>>) <= Len(head[r][g]) /\ \A i \in 1..Len(<<>>) : <<>>[i] = head[r][g][i]
      BY <3>2
    <3>4. IsPrefix(<<>>, head[r][g])
      BY <1>4, <3>1, <3>3, PrefixByIndex DEF Histories
    <3> QED
      BY <3>1, <3>4
  <2> QED
    BY <2>1 DEF TrackingIsExact
<1> QED
  BY <1>3, <1>5, <1>6, <1>8, <1>9, <1>10 DEF SyncInv

\* ... and every step keeps it.
LEMMA SyncInvStep ==
  ASSUME SyncInv, [Next]_vars PROVE SyncInv'
<1>1. ConfOK'
  BY ConfIsKept DEF SyncInv, ConfOK, Direct, Bound, Bindings, Hosts
<1> QED
  BY <1>1, StoreIsKept, IndexIsKept, CallsAreKept, OriginsStayBound, MovesStayForward,
     TransfersStayExact, TrackingStaysExact, PushesStayLast, PushesKeepWhatWasFetched DEF SyncInv

-----------------------------------------------------------------------------
(* The theorems *)

\* The invariant of the sync engine, on which the theorems below rest.
THEOREM SyncInvariance == Spec => []SyncInv
BY SyncInvInit, SyncInvStep, PTL DEF Spec

\* Whatever calls, edits, refreshes and failures interleave, and whichever
\* remote the shared origin names, no push takes a commit from a remote.
THEOREM RemotesOnlyGrow == Spec => HeadsOnlyGrow
<1>1. ASSUME SyncInv, [Next]_vars
      PROVE  \A r \in Remotes, g \in Groups : IsPrefix(head[r][g], head[r][g]')
  BY <1>1, HeadsGrow
<1> QED
  BY <1>1, SyncInvariance, PTL DEF Spec, HeadsOnlyGrow

\* The local main loses a commit only to a fast-forward that had compared
\* before the commit was made.
THEOREM RewindsAreRaces == Spec => OnlyARaceRewinds
<1> DEFINE Kept(g) ==
      \/ IsPrefix(main[g], main[g]')
      \/ \E t \in Tasks : \E p \in DOMAIN job[t] :
           /\ p[2] = g /\ job[t][p].at = "moving"
           /\ job[t][p].base # main[g] /\ IsPrefix(job[t][p].base, job[t][p].to)
<1>1. ASSUME SyncInv, [Next]_vars, NEW g \in Groups
      PROVE  Kept(g)
  <2>0. main \in [Groups -> Histories] /\ MovesGoForward
    BY <1>1 DEF SyncInv, StoreOK
  <2>1. CASE main'[g] = main[g]
    BY <2>0, <2>1, PrefixReflexive
  <2>2. ASSUME NEW t \in Tasks, NEW p \in DOMAIN job[t], Move(t, p), main'[g] # main[g]
        PROVE  Kept(g)
    <3>1. job[t][p].at = "moving" /\ main' = [main EXCEPT ![p[2]] = job[t][p].to]
      BY <2>2 DEF Move
    <3>2. p[2] = g /\ main'[g] = job[t][p].to /\ IsPrefix(job[t][p].base, job[t][p].to)
      BY <2>0, <2>2, <3>1 DEF MovesGoForward
    <3> QED
      BY <3>1, <3>2
  <2>3. ASSUME NEW e \in Edits, Edit(e), main'[g] # main[g]
        PROVE  Kept(g)
    <3>1. main' = [main EXCEPT ![Place[e]] = Append(@, e)]
      BY <2>3 DEF Edit
    <3>2. g = Place[e] /\ main'[g] = Append(main[g], e)
      BY <2>0, <2>3, <3>1
    <3> QED
      BY <2>0, <3>2, AppendExtends
  <2> QED
    BY <1>1, <2>1, <2>2, <2>3, WhoMovesMain
<1>2. ASSUME SyncInv, [Next]_vars PROVE \A g \in Groups : Kept(g)
  BY <1>1, <1>2
<1> QED
  BY <1>2, SyncInvariance, PTL DEF Spec, OnlyARaceRewinds

\* For a group that one remote has, what tracks the remote and what is reported
\* pushed are its own history, although all remotes share one git origin.
THEOREM UnsharedGroupsStayExact == Spec => []UnsharedGroupsAreExact
<1>1. ASSUME SyncInv PROVE UnsharedGroupsAreExact
  BY <1>1 DEF SyncInv, TrackingIsExact, TransfersAreExact, UnsharedGroupsAreExact
<1> QED
  BY <1>1, SyncInvariance, PTL

\* For a group that one remote has, a sync never publishes less than it fetched
\* from there, even where its pull failed.
THEOREM UnsharedPushesHaveWhatWasFetched == Spec => []UnsharedPushHasWhatWasFetched
<1>1. SyncInv => UnsharedPushHasWhatWasFetched
  BY DEF SyncInv
<1> QED
  BY <1>1, SyncInvariance, PTL

-----------------------------------------------------------------------------
(* What a call tells its caller, and what it occupies while it runs.  The  *)
(* argument follows a call through its phases.  A server is settled when   *)
(* its turn is over, an offer when its transfer is, and a group that was   *)
(* asked of the default remote when its fast-forward is: what is not       *)
(* settled yet is among the transfers that are left.                       *)

\* A call that reads, as long as no timeout has replaced its report.
Telling(t) ==
  call[t].op \in {"fetch", "pull", "sync"} /\ ~Reported(t, "timeout", NoRemote, NoGroup)

\* The three parts of a complete report.
Reached(t, r) ==
  \/ Reported(t, "unreachable", r, NoGroup)
  \/ \A g \in conf.hosts[r] : \E o \in offers[t] : o.remote = r /\ o.group = g
Accounted(t, o) ==
  \/ Reported(t, "new", NoRemote, o.group)
  \/ \E what \in {"fetched", "skipped", "fetch_failed"} : Reported(t, what, o.remote, o.group)
  \/ call[t].filter.kind = "scope"
  \/ ~Matches(call[t].filter, o.group, FALSE)
Asked(t, g) ==
  Reported(t, "fetched", conf.default, g) \/ Reported(t, "skipped", conf.default, g)
Told(t, g) ==
  {o \in report[t] : /\ o.group = g /\ o.remote = conf.default
                     /\ o.what \in {"updated", "pull_diverged", "pull_failed"}}

\* A fast-forward belongs to the advance phase, or outlives its call.
MovesAreAdvances ==
  \A t \in Tasks : \A p \in DOMAIN job[t] :
    job[t][p].at = "moving" => phase[t] \in {"advance", "done"}

ServersAreReached ==
  \A t \in Tasks : Telling(t) =>
    \A i \in DOMAIN conf.order :
      /\ conf.order[i] \in Servers
      /\ phase[t] = "poll" => i < turn[t]
      => Reached(t, conf.order[i])

OffersAreAccounted ==
  \A t \in Tasks : Telling(t) /\ phase[t] # "poll" =>
    \A o \in offers[t] :
      Accounted(t, o) \/ (phase[t] = "fetch" /\ <<o.remote, o.group>> \in DOMAIN job[t])

\* The fast-forward of g is still to come.
Ahead(t, g) ==
  \/ phase[t] \in {"poll", "fetch"}
  \/ phase[t] = "advance" /\ <<conf.default, g>> \in DOMAIN job[t]
PullsAreTold ==
  \A t \in Tasks : Telling(t) /\ call[t].op # "fetch" =>
    \A g \in Groups :
      IF Ahead(t, g) THEN Told(t, g) = {}
      ELSE Asked(t, g) => \E o : Told(t, g) = {o}

\* The turn of a call, and what it has running.
CallsRun ==
  /\ turn \in [Tasks -> Nat \ {0}]
  /\ \A t \in Tasks :
       /\ \A p \in DOMAIN job[t] : job[t][p].at \in {"waiting", "pointed", "moving"}
       /\ IsFiniteSet(Running(t)) /\ Cardinality(Running(t)) <= MaxTransfers

\* The rest of the type of the state.
WorldOK ==
  /\ IndexTypeOK
  /\ origin \in [Groups -> Remotes \union {NoRemote}]
  /\ made \subseteq Edits
  /\ phase \in [Tasks -> {"poll", "fetch", "advance", "pick", "push", "done"}]
  /\ faults \in 0..MaxFaults

ReportInv ==
  /\ CallsRun /\ MovesAreAdvances /\ ServersAreReached /\ OffersAreAccounted /\ PullsAreTold

-----------------------------------------------------------------------------
(* Steps, seen from one call *)

\* Nothing of the call of u changes.
Untouched(u) ==
  /\ phase'[u] = phase[u] /\ turn'[u] = turn[u] /\ offers'[u] = offers[u]
  /\ job'[u] = job[u] /\ report'[u] = report[u]

\* A step that is not of the call of u leaves it alone.
LEMMA OthersLeaveAlone ==
  ASSUME CallsOK, CallsRun, [Next]_vars, NEW u \in Tasks, ~CallStep(u)
  PROVE  Untouched(u)
<1>0. turn \in [Tasks -> Nat \ {0}]
  BY DEF CallsRun
<1>1. ASSUME NEW t \in Tasks, CallStep(t) PROVE Untouched(u)
  <2>0. t # u
    BY <1>1
  <2>1. phase'[u] = phase[u]
    BY <1>1, <2>0, CallCases DEF Poll, Gather, Fetched, Pulled, Pick, Picked, Pushed, Timeout, PointOrigin,
       Fetch, FetchFails, Advance, Move, AdvanceFails, StartPush, Push, PushFails, EnterPhase, CallsOK
  <2>2. turn'[u] = turn[u]
    BY <1>0, <1>1, <2>0, CallCases DEF Poll, Gather, Fetched, Pulled, Pick, Picked, Pushed, Timeout, PointOrigin,
       Fetch, FetchFails, Advance, Move, AdvanceFails, StartPush, Push, PushFails
  <2>3. offers'[u] = offers[u]
    BY <1>1, <2>0, CallCases DEF Poll, Gather, Fetched, Pulled, Pick, Picked, Pushed, Timeout, PointOrigin,
       Fetch, FetchFails, Advance, Move, AdvanceFails, StartPush, Push, PushFails, CallsOK
  <2>4. job'[u] = job[u]
    <3>1. CASE Poll(t) \/ Gather(t) \/ Fetched(t) \/ Pulled(t) \/ Pick(t) \/ Picked(t) \/ Pushed(t) \/ Timeout(t)
      BY <2>0, <3>1 DEF Poll, Gather, Fetched, Pulled, Pick, Picked, Pushed, Timeout, EnterPhase, CallsOK
    <3>2. ASSUME NEW p, \/ PointOrigin(t, p) \/ Fetch(t, p) \/ FetchFails(t, p)
                        \/ AdvanceFails(t, p) \/ Push(t, p) \/ PushFails(t, p)
          PROVE  job'[u] = job[u]
      BY <2>0, <3>2 DEF PointOrigin, Fetch, FetchFails, AdvanceFails, Push, PushFails, End, Take, CallsOK
    <3>3. ASSUME NEW p, Advance(t, p) \/ Move(t, p) \/ StartPush(t, p)
          PROVE  job'[u] = job[u]
      BY <2>0, <3>3 DEF Advance, Move, StartPush, End, Take, CallsOK
    <3> QED
      BY <1>1, <3>1, <3>2, <3>3, CallCases
  <2>5. report'[u] = report[u]
    <3>1. CASE Poll(t) \/ Gather(t) \/ Fetched(t) \/ Pulled(t) \/ Pick(t) \/ Picked(t) \/ Pushed(t) \/ Timeout(t)
      BY <2>0, <3>1 DEF Poll, Gather, Fetched, Pulled, Pick, Picked, Pushed, Timeout, CallsOK
    <3>2. ASSUME NEW p, \/ PointOrigin(t, p) \/ Fetch(t, p) \/ FetchFails(t, p)
                        \/ AdvanceFails(t, p) \/ Push(t, p) \/ PushFails(t, p)
          PROVE  report'[u] = report[u]
      BY <2>0, <3>2 DEF PointOrigin, Fetch, FetchFails, AdvanceFails, Push, PushFails, End, CallsOK
    <3>3. ASSUME NEW p, Advance(t, p) \/ Move(t, p) \/ StartPush(t, p)
          PROVE  report'[u] = report[u]
      BY <2>0, <3>3 DEF Advance, Move, StartPush, End, CallsOK
    <3> QED
      BY <1>1, <3>1, <3>2, <3>3, CallCases
  <2> QED
    BY <2>1, <2>2, <2>3, <2>4, <2>5 DEF Untouched
<1>2. CASE WorldStep
  BY <1>2 DEF WorldStep, Edit, PeerPush, Untouched
<1>3. CASE UNCHANGED vars \/ UNCHANGED syncVars
  BY <1>3 DEF vars, syncVars, Untouched
<1> QED
  BY <1>1, <1>2, <1>3, StepCases

\* What the transfers of a phase can come to.
FetchEnds == {"fetched", "skipped", "fetch_failed"}
AdvanceEnds == {"updated", "pull_diverged", "pull_failed"}
PushEnds == {"pushed", "push_diverged", "not_transferred", "push_failed",
             "out_of_scope", "contended", "not_indexed"}

Starts(u, p) ==
  /\ job[u][p].at = "waiting" /\ Room(u) /\ report' = report
  /\ \E at \in {"pointed", "moving"} : \E base, to :
       Take(u, p, at, base, to) /\ (at = "moving" => phase[u] = "advance")
Ends(u, p) ==
  \E what, tip :
    /\ End(u, p, what, tip)
    /\ \/ phase[u] = "fetch" /\ what \in FetchEnds
       \/ phase[u] = "advance" /\ what \in AdvanceEnds
       \/ phase[u] = "push" /\ what \in PushEnds
Outlives(u, p) ==
  /\ phase[u] = "done" /\ report' = report
  /\ job' = [job EXCEPT ![u] = [q \in DOMAIN @ \ {p} |-> @[q]]]

\* A transfer starts, ends as its phase has it, or ends after its call.
LEMMA TransferCases ==
  ASSUME MovesAreAdvances, NEW u \in Tasks, NEW p \in DOMAIN job[u],
         \/ PointOrigin(u, p) \/ Fetch(u, p) \/ FetchFails(u, p)
         \/ Advance(u, p) \/ Move(u, p) \/ AdvanceFails(u, p)
         \/ StartPush(u, p) \/ Push(u, p) \/ PushFails(u, p)
  PROVE  /\ phase' = phase /\ turn' = turn /\ offers' = offers
         /\ Starts(u, p) \/ Ends(u, p) \/ Outlives(u, p)
<1>1. phase' = phase /\ turn' = turn /\ offers' = offers
  BY DEF PointOrigin, Fetch, FetchFails, Advance, Move, AdvanceFails, StartPush, Push, PushFails
<1>2. CASE PointOrigin(u, p)
  BY <1>2 DEF PointOrigin, Starts
<1>3. CASE Fetch(u, p) \/ FetchFails(u, p)
  <2>1. phase[u] = "fetch"
    BY <1>3 DEF Fetch, FetchFails
  <2>2. \E what \in FetchEnds : \E tip : End(u, p, what, tip)
    BY <1>3 DEF Fetch, FetchFails, FetchEnds
  <2> QED
    BY <1>1, <2>1, <2>2 DEF Ends
<1>4. CASE Advance(u, p)
  <2>1. /\ phase[u] = "advance" /\ job[u][p].at = "waiting" /\ Room(u)
        /\ \/ \E what \in AdvanceEnds : \E tip : End(u, p, what, tip)
           \/ \E base, to : Take(u, p, "moving", base, to) /\ report' = report
    BY <1>4 DEF Advance, AdvanceEnds
  <2> QED
    BY <1>1, <2>1 DEF Ends, Starts
<1>5. CASE Move(u, p)
  <2>1. phase[u] = "advance" \/ phase[u] = "done"
    BY <1>5 DEF Move, MovesAreAdvances
  <2>2. CASE phase[u] = "done"
    BY <1>1, <1>5, <2>2 DEF Move, Outlives
  <2>3. CASE phase[u] = "advance"
    BY <1>1, <1>5, <2>3 DEF Move, Ends, AdvanceEnds
  <2> QED
    BY <2>1, <2>2, <2>3
<1>6. CASE AdvanceFails(u, p)
  BY <1>1, <1>6 DEF AdvanceFails, Ends, AdvanceEnds
<1>7. CASE StartPush(u, p)
  <2>1. /\ phase[u] = "push" /\ job[u][p].at = "waiting" /\ Room(u)
        /\ \/ \E what \in PushEnds : \E tip : End(u, p, what, tip)
           \/ Take(u, p, "pointed", <<>>, <<>>) /\ report' = report
    BY <1>7 DEF StartPush, PushEnds
  <2> QED
    BY <1>1, <2>1 DEF Ends, Starts
<1>8. CASE Push(u, p) \/ PushFails(u, p)
  <2>1. phase[u] = "push"
    BY <1>8 DEF Push, PushFails
  <2>2. \E what \in PushEnds : \E tip : End(u, p, what, tip)
    BY <1>8 DEF Push, PushFails, PushEnds
  <2> QED
    BY <1>1, <2>1, <2>2 DEF Ends
<1> QED
  BY <1>1, <1>2, <1>3, <1>4, <1>5, <1>6, <1>7, <1>8

\* A call does nothing to itself, or takes one of these steps.
LEMMA OwnCases ==
  ASSUME CallsOK, CallsRun, MovesAreAdvances, [Next]_vars, NEW u \in Tasks
  PROVE  \/ Untouched(u)
         \/ Poll(u) \/ Gather(u) \/ Fetched(u) \/ Pulled(u) \/ Pick(u) \/ Picked(u)
         \/ Pushed(u) \/ Timeout(u)
         \/ \E p \in DOMAIN job[u] :
              /\ phase' = phase /\ turn' = turn /\ offers' = offers
              /\ Starts(u, p) \/ Ends(u, p) \/ Outlives(u, p)
BY OthersLeaveAlone, CallCases, TransferCases

\* What a call learned is not forgotten, unless it times out.
LEMMA CallsRemember ==
  ASSUME CallsOK, CallsRun, MovesAreAdvances, [Next]_vars, NEW u \in Tasks, Telling(u)'
  PROVE  /\ Telling(u) /\ ~Timeout(u)
         /\ report[u] \subseteq report'[u] /\ offers[u] \subseteq offers'[u]
<1>1. ~Timeout(u)
  <2>1. Timeout(u) => Outcome("timeout", NoRemote, NoGroup, <<>>) \in report'[u]
    BY DEF Timeout, CallsOK
  <2> QED
    BY <2>1 DEF Telling, Reported, Outcome
<1>2. report[u] \subseteq report'[u]
  <2>1. CASE Poll(u) \/ Gather(u) \/ Fetched(u) \/ Pulled(u) \/ Pick(u) \/ Picked(u) \/ Pushed(u)
    BY ZenonT(60), <2>1 DEF Poll, Gather, Fetched, Pulled, Pick, Picked, Pushed, CallsOK
  <2>2. ASSUME NEW p, Starts(u, p) \/ Ends(u, p) \/ Outlives(u, p)
        PROVE  report[u] \subseteq report'[u]
    BY <2>2 DEF Starts, Ends, Outlives, End, CallsOK
  <2> QED
    BY <1>1, <2>1, <2>2, OwnCases DEF Untouched
<1>3. offers[u] \subseteq offers'[u]
  BY <1>1, OwnCases DEF Untouched, Poll, Gather, Fetched, Pulled, Pick, Picked, Pushed, CallsOK
<1>4. Telling(u)
  BY <1>2, ConfIsKept DEF Telling, Reported
<1> QED
  BY <1>1, <1>2, <1>3, <1>4

-----------------------------------------------------------------------------
(* What runs *)

\* A call whose transfers only go away runs no more than before.
LEMMA FewerTransfersRun ==
  ASSUME CallsRun, NEW u \in Tasks, DOMAIN job'[u] \subseteq DOMAIN job[u],
         \A p \in DOMAIN job'[u] : job'[u][p] = job[u][p]
  PROVE  /\ \A p \in DOMAIN job'[u] : job'[u][p].at \in {"waiting", "pointed", "moving"}
         /\ IsFiniteSet(Running(u)') /\ Cardinality(Running(u)') <= MaxTransfers
<1>1. Running(u)' \subseteq Running(u)
  BY DEF Running
<1>2. /\ IsFiniteSet(Running(u)) /\ Cardinality(Running(u)) <= MaxTransfers
      /\ Cardinality(Running(u)) \in Nat
  BY FS_CardinalityType DEF CallsRun
<1>3. IsFiniteSet(Running(u)') /\ Cardinality(Running(u)') <= Cardinality(Running(u))
  BY <1>1, <1>2, FS_Subset
<1>4. Cardinality(Running(u)') \in Nat
  BY <1>3, FS_CardinalityType
<1>5. Cardinality(Running(u)') <= MaxTransfers
  BY <1>2, <1>3, <1>4, TransfersAssumption
<1>6. \A p \in DOMAIN job'[u] : job'[u][p].at \in {"waiting", "pointed", "moving"}
  BY DEF CallsRun
<1> QED
  BY <1>3, <1>5, <1>6

\* A call never runs more than its share of transfers.
LEMMA SharesAreKept ==
  ASSUME SyncInv, CallsRun, MovesAreAdvances, [Next]_vars
  PROVE  CallsRun'
<1>0. CallsOK
  BY DEF SyncInv
<1>1. turn' \in [Tasks -> Nat \ {0}]
  <2>0. turn \in [Tasks -> Nat \ {0}]
    BY DEF CallsRun
  <2>1. ASSUME NEW t \in Tasks, CallStep(t) PROVE turn' \in [Tasks -> Nat \ {0}]
    <3>1. \A i \in DOMAIN conf.order : i \in Nat \ {0}
      BY LenProperties DEF SyncInv, ConfOK
    <3>2. CASE Poll(t) \/ Pick(t)
      <4>1. \E i \in DOMAIN conf.order : turn' = [turn EXCEPT ![t] = i + 1] \/ turn' = [turn EXCEPT ![t] = i]
        BY <3>2 DEF Poll, Pick
      <4> QED
        BY <2>0, <3>1, <4>1
    <3>3. CASE Pulled(t) \/ Pushed(t)
      BY <2>0, <3>3 DEF Pulled, Pushed
    <3>4. CASE Gather(t) \/ Fetched(t) \/ Picked(t) \/ Timeout(t)
      BY <2>0, <3>4 DEF Gather, Fetched, Picked, Timeout
    <3> QED
      BY <2>0, <2>1, <3>2, <3>3, <3>4, CallCases, TransferCases
  <2>2. CASE WorldStep
    BY <2>0, <2>2 DEF WorldStep, Edit, PeerPush
  <2>3. CASE UNCHANGED vars \/ UNCHANGED syncVars
    BY <2>0, <2>3 DEF vars, syncVars
  <2> QED
    BY <2>1, <2>2, <2>3, StepCases
<1> DEFINE Fits(u) == /\ \A p \in DOMAIN job'[u] : job'[u][p].at \in {"waiting", "pointed", "moving"}
                      /\ IsFiniteSet(Running(u)') /\ Cardinality(Running(u)') <= MaxTransfers
<1>2. ASSUME NEW u \in Tasks PROVE Fits(u)
  <2>1. ASSUME DOMAIN job'[u] \subseteq DOMAIN job[u], \A p \in DOMAIN job'[u] : job'[u][p] = job[u][p]
        PROVE  Fits(u)
    BY <2>1, FewerTransfersRun
  <2>2. CASE Untouched(u) \/ Poll(u) \/ Timeout(u)
    BY <1>0, <2>1, <2>2 DEF Untouched, Poll, Timeout, CallsOK
  <2>3. CASE Gather(u) \/ Fetched(u) \/ Pulled(u) \/ Pick(u) \/ Picked(u) \/ Pushed(u)
    <3>1. PICK ph, pairs : EnterPhase(u, ph, pairs)
      BY <2>3, PhasesBeginBound
    <3>2. job'[u] = Jobs(pairs)
      BY <1>0, <3>1 DEF EnterPhase, CallsOK
    <3>3. Running(u)' = {}
      BY <3>2 DEF Running, Jobs, Waiting, Stage
    <3>4. \A p \in DOMAIN job'[u] : job'[u][p].at = "waiting"
      BY <3>2 DEF Jobs, Waiting, Stage
    <3> QED
      BY <3>3, <3>4, FS_EmptySet, TransfersAssumption
  <2>4. ASSUME NEW p \in DOMAIN job[u], Ends(u, p) \/ Outlives(u, p) PROVE Fits(u)
    BY <1>0, <2>1, <2>4 DEF Ends, Outlives, End, CallsOK
  <2>5. ASSUME NEW p \in DOMAIN job[u], Starts(u, p) PROVE Fits(u)
    <3>1. PICK at, base, to : at \in {"pointed", "moving"} /\ Take(u, p, at, base, to)
      BY <2>5 DEF Starts
    <3>2. job'[u] = [job[u] EXCEPT ![p] = Stage(at, base, to)]
      BY <1>0, <3>1 DEF Take, CallsOK
    <3>3. Running(u)' \subseteq Running(u) \union {p}
      BY <3>2 DEF Running
    <3>4. IsFiniteSet(Running(u)) /\ Cardinality(Running(u)) < MaxTransfers
      BY <2>5 DEF CallsRun, Starts, Room
    <3>5. /\ IsFiniteSet(Running(u) \union {p}) /\ Cardinality(Running(u)) \in Nat
          /\ \/ Cardinality(Running(u) \union {p}) = Cardinality(Running(u))
             \/ Cardinality(Running(u) \union {p}) = Cardinality(Running(u)) + 1
      <4>1. IsFiniteSet(Running(u) \cup {p})
            /\ Cardinality(Running(u) \cup {p}) =
                 IF p \in Running(u) THEN Cardinality(Running(u)) ELSE Cardinality(Running(u)) + 1
        BY <3>4, FS_AddElement
      <4> QED
        BY <3>4, <4>1, FS_CardinalityType
    <3>6. /\ IsFiniteSet(Running(u)')
          /\ Cardinality(Running(u)') <= Cardinality(Running(u) \union {p})
      BY <3>3, <3>5, FS_Subset
    <3>7. Cardinality(Running(u)') \in Nat /\ Cardinality(Running(u) \union {p}) \in Nat
      BY <3>5, <3>6, FS_CardinalityType
    <3>8. Cardinality(Running(u)') <= MaxTransfers
      BY <3>4, <3>5, <3>6, <3>7, TransfersAssumption
    <3>9. \A q \in DOMAIN job'[u] : job'[u][q].at \in {"waiting", "pointed", "moving"}
      BY <3>1, <3>2 DEF CallsRun, Stage
    <3> QED
      BY <3>6, <3>8, <3>9
  <2> QED
    BY <1>0, <2>2, <2>3, <2>4, <2>5, OwnCases
<1> QED
  BY <1>1, <1>2 DEF CallsRun

\* Fast-forwards keep to their phase.
LEMMA MovesStayAdvances ==
  ASSUME CallsOK, CallsRun, MovesAreAdvances, SyncInv, [Next]_vars
  PROVE  MovesAreAdvances'
<1>1. SUFFICES ASSUME NEW u \in Tasks, NEW p \in DOMAIN job'[u], job'[u][p].at = "moving"
               PROVE  phase'[u] \in {"advance", "done"}
  BY DEF MovesAreAdvances
<1>2. CASE Untouched(u) \/ Poll(u)
  BY <1>1, <1>2 DEF Untouched, Poll, MovesAreAdvances
<1>3. CASE Gather(u) \/ Fetched(u) \/ Pulled(u) \/ Pick(u) \/ Picked(u) \/ Pushed(u)
  <2>1. PICK ph, pairs : EnterPhase(u, ph, pairs)
    BY <1>3, PhasesBeginBound
  <2> QED
    BY <1>1, <2>1 DEF EnterPhase, CallsOK, Jobs, Waiting, Stage
<1>4. CASE Timeout(u)
  BY <1>4 DEF Timeout, CallsOK
<1>5. ASSUME NEW q \in DOMAIN job[u], phase' = phase, Ends(u, q) \/ Outlives(u, q)
      PROVE  phase'[u] \in {"advance", "done"}
  <2>1. p \in DOMAIN job[u] /\ job'[u][p] = job[u][p]
    BY <1>5 DEF Ends, Outlives, End, CallsOK
  <2> QED
    BY <1>1, <1>5, <2>1 DEF MovesAreAdvances
<1>6. ASSUME NEW q \in DOMAIN job[u], phase' = phase, Starts(u, q)
      PROVE  phase'[u] \in {"advance", "done"}
  <2>1. PICK at, base, to : Take(u, q, at, base, to) /\ (at = "moving" => phase[u] = "advance")
    BY <1>6 DEF Starts
  <2>2. p \in DOMAIN job[u] /\ (job'[u][p] = job[u][p] \/ job'[u][p] = Stage(at, base, to))
    BY <2>1, TakingMoves
  <2> QED
    BY <1>1, <1>6, <2>1, <2>2 DEF MovesAreAdvances, Stage
<1> QED
  BY <1>2, <1>3, <1>4, <1>5, <1>6, OwnCases
-----------------------------------------------------------------------------
(* What is told *)

\* What is settled stays settled while the call tells.
LEMMA SettledStays ==
  ASSUME CallsOK, CallsRun, MovesAreAdvances, [Next]_vars, NEW u \in Tasks, Telling(u)'
  PROVE  /\ \A what, r, g : Reported(u, what, r, g) => Reported(u, what, r, g)'
         /\ \A r : Reached(u, r) => Reached(u, r)'
         /\ \A o : Accounted(u, o) => Accounted(u, o)'
<1>1. /\ report[u] \subseteq report'[u] /\ offers[u] \subseteq offers'[u]
      /\ conf' = conf /\ call' = call
  BY CallsRemember, ConfIsKept
<1>2. \A what, r, g : Reported(u, what, r, g) => Reported(u, what, r, g)'
  BY <1>1 DEF Reported
<1>3. \A r : Reached(u, r) => Reached(u, r)'
  BY <1>1, <1>2 DEF Reached
<1>4. \A o : Accounted(u, o) => Accounted(u, o)'
  BY <1>1, <1>2 DEF Accounted, Matches
<1> QED
  BY <1>2, <1>3, <1>4

\* A server is settled when its turn to be polled is over.
LEMMA ServersStayReached ==
  ASSUME SyncInv, ReportInv, [Next]_vars
  PROVE  ServersAreReached'
<1>0. CallsOK /\ CallsRun /\ MovesAreAdvances /\ ServersAreReached
  BY DEF SyncInv, ReportInv
<1>1. /\ conf' = conf /\ Servers' = Servers
      /\ \A i \in DOMAIN conf.order : i \in Nat
  BY ConfIsKept, LenProperties DEF Servers, SyncInv, ConfOK
<1>2. SUFFICES ASSUME NEW u \in Tasks, Telling(u)', NEW i \in DOMAIN conf.order,
                      conf.order[i] \in Servers, phase'[u] = "poll" => i < turn'[u]
               PROVE  Reached(u, conf.order[i])'
  BY <1>1 DEF ServersAreReached
<1>3. /\ Telling(u) /\ ~Timeout(u)
      /\ Reached(u, conf.order[i]) => Reached(u, conf.order[i])'
  BY <1>0, <1>1, <1>2, CallsRemember, SettledStays
<1>4. (phase[u] = "poll" => i < turn[u]) => Reached(u, conf.order[i])
  BY <1>0, <1>2, <1>3 DEF ServersAreReached
<1>5. turn[u] \in Nat
  BY <1>0 DEF CallsRun
<1>6. CASE Untouched(u)
  BY <1>2, <1>3, <1>4, <1>6 DEF Untouched
<1>7. CASE Poll(u)
  <2>1. PICK j \in DOMAIN conf.order :
          /\ First(u, Servers, j) /\ turn' = [turn EXCEPT ![u] = j + 1]
          /\ \/ offers' = [offers EXCEPT ![u] = @ \union
                             {[remote |-> conf.order[j], group |-> g, tip |-> head[conf.order[j]][g]] :
                                g \in conf.hosts[conf.order[j]]}]
             \/ report' = [report EXCEPT ![u] = @ \union
                             {Outcome("unreachable", conf.order[j], NoGroup, <<>>)}]
    BY <1>7 DEF Poll
  <2>2. Reached(u, conf.order[j])'
    <3>1. CASE report' = [report EXCEPT ![u] = @ \union {Outcome("unreachable", conf.order[j], NoGroup, <<>>)}]
      <4>1. Outcome("unreachable", conf.order[j], NoGroup, <<>>) \in report'[u]
        BY <1>0, <3>1 DEF CallsOK
      <4>2. Reported(u, "unreachable", conf.order[j], NoGroup)'
        BY <1>1, <4>1 DEF Reported, Outcome
      <4> QED
        BY <1>1, <4>2 DEF Reached
    <3>2. CASE offers' = [offers EXCEPT ![u] = @ \union
                             {[remote |-> conf.order[j], group |-> g, tip |-> head[conf.order[j]][g]] :
                                g \in conf.hosts[conf.order[j]]}]
      <4>1. \A g \in conf.hosts[conf.order[j]] :
              [remote |-> conf.order[j], group |-> g, tip |-> head[conf.order[j]][g]] \in offers'[u]
        BY <1>0, <3>2 DEF CallsOK
      <4>2. \A g \in conf.hosts[conf.order[j]] : \E o \in offers'[u] : o.remote = conf.order[j] /\ o.group = g
        BY <4>1
      <4> QED
        BY <1>1, <4>2 DEF Reached
    <3> QED
      BY <2>1, <3>1, <3>2
  <2>3. turn'[u] = j + 1 /\ phase'[u] = "poll"
    BY <1>0, <1>7, <2>1 DEF Poll, CallsRun
  <2>4. CASE i = j
    BY <2>2, <2>4
  <2>5. CASE i # j
    <3>1. i < j
      BY <1>1, <1>2, <2>3, <2>5
    <3>2. i < turn[u]
      BY <1>1, <1>2, <1>5, <2>1, <3>1 DEF First, Left
    <3> QED
      BY <1>3, <1>4, <3>2
  <2> QED
    BY <2>4, <2>5
<1>8. CASE Gather(u)
  <2>1. Left(u, Servers) = {}
    BY <1>8 DEF Gather
  <2>2. i < turn[u]
    BY <1>1, <1>2, <1>5, <2>1 DEF Left
  <2> QED
    BY <1>3, <1>4, <2>2
<1>9. CASE Fetched(u) \/ Pulled(u) \/ Pick(u) \/ Picked(u) \/ Pushed(u)
  BY <1>3, <1>4, <1>9 DEF Fetched, Pulled, Pick, Picked, Pushed
<1>10. CASE phase' = phase /\ turn' = turn
  BY <1>2, <1>3, <1>4, <1>10
<1> QED
  BY <1>0, <1>3, <1>6, <1>7, <1>8, <1>9, <1>10, OwnCases

\* A transfer that ends is reported, and nothing else is forgotten.
LEMMA EndingTells ==
  ASSUME CallsOK, NEW u \in Tasks, NEW p, NEW what, NEW tip, End(u, p, what, tip)
  PROVE  /\ DOMAIN job'[u] = DOMAIN job[u] \ {p}
         /\ report'[u] = report[u] \union {Outcome(what, p[1], p[2], tip)}
BY DEF CallsOK, End

\* An offer is new, is filtered out, or is settled with its transfer.
LEMMA OffersStayAccounted ==
  ASSUME SyncInv, ReportInv, [Next]_vars
  PROVE  OffersAreAccounted'
<1>0. CallsOK /\ CallsRun /\ MovesAreAdvances /\ OffersAreAccounted
  BY DEF SyncInv, ReportInv
<1>1. SUFFICES ASSUME NEW u \in Tasks, Telling(u)', phase'[u] # "poll", NEW o \in offers'[u]
               PROVE  Accounted(u, o)' \/ (phase'[u] = "fetch" /\ <<o.remote, o.group>> \in DOMAIN job'[u])
  BY DEF OffersAreAccounted
<1>2. Telling(u) /\ ~Timeout(u) /\ (Accounted(u, o) => Accounted(u, o)')
  BY <1>0, <1>1, CallsRemember, SettledStays
<1>3. ASSUME o \in offers[u], phase[u] # "poll"
      PROVE  Accounted(u, o) \/ (phase[u] = "fetch" /\ <<o.remote, o.group>> \in DOMAIN job[u])
  BY <1>0, <1>2, <1>3 DEF OffersAreAccounted
<1>4. CASE Untouched(u)
  BY <1>1, <1>2, <1>3, <1>4 DEF Untouched
<1>5. CASE Poll(u)
  BY <1>1, <1>5 DEF Poll
<1>6. CASE Gather(u)
  <2> DEFINE offered == {<<x.remote, x.group>> : x \in offers[u]}
             pairs == offered \union {<<r, Bound(r)>> : r \in Direct}
  <2>1. o \in offers[u] /\ <<o.remote, o.group>> \in offered
    BY <1>1, <1>6 DEF Gather
  <2>2. PICK missed, unmatched :
          /\ EnterPhase(u, "fetch", {p \in {q \in pairs \ missed : q[2] \in index} :
                                       Matches(call[u].filter, p[2], p \in unmatched)})
          /\ report' = [report EXCEPT ![u] = @ \union
               {Outcome("new", NoRemote, p[2], <<>>) : p \in offered \ {q \in pairs \ missed : q[2] \in index}}]
    BY <1>6 DEF Gather
  <2> DEFINE known == {q \in pairs \ missed : q[2] \in index}
             pair == <<o.remote, o.group>>
  <2>3. CASE pair \notin known
    <3>1. Outcome("new", NoRemote, o.group, <<>>) \in report'[u]
      BY <1>0, <2>1, <2>2, <2>3 DEF CallsOK
    <3> QED
      BY <3>1 DEF Accounted, Reported, Outcome
  <2>4. CASE pair \in known
    <3>1. phase'[u] = "fetch" /\ DOMAIN job'[u] = {p \in known : Matches(call[u].filter, p[2], p \in unmatched)}
      BY <1>0, <2>2 DEF EnterPhase, Jobs, CallsOK
    <3>2. CASE Matches(call[u].filter, o.group, pair \in unmatched)
      BY <2>4, <3>1, <3>2
    <3>3. CASE ~Matches(call[u].filter, o.group, pair \in unmatched)
      <4>1. Accounted(u, o)
        BY <3>3 DEF Accounted, Matches
      <4> QED
        BY <1>2, <4>1
    <3> QED
      BY <3>2, <3>3
  <2> QED
    BY <2>3, <2>4
<1>7. CASE Fetched(u) \/ Pulled(u) \/ Pick(u) \/ Picked(u) \/ Pushed(u)
  BY <1>1, <1>2, <1>3, <1>7 DEF Fetched, Pulled, Pick, Picked, Pushed
<1>8. ASSUME NEW p \in DOMAIN job[u], phase' = phase, offers' = offers, Starts(u, p) \/ Outlives(u, p)
      PROVE  Accounted(u, o)' \/ (phase'[u] = "fetch" /\ <<o.remote, o.group>> \in DOMAIN job'[u])
  <2>1. phase[u] = "done" \/ DOMAIN job'[u] = DOMAIN job[u]
    BY <1>0, <1>8 DEF Starts, Outlives, Take, CallsOK
  <2> QED
    BY <1>1, <1>2, <1>3, <1>8, <2>1
<1>9. ASSUME NEW p \in DOMAIN job[u], phase' = phase, offers' = offers, Ends(u, p)
      PROVE  Accounted(u, o)' \/ (phase'[u] = "fetch" /\ <<o.remote, o.group>> \in DOMAIN job'[u])
  <2>1. PICK what, tip : End(u, p, what, tip) /\ (phase[u] = "fetch" => what \in FetchEnds)
    BY <1>9 DEF Ends, FetchEnds, AdvanceEnds, PushEnds
  <2>2. /\ DOMAIN job'[u] = DOMAIN job[u] \ {p}
        /\ Outcome(what, p[1], p[2], tip) \in report'[u]
    BY <1>0, <2>1, EndingTells
  <2>3. CASE phase[u] = "fetch" /\ p = <<o.remote, o.group>>
    <3>1. Reported(u, what, o.remote, o.group)'
      BY <2>2, <2>3 DEF Reported, Outcome
    <3> QED
      BY <2>1, <2>3, <3>1 DEF Accounted, FetchEnds
  <2>4. CASE ~(phase[u] = "fetch" /\ p = <<o.remote, o.group>>)
    BY <1>1, <1>2, <1>3, <1>9, <2>2, <2>4
  <2> QED
    BY <2>3, <2>4
<1> QED
  BY <1>0, <1>2, <1>4, <1>5, <1>6, <1>7, <1>8, <1>9, OwnCases
\* Outcomes of other kinds, or of other groups, tell nothing of the pull of g.
LEMMA OthersTellNothing ==
  ASSUME NEW u \in Tasks, NEW g, conf' = conf, report[u] \subseteq report'[u],
         \A o \in report'[u] \ report[u] : o.what \notin AdvanceEnds \/ o.remote # conf.default \/ o.group # g
  PROVE  Told(u, g)' = Told(u, g)
BY DEF Told, AdvanceEnds

\* After the fetches nothing more is asked of the default remote.
LEMMA NothingElseIsAsked ==
  ASSUME NEW u \in Tasks, NEW g, conf' = conf, report[u] \subseteq report'[u],
         \A o \in report'[u] \ report[u] : o.what \notin {"fetched", "skipped"}
  PROVE  Asked(u, g)' => Asked(u, g)
BY DEF Asked, Reported

\* A pull tells exactly one thing of each group it asked the default remote for.
LEMMA PullsStayTold ==
  ASSUME SyncInv, ReportInv, [Next]_vars
  PROVE  PullsAreTold'
<1>0. CallsOK /\ CallsRun /\ MovesAreAdvances /\ PullsAreTold
  BY DEF SyncInv, ReportInv
<1>1. conf' = conf /\ call' = call
  BY ConfIsKept
<1> DEFINE Fine(u, g) == IF Ahead(u, g) THEN Told(u, g) = {}
                         ELSE Asked(u, g) => \E o : Told(u, g) = {o}
<1>2. SUFFICES ASSUME NEW u \in Tasks, Telling(u)', call[u].op # "fetch", NEW g \in Groups
               PROVE  Fine(u, g)'
  BY <1>1 DEF PullsAreTold
<1>3. ~Timeout(u) /\ Fine(u, g)
  BY <1>0, <1>2, CallsRemember DEF PullsAreTold
<1>4. CASE Untouched(u)
  BY <1>1, <1>3, <1>4 DEF Untouched, Ahead, Told, Asked, Reported
<1>5. CASE Poll(u)
  <2>1. report[u] \subseteq report'[u] /\ \A o \in report'[u] \ report[u] : o.what = "unreachable"
    <3>1. report'[u] = report[u] \union {}
          \/ \E r : report'[u] = report[u] \union {Outcome("unreachable", r, NoGroup, <<>>)}
      BY <1>0, <1>5 DEF Poll, CallsOK
    <3>2. \A r : Outcome("unreachable", r, NoGroup, <<>>).what = "unreachable"
      BY DEF Outcome
    <3> QED
      BY <3>1, <3>2
  <2>2. Told(u, g)' = Told(u, g)
    BY <1>1, <2>1, OthersTellNothing DEF AdvanceEnds
  <2>3. Ahead(u, g) /\ Ahead(u, g)'
    BY <1>5 DEF Ahead, Poll
  <2> QED
    BY <1>3, <2>2, <2>3
<1>6. CASE Gather(u)
  <2>1. report[u] \subseteq report'[u] /\ \A o \in report'[u] \ report[u] : o.what = "new"
    <3>1. \E S : report'[u] = report[u] \union {Outcome("new", NoRemote, p[2], <<>>) : p \in S}
      BY <1>0, <1>6 DEF Gather, CallsOK
    <3>2. \A x : Outcome("new", NoRemote, x, <<>>).what = "new"
      BY DEF Outcome
    <3> QED
      BY <3>1, <3>2
  <2>2. Told(u, g)' = Told(u, g)
    BY <1>1, <2>1, OthersTellNothing DEF AdvanceEnds
  <2>3. Ahead(u, g) /\ Ahead(u, g)'
    BY <1>0, <1>6 DEF Ahead, Gather, EnterPhase, CallsOK
  <2> QED
    BY <1>3, <2>2, <2>3
<1>7. CASE Fetched(u)
  <2>1. /\ report' = report /\ phase[u] = "fetch"
        /\ EnterPhase(u, "advance", {<<conf.default, h>> : h \in {k \in Groups : Asked(u, k)}})
    BY <1>2, <1>7 DEF Fetched, Asked
  <2>2. Told(u, g)' = Told(u, g) /\ (Asked(u, g)' <=> Asked(u, g)) /\ Ahead(u, g)
    BY <1>1, <2>1 DEF Told, Asked, Reported, Ahead
  <2>3. Asked(u, g) => Ahead(u, g)'
    BY <1>0, <1>1, <2>1 DEF EnterPhase, Jobs, CallsOK, Ahead
  <2> QED
    BY <1>3, <2>2, <2>3
<1>8. CASE Pulled(u) \/ Pick(u) \/ Pushed(u)
  <2>1. /\ report' = report /\ ~Ahead(u, g) /\ ~Ahead(u, g)'
    BY <1>0, <1>8 DEF Pulled, Pick, Pushed, EnterPhase, Ahead, CallsOK
  <2> QED
    BY <1>1, <1>3, <2>1 DEF Told, Asked, Reported
<1>9. CASE Picked(u)
  <2>1. ~Ahead(u, g) /\ ~Ahead(u, g)'
    BY <1>0, <1>9 DEF Picked, EnterPhase, Ahead, CallsOK
  <2>2. report[u] \subseteq report'[u] /\ \A o \in report'[u] \ report[u] : o.what = "unknown_remote"
    <3>1. report'[u] = report[u] \union {}
          \/ report'[u] = report[u] \union {Outcome("unknown_remote", NoRemote, NoGroup, <<>>)}
      BY <1>0, <1>9 DEF Picked, CallsOK
    <3>2. Outcome("unknown_remote", NoRemote, NoGroup, <<>>).what = "unknown_remote"
      BY DEF Outcome
    <3> QED
      BY <3>1, <3>2
  <2>3. Told(u, g)' = Told(u, g) /\ (Asked(u, g)' => Asked(u, g))
    BY <1>1, <2>2, OthersTellNothing, NothingElseIsAsked DEF AdvanceEnds
  <2> QED
    BY <1>3, <2>1, <2>3
<1>10. ASSUME NEW p \in DOMAIN job[u], phase' = phase, Starts(u, p) \/ Outlives(u, p)
       PROVE  Fine(u, g)'
  <2>1. report' = report /\ (phase[u] = "done" \/ DOMAIN job'[u] = DOMAIN job[u])
    BY <1>0, <1>10 DEF Starts, Outlives, Take, CallsOK
  <2>2. Ahead(u, g)' <=> Ahead(u, g)
    BY <1>1, <1>10, <2>1 DEF Ahead
  <2> QED
    BY <1>1, <1>3, <2>1, <2>2 DEF Told, Asked, Reported
<1>11. ASSUME NEW p \in DOMAIN job[u], phase' = phase, Ends(u, p)
       PROVE  Fine(u, g)'
  <2>1. PICK what, tip :
          /\ End(u, p, what, tip)
          /\ \/ phase[u] = "fetch" /\ what \in FetchEnds
             \/ phase[u] = "advance" /\ what \in AdvanceEnds
             \/ phase[u] = "push" /\ what \in PushEnds
    BY <1>11 DEF Ends
  <2> DEFINE new == Outcome(what, p[1], p[2], tip)
  <2>2. /\ DOMAIN job'[u] = DOMAIN job[u] \ {p}
        /\ report'[u] = report[u] \union {new}
        /\ new.what = what /\ new.remote = p[1] /\ new.group = p[2]
    BY <1>0, <2>1, EndingTells DEF Outcome
  <2>3. CASE phase[u] = "fetch"
    <3>1. Told(u, g)' = Told(u, g)
      BY <1>1, <2>1, <2>2, <2>3, OthersTellNothing DEF FetchEnds, AdvanceEnds
    <3> QED
      BY <1>3, <1>11, <2>3, <3>1 DEF Ahead
  <2>4. CASE phase[u] = "push"
    <3>1. Told(u, g)' = Told(u, g) /\ (Asked(u, g)' => Asked(u, g))
      BY <1>1, <2>1, <2>2, <2>4, OthersTellNothing, NothingElseIsAsked DEF PushEnds, AdvanceEnds
    <3> QED
      BY <1>3, <1>11, <2>4, <3>1 DEF Ahead
  <2>5. CASE phase[u] = "advance" /\ p = <<conf.default, g>>
    <3>1. Told(u, g) = {} /\ ~Ahead(u, g)'
      BY <1>1, <1>3, <1>11, <2>2, <2>5 DEF Ahead
    <3>2. Told(u, g)' = {new}
      BY <1>1, <2>1, <2>2, <2>5, <3>1 DEF Told, AdvanceEnds
    <3> QED
      BY <3>1, <3>2
  <2>6. CASE phase[u] = "advance" /\ p # <<conf.default, g>>
    <3>1. p[1] # conf.default \/ p[2] # g
      BY <1>0, <2>6 DEF CallsOK
    <3>2. Told(u, g)' = Told(u, g) /\ (Asked(u, g)' => Asked(u, g))
      BY <1>1, <2>1, <2>2, <2>6, <3>1, OthersTellNothing, NothingElseIsAsked DEF AdvanceEnds
    <3>3. Ahead(u, g)' <=> Ahead(u, g)
      BY <1>1, <1>11, <2>2, <2>6 DEF Ahead
    <3> QED
      BY <1>3, <3>2, <3>3
  <2> QED
    BY <2>1, <2>3, <2>4, <2>5, <2>6
<1> QED
  BY <1>0, <1>3, <1>4, <1>5, <1>6, <1>7, <1>8, <1>9, <1>10, <1>11, OwnCases

-----------------------------------------------------------------------------
(* The rest of the type *)

\* The rest of the state keeps its type.
LEMMA WorldIsKept ==
  ASSUME SyncInv, CallsRun, MovesAreAdvances, WorldOK, [Next]_vars
  PROVE  WorldOK'
<1>0. CallsOK /\ ConfOK
  BY DEF SyncInv
<1>1. IndexTypeOK'
  <2>1. CASE IndexStep
    <3>1. ASSUME NEW g \in Groups, Appear(g) PROVE IndexTypeOK'
      BY <3>1 DEF WorldOK, IndexTypeOK, Appear
    <3>2. ASSUME NEW k \in Refreshers, Scan(k) \/ Lock(k) \/ Install(k) PROVE IndexTypeOK'
      BY <3>2 DEF WorldOK, IndexTypeOK, Scan, Lock, Install
    <3> QED
      BY <2>1, <3>1, <3>2 DEF IndexStep
  <2>2. CASE UNCHANGED indexVars \/ UNCHANGED vars
    BY <2>2 DEF WorldOK, IndexTypeOK, indexVars, vars
  <2> QED
    BY <2>1, <2>2, StepCases
<1>2. origin' \in [Groups -> Remotes \union {NoRemote}]
  BY <1>0, WhoMovesRefs DEF WorldOK, CallsOK, ConfOK
<1>3. made' \subseteq Edits
  <2>1. ASSUME NEW t \in Tasks, CallStep(t) PROVE made' = made
    BY <2>1, CallCases DEF Poll, Gather, Fetched, Pulled, Pick, Picked, Pushed, Timeout, PointOrigin,
       Fetch, FetchFails, Advance, Move, AdvanceFails, StartPush, Push, PushFails
  <2>2. CASE WorldStep
    BY <2>2 DEF WorldStep, Edit, PeerPush, WorldOK
  <2>3. CASE UNCHANGED vars \/ UNCHANGED syncVars
    BY <2>3 DEF vars, syncVars, WorldOK
  <2> QED
    BY <2>1, <2>2, <2>3, StepCases DEF WorldOK
<1>4. phase' \in [Tasks -> {"poll", "fetch", "advance", "pick", "push", "done"}]
  <2>1. ASSUME NEW t \in Tasks, CallStep(t)
        PROVE  \/ phase' = phase
               \/ \E p \in {"poll", "fetch", "advance", "pick", "push", "done"} : phase' = [phase EXCEPT ![t] = p]
    BY <2>1, CallCases, TransferCases DEF Poll, Gather, Fetched, Pulled, Pick, Picked, Pushed, Timeout, EnterPhase
  <2>2. CASE WorldStep
    BY <2>2 DEF WorldStep, Edit, PeerPush, WorldOK
  <2>3. CASE UNCHANGED vars \/ UNCHANGED syncVars
    BY <2>3 DEF vars, syncVars, WorldOK
  <2> QED
    BY <2>1, <2>2, <2>3, StepCases DEF WorldOK
<1>5. faults' \in 0..MaxFaults
  <2>1. ASSUME NEW t \in Tasks, CallStep(t) PROVE faults' = faults \/ Fault
    BY <2>1, CallCases DEF Poll, Gather, Fetched, Pulled, Pick, Picked, Pushed, Timeout, PointOrigin,
       Fetch, FetchFails, Advance, Move, AdvanceFails, StartPush, Push, PushFails
  <2>2. CASE Fault
    BY <2>2, TransfersAssumption DEF Fault, WorldOK
  <2>3. CASE WorldStep
    BY <2>3 DEF WorldStep, Edit, PeerPush, WorldOK
  <2>4. CASE UNCHANGED vars \/ UNCHANGED syncVars
    BY <2>4 DEF vars, syncVars, WorldOK
  <2> QED
    BY <2>1, <2>2, <2>3, <2>4, StepCases DEF WorldOK
<1> QED
  BY <1>1, <1>2, <1>3, <1>4, <1>5 DEF WorldOK

-----------------------------------------------------------------------------
(* The theorems *)

\* The parts of the report are settled, vacuously, before a call begins.
LEMMA ReportInvInit ==
  ASSUME Init PROVE ReportInv /\ WorldOK
<1>1. PICK s \in Scenarios :
        /\ conf = s.conf /\ IndexInit(s.groups, s.refreshers) /\ call = s.call
  BY DEF Init
<1>2. /\ origin = [g \in Groups |-> NoRemote] /\ made = {} /\ faults = 0
      /\ turn = [t \in Tasks |-> 1] /\ offers = [t \in Tasks |-> {}]
      /\ job = [t \in Tasks |-> NoJobs] /\ report = [t \in Tasks |-> {}]
      /\ phase = [t \in Tasks |-> IF call[t].op = "none" THEN "done"
                                  ELSE IF call[t].op = "push" THEN "pick" ELSE "poll"]
  BY DEF Init
<1>3. \A t \in Tasks : DOMAIN job[t] = {} /\ Running(t) = {}
  BY <1>2 DEF NoJobs, Running
<1>4. CallsRun /\ MovesAreAdvances
  <2>1. \A t \in Tasks : IsFiniteSet(Running(t)) /\ Cardinality(Running(t)) <= MaxTransfers
    BY <1>3, FS_EmptySet, TransfersAssumption
  <2>2. turn \in [Tasks -> Nat \ {0}]
    BY <1>2
  <2> QED
    BY <1>3, <2>1, <2>2 DEF CallsRun, MovesAreAdvances
<1>5. \A t \in Tasks : Telling(t) => phase[t] = "poll"
  BY <1>2 DEF Telling
<1>6. ServersAreReached
  <2>1. \A i \in DOMAIN conf.order : i \in Nat \ {0}
    BY <1>1, ScenariosAssumption, LenProperties
  <2>2. \A t \in Tasks : \A i \in DOMAIN conf.order : ~(i < turn[t])
    BY <1>2, <2>1
  <2> QED
    BY <1>5, <2>2 DEF ServersAreReached
<1>7. OffersAreAccounted
  BY <1>5 DEF OffersAreAccounted
<1>8. PullsAreTold
  BY <1>2, <1>5 DEF PullsAreTold, Ahead, Told
<1>9. WorldOK
  <2>1. IndexTypeOK
    BY <1>1, ScenariosAssumption DEF IndexInit, IndexTypeOK
  <2> QED
    BY <1>2, <2>1, TransfersAssumption DEF WorldOK
<1> QED
  BY <1>4, <1>6, <1>7, <1>8, <1>9 DEF ReportInv

\* The invariant of the reports and of what runs.
THEOREM ReportInvariance == Spec => [](SyncInv /\ ReportInv /\ WorldOK)
<1>1. Init => SyncInv /\ ReportInv /\ WorldOK
  BY SyncInvInit, ReportInvInit
<1>2. SyncInv /\ ReportInv /\ WorldOK /\ [Next]_vars => (SyncInv /\ ReportInv /\ WorldOK)'
  <2> SUFFICES ASSUME SyncInv, ReportInv, WorldOK, [Next]_vars
               PROVE  (SyncInv /\ ReportInv /\ WorldOK)'
    OBVIOUS
  <2>1. CallsOK /\ CallsRun /\ MovesAreAdvances
    BY DEF SyncInv, ReportInv
  <2>2. ReportInv'
    BY <2>1, SharesAreKept, MovesStayAdvances, ServersStayReached, OffersStayAccounted, PullsStayTold
       DEF ReportInv
  <2> QED
    BY <2>1, <2>2, SyncInvStep, WorldIsKept
<1> QED
  BY <1>1, <1>2, PTL DEF Spec

\* The state keeps its type, and however long the queue of transfers is, a call
\* never runs more of them at once than its share.
THEOREM SharesOfTransfers == Spec => []TypeOK
<1>1. ASSUME SyncInv, ReportInv, WorldOK PROVE TypeOK
  <2>1. \A t \in Tasks : DOMAIN job[t] \subseteq Remotes \X Groups
    BY <1>1 DEF SyncInv, CallsOK, ConfOK
  <2> QED
    BY <1>1, <2>1 DEF SyncInv, StoreOK, ReportInv, CallsRun, WorldOK, TypeOK
<1> QED
  BY <1>1, ReportInvariance, PTL

\* A call that ends in time has settled every server, every offer and, when it
\* pulls, every group the default remote was asked for, each exactly once.
THEOREM ReportsAreComplete == Spec => []ReportIsComplete
<1>1. ASSUME ReportInv PROVE ReportIsComplete
  <2>1. SUFFICES ASSUME NEW t \in Tasks, phase[t] = "done", Telling(t)
                 PROVE  /\ \A r \in Servers : Reached(t, r)
                        /\ \A o \in offers[t] : Accounted(t, o)
                        /\ call[t].op \in {"pull", "sync"} =>
                             \A g \in Groups : Asked(t, g) => Cardinality(Told(t, g)) = 1
    BY DEF ReportIsComplete, Telling, Reached, Accounted, Asked, Told
  <2>2. \A r \in Servers : Reached(t, r)
    <3>1. \A r \in Servers : \E i \in DOMAIN conf.order : r = conf.order[i]
      BY DEF Servers, Bindings, ToSet
    <3> QED
      BY <1>1, <2>1, <3>1 DEF ReportInv, ServersAreReached
  <2>3. \A o \in offers[t] : Accounted(t, o)
    BY <1>1, <2>1 DEF ReportInv, OffersAreAccounted
  <2>4. ASSUME call[t].op \in {"pull", "sync"}, NEW g \in Groups, Asked(t, g)
        PROVE  Cardinality(Told(t, g)) = 1
    <3>1. ~Ahead(t, g)
      BY <2>1 DEF Ahead
    <3>2. PICK o : Told(t, g) = {o}
      BY <1>1, <2>1, <2>4, <3>1 DEF ReportInv, PullsAreTold
    <3> QED
      BY <3>2, FS_Singleton
  <2> QED
    BY <2>2, <2>3, <2>4
<1> QED
  BY <1>1, ReportInvariance, PTL
=============================================================================
