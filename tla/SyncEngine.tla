------------------------------ MODULE SyncEngine ------------------------------
(***************************************************************************)
(* The sync engine (crates/mmcp-sync/src/engine/sync_engine.rs): fetch,    *)
(* pull, push and sync of the mirrored groups against several remotes.     *)
(*                                                                         *)
(* A branch is the history it reaches, oldest commit first, and <<>> when  *)
(* it is unborn: an ancestor is a prefix.  The engine runs one git command *)
(* per remote and group, several at a time.  Every one of them goes        *)
(* through the single git remote "origin" of the group's repository, whose *)
(* URL it first sets.                                                      *)
(***************************************************************************)
EXTENDS GroupIndex, Naturals, FiniteSets, Sequences, SequencesExt

CONSTANTS
  Tasks,
  Remotes, NoRemote,
  Here,           \* the author of the commits made on this machine
  Edits,          \* commits that can still be made
  Author, Place,  \* Author[e]: Here, or the remote others push e to; its group
  Scenarios,      \* remotes, mirrored groups, histories and calls to start with
  NoGroup,
  MaxTransfers,   \* MAX_CONCURRENT_GROUP_TRANSFERS
  MaxFaults       \* bound: failures of the network or of a git command

ASSUME TransfersAssumption == MaxTransfers \in Nat \ {0} /\ MaxFaults \in Nat
ASSUME EditsAssumption == Author \in [Edits -> Remotes \union {Here}] /\ Place \in [Edits -> Groups]

VARIABLES
  conf,      \* the remotes of the engine, in order
  main,      \* main[g]: the local main of g
  head,      \* head[r][g]: main of g on remote r
  tracking,  \* tracking[r][g]: refs/remotes/<r>/main in g's repository
  origin,    \* origin[g]: the remote whose URL g's "origin" has
  made,      \* edits made so far
  call,      \* call[t]: the operation, its filter and its scope of remotes
  phase,     \* phase[t]: the part of the operation t is in
  turn,      \* turn[t]: the remote t polls, or pushes to
  offers,    \* offers[t]: what the manifests t read advertise
  job,       \* job[t]: the transfers t has to do, each with its stage
  report,    \* report[t]: the outcomes t reports
  faults

syncVars == <<conf, main, head, tracking, origin, made, call, phase, turn, offers, job, report, faults>>
vars == <<syncVars, indexVars>>

Histories == Seq({"root"} \union Edits)

\* What the wiring of the engine guarantees of a scenario: a default remote among
\* those bound, one group for a direct remote, and groups that are named exist.
ASSUME ScenariosAssumption ==
  \A s \in Scenarios :
    /\ s.groups \subseteq Groups
    /\ s.main \in [Groups -> Histories]
    /\ s.head \in [Remotes -> [Groups -> Histories]]
    /\ s.conf.hosts \in [Remotes -> SUBSET Groups]
    /\ s.conf.order \in Seq(Remotes)
    /\ s.conf.default \in ToSet(s.conf.order)
    /\ \A r \in ToSet(s.conf.order) \ s.conf.servers : \E g \in Groups : g \in s.conf.hosts[r]
    /\ \A t \in Tasks : s.call[t].filter.kind = "group" => s.call[t].filter.group \in Groups

Bindings == ToSet(conf.order)
Servers == Bindings \intersect conf.servers
Direct == Bindings \ conf.servers
Hosts(r, g) == g \in conf.hosts[r]
Bound(r) == CHOOSE g \in Groups : Hosts(r, g)  \* the one group of a direct remote

\* resolve_scope: the remotes a push goes to, none for a name that is unknown.
Targets(scope) ==
  {r \in Bindings : \/ scope = "default" /\ r = conf.default
                    \/ scope = "all" /\ r \in conf.pushAll
                    \/ scope = r}
Unknown(scope) == scope \notin {"default", "all"} /\ Targets(scope) = {}

\* A call goes through some of the remotes in order: those it has yet to see.
Left(t, remotes) == {i \in DOMAIN conf.order : turn[t] <= i /\ conf.order[i] \in remotes}
First(t, remotes, i) == i \in Left(t, remotes) /\ \A j \in Left(t, remotes) : i <= j

\* group_matches; a scope filter asks the index, which may miss the group.
Matches(filter, g, missed) ==
  \/ filter.kind = "all"
  \/ filter.kind = "group" /\ filter.group = g
  \/ filter.kind = "scope" /\ g \in conf.scoped /\ g \in index /\ ~missed

Outcome(what, r, g, tip) == [what |-> what, remote |-> r, group |-> g, tip |-> tip]
Reported(t, what, r, g) ==
  \E o \in report[t] : o.what = what /\ o.remote = r /\ o.group = g
Advertised(t, r, g) ==
  IF \E o \in offers[t] : o.remote = r /\ o.group = g
  THEN (CHOOSE o \in offers[t] : o.remote = r /\ o.group = g).tip
  ELSE <<>>

Stage(at, base, to) == [at |-> at, base |-> base, to |-> to]
Waiting == Stage("waiting", <<>>, <<>>)
Jobs(pairs) == [p \in pairs |-> Waiting]
Running(t) == {p \in DOMAIN job[t] : job[t][p].at # "waiting"}
\* Faulty variant: the jobs that wait for a slot are counted as well.
RoomCountsWaiting(t) == Cardinality(DOMAIN job[t]) < MaxTransfers

Room(t) == Cardinality(Running(t)) < MaxTransfers

NoJobs == [p \in {} |-> Waiting]

\* The state keeps its shape, and however long the queue of transfers is, no
\* more than MaxTransfers of a call run at once.
TypeOK ==
  /\ IndexTypeOK
  /\ main \in [Groups -> Histories]
  /\ head \in [Remotes -> [Groups -> Histories]]
  /\ tracking \in [Remotes -> [Groups -> Histories]]
  /\ origin \in [Groups -> Remotes \union {NoRemote}]
  /\ made \subseteq Edits
  /\ phase \in [Tasks -> {"poll", "fetch", "advance", "pick", "push", "done"}]
  /\ turn \in [Tasks -> Nat \ {0}]
  /\ \A t \in Tasks :
       /\ DOMAIN job[t] \subseteq Remotes \X Groups
       /\ \A p \in DOMAIN job[t] : job[t][p].at \in {"waiting", "pointed", "moving"}
       /\ Cardinality(Running(t)) <= MaxTransfers
  /\ faults \in 0..MaxFaults

Init ==
  /\ \E s \in Scenarios : /\ conf = s.conf
                          /\ IndexInit(s.groups, s.refreshers)
                          /\ main = s.main /\ head = s.head
                          /\ call = s.call
  /\ tracking = [r \in Remotes |-> [g \in Groups |-> <<>>]]
  /\ origin = [g \in Groups |-> NoRemote]
  /\ made = {}
  /\ phase = [t \in Tasks |-> IF call[t].op = "none" THEN "done"
                              ELSE IF call[t].op = "push" THEN "pick" ELSE "poll"]
  /\ turn = [t \in Tasks |-> 1]
  /\ offers = [t \in Tasks |-> {}]
  /\ job = [t \in Tasks |-> NoJobs]
  /\ report = [t \in Tasks |-> {}]
  /\ faults = 0

Fault == faults < MaxFaults /\ faults' = faults + 1

\* Faulty variant: an ended transfer keeps its slot.
EndInPlace(t, p, what, tip) ==
  /\ job' = [job EXCEPT ![t][p] = Stage("done", <<>>, <<>>)]
  /\ report' = [report EXCEPT ![t] = @ \union {Outcome(what, p[1], p[2], tip)}]

\* The job p of t is over and t reports what came of it.
End(t, p, what, tip) ==
  /\ job' = [job EXCEPT ![t] = [q \in DOMAIN @ \ {p} |-> @[q]]]
  /\ report' = [report EXCEPT ![t] = @ \union {Outcome(what, p[1], p[2], tip)}]

Take(t, p, at, base, to) == job' = [job EXCEPT ![t][p] = Stage(at, base, to)]

EnterPhase(t, p, jobs) ==
  /\ phase' = [phase EXCEPT ![t] = p]
  /\ job' = [job EXCEPT ![t] = Jobs(jobs)]

-----------------------------------------------------------------------------
(* fetch *)

\* One server's manifest is read; a poll that fails is remembered and the
\* next server polled.
Poll(t) ==
  /\ phase[t] = "poll"
  /\ \E i \in DOMAIN conf.order :
       /\ First(t, Servers, i)
       /\ turn' = [turn EXCEPT ![t] = i + 1]
       /\ LET r == conf.order[i] IN
            \/ /\ offers' = [offers EXCEPT ![t] = @ \union
                               {[remote |-> r, group |-> g, tip |-> head[r][g]] : g \in conf.hosts[r]}]
               /\ UNCHANGED <<report, faults>>
            \/ /\ Fault
               /\ report' = [report EXCEPT ![t] = @ \union {Outcome("unreachable", r, NoGroup, <<>>)}]
               /\ UNCHANGED offers
  /\ UNCHANGED <<conf, main, head, tracking, origin, made, call, phase, job>>

\* The candidates are what the manifests offer, and the group of every direct
\* remote; an offered group that is not found in the index is new.
Gather(t) ==
  /\ phase[t] = "poll" /\ Left(t, Servers) = {}
  /\ LET offered == {<<o.remote, o.group>> : o \in offers[t]}
         pairs == offered \union {<<r, Bound(r)>> : r \in Direct}
     IN \E missed \in Missed(pairs), unmatched \in Missed(pairs) :
          LET known == {p \in pairs \ missed : p[2] \in index}
          IN /\ EnterPhase(t, "fetch",
                           {p \in known : Matches(call[t].filter, p[2], p \in unmatched)})
             /\ report' = [report EXCEPT ![t] = @ \union
                             {Outcome("new", NoRemote, p[2], <<>>) : p \in offered \ known}]
  /\ UNCHANGED <<conf, main, head, tracking, origin, made, call, turn, offers, faults>>

\* ensure_remote.
PointOrigin(t, p) ==
  /\ phase[t] = "fetch" /\ job[t][p].at = "waiting" /\ Room(t)
  /\ origin' = [origin EXCEPT ![p[2]] = p[1]]
  /\ Take(t, p, "pointed", <<>>, <<>>)
  /\ UNCHANGED <<conf, main, head, tracking, made, call, phase, turn, offers, report, faults>>

\* git fetch origin main:<tracking ref>, from whatever URL origin has by now.
\* Not forced: a tracking ref that would not go forward is a transport failure.
Fetch(t, p) ==
  /\ phase[t] = "fetch" /\ job[t][p].at = "pointed"
  /\ LET from == origin[p[2]]
         tip == head[from][p[2]]
         ok == Hosts(from, p[2]) /\ tip # <<>> /\ IsPrefix(tracking[p[1]][p[2]], tip)
     IN /\ tracking' = IF ok THEN [tracking EXCEPT ![p[1]][p[2]] = tip] ELSE tracking
        /\ \/ End(t, p, IF ok THEN "fetched" ELSE "skipped", tip) /\ UNCHANGED faults
           \/ ok /\ Fault /\ \E what \in {"skipped", "fetch_failed"} : End(t, p, what, tip)
  /\ UNCHANGED <<conf, main, head, origin, made, call, phase, turn, offers>>

\* The transport fails before anything moved, or git cannot be run.
FetchFails(t, p) ==
  /\ phase[t] = "fetch"
  /\ job[t][p].at = "waiting" => Room(t)
  /\ Fault
  /\ \E what \in {"skipped", "fetch_failed"} : End(t, p, what, <<>>)
  /\ UNCHANGED <<conf, main, head, tracking, origin, made, call, phase, turn, offers>>

\* Faulty variant: what the transport refused is forgotten.
FetchedForgetsSkipped(t) ==
  /\ phase[t] = "fetch" /\ DOMAIN job[t] = {}
  /\ EnterPhase(t, IF call[t].op = "fetch" THEN "done" ELSE "advance",
       IF call[t].op = "fetch" THEN {}
       ELSE {<<conf.default, g>> : g \in {h \in Groups : Reported(t, "fetched", conf.default, h)}})
  /\ UNCHANGED <<conf, main, head, tracking, origin, made, call, turn, offers, report, faults>>

\* Only what the default remote's fetches came to is taken further.
Fetched(t) ==
  /\ phase[t] = "fetch" /\ DOMAIN job[t] = {}
  /\ IF call[t].op = "fetch"
     THEN EnterPhase(t, "done", {})
     ELSE EnterPhase(t, "advance",
            {<<conf.default, g>> : g \in {h \in Groups :
               \/ Reported(t, "fetched", conf.default, h)
               \/ Reported(t, "skipped", conf.default, h)}})
  /\ UNCHANGED <<conf, main, head, tracking, origin, made, call, turn, offers, report, faults>>

-----------------------------------------------------------------------------
(* pull *)

\* Faulty variant: main follows the target whatever it has of its own.
AdvanceBlindly(t, p) ==
  /\ phase[t] = "advance" /\ job[t][p].at = "waiting" /\ Room(t)
  /\ LET target == tracking[p[1]][p[2]]
     IN IF target = <<>> \/ main[p[2]] = target
        THEN End(t, p, "updated", target)
        ELSE Take(t, p, "moving", main[p[2]], target) /\ UNCHANGED report
  /\ UNCHANGED <<conf, main, head, tracking, origin, made, call, phase, turn, offers, faults>>

\* fast_forward_one_group: nothing to do where the content was not fetched or
\* the index lookup misses the group; then the ancestry is compared.
Advance(t, p) ==
  /\ phase[t] = "advance" /\ job[t][p].at = "waiting" /\ Room(t)
  /\ LET target == tracking[p[1]][p[2]]
         local == main[p[2]]
         idle == Reported(t, "skipped", p[1], p[2]) \/ writer # NoOne \/ p[2] \notin index
                   \/ target = <<>>
     IN \/ idle /\ End(t, p, "updated", Advertised(t, p[1], p[2]))
        \/ ~idle /\ local = target /\ End(t, p, "updated", target)
        \/ /\ ~idle /\ local # target /\ IsPrefix(local, target)
           /\ Take(t, p, "moving", local, target)
           /\ UNCHANGED report
        \/ ~idle /\ ~IsPrefix(local, target) /\ End(t, p, "pull_diverged", target)
  /\ UNCHANGED <<conf, main, head, tracking, origin, made, call, phase, turn, offers, faults>>

\* The local ref is read again and set: what it has become is not compared.
\* A move that has begun outlives its call when the call times out.
Move(t, p) ==
  /\ job[t][p].at = "moving"
  /\ main' = [main EXCEPT ![p[2]] = job[t][p].to]
  /\ IF phase[t] = "done"
     THEN job' = [job EXCEPT ![t] = [q \in DOMAIN @ \ {p} |-> @[q]]] /\ UNCHANGED report
     ELSE End(t, p, "updated", job[t][p].to)
  /\ UNCHANGED <<conf, head, tracking, origin, made, call, phase, turn, offers, faults>>

AdvanceFails(t, p) ==
  /\ phase[t] = "advance"
  /\ job[t][p].at = "waiting" => Room(t)
  /\ Fault
  /\ End(t, p, "pull_failed", <<>>)
  /\ UNCHANGED <<conf, main, head, tracking, origin, made, call, phase, turn, offers>>

Pulled(t) ==
  /\ phase[t] = "advance" /\ DOMAIN job[t] = {}
  /\ EnterPhase(t, IF call[t].op = "pull" THEN "done" ELSE "pick", {})
  /\ turn' = [turn EXCEPT ![t] = 1]
  /\ UNCHANGED <<conf, main, head, tracking, origin, made, call, offers, report, faults>>

-----------------------------------------------------------------------------
(* push *)

\* The candidates of the next remote: the named group, every indexed group, or
\* the one group of a direct remote.
Pick(t) ==
  /\ phase[t] = "pick"
  /\ \E i \in DOMAIN conf.order :
       /\ First(t, Targets(call[t].scope), i)
       /\ turn' = [turn EXCEPT ![t] = i]
       /\ LET r == conf.order[i]
              filter == call[t].filter
              all == IF writer = NoOne THEN index ELSE {}
              groups == IF r \in Direct THEN {Bound(r)}
                        ELSE IF filter.kind = "group" THEN {filter.group} ELSE all
          IN EnterPhase(t, "push", {<<r, g>> : g \in groups})
  /\ UNCHANGED <<conf, main, head, tracking, origin, made, call, offers, report, faults>>

\* No remote is left; a name that no remote has is an error.
Picked(t) ==
  /\ phase[t] = "pick" /\ Left(t, Targets(call[t].scope)) = {}
  /\ EnterPhase(t, "done", {})
  /\ report' = IF Unknown(call[t].scope)
               THEN [report EXCEPT ![t] = @ \union {Outcome("unknown_remote", NoRemote, NoGroup, <<>>)}]
               ELSE report
  /\ UNCHANGED <<conf, main, head, tracking, origin, made, call, turn, offers, faults>>

\* push_one_group up to the point where origin has the remote's URL;
\* preflight_local_refs finds nothing to push where main has no commit yet.
StartPush(t, p) ==
  /\ phase[t] = "push" /\ job[t][p].at = "waiting" /\ Room(t)
  /\ IF ~Matches(call[t].filter, p[2], writer # NoOne)
       THEN End(t, p, "out_of_scope", <<>>) /\ UNCHANGED origin
     ELSE IF writer # NoOne
       THEN End(t, p, "contended", <<>>) /\ UNCHANGED origin
     ELSE IF p[2] \notin index
       THEN End(t, p, "not_indexed", <<>>) /\ UNCHANGED origin
     ELSE IF main[p[2]] = <<>>
       THEN End(t, p, "not_transferred", <<>>) /\ UNCHANGED origin
     ELSE /\ origin' = [origin EXCEPT ![p[2]] = p[1]]
          /\ Take(t, p, "pointed", <<>>, <<>>)
          /\ UNCHANGED report
  /\ UNCHANGED <<conf, main, head, tracking, made, call, phase, turn, offers, faults>>

\* Faulty variant: the push is forced.
PushForced(t, p) ==
  /\ phase[t] = "push" /\ job[t][p].at = "pointed"
  /\ LET to == origin[p[2]] IN
       /\ Hosts(to, p[2])
       /\ head' = [head EXCEPT ![to][p[2]] = main[p[2]]]
       /\ End(t, p, "pushed", main[p[2]])
  /\ UNCHANGED <<conf, main, tracking, origin, made, call, phase, turn, offers, faults>>

\* git push origin main:main, not forced.  The remote may have taken the
\* commits although the answer is lost.
Push(t, p) ==
  /\ phase[t] = "push" /\ job[t][p].at = "pointed"
  /\ LET to == origin[p[2]]
         hosted == Hosts(to, p[2])
         ahead == IsPrefix(head[to][p[2]], main[p[2]])
     IN \/ /\ hosted /\ ahead
           /\ head' = [head EXCEPT ![to][p[2]] = main[p[2]]]
           /\ \/ End(t, p, "pushed", main[p[2]]) /\ UNCHANGED faults
              \/ Fault /\ \E what \in {"not_transferred", "push_failed"} : End(t, p, what, <<>>)
        \/ /\ hosted /\ ~ahead
           /\ End(t, p, "push_diverged", <<>>)
           /\ UNCHANGED <<head, faults>>
        \/ /\ ~hosted
           /\ End(t, p, "not_transferred", <<>>)
           /\ UNCHANGED <<head, faults>>
  /\ UNCHANGED <<conf, main, tracking, origin, made, call, phase, turn, offers>>

PushFails(t, p) ==
  /\ phase[t] = "push" /\ job[t][p].at = "pointed"
  /\ Fault
  /\ \E what \in {"not_transferred", "push_failed"} : End(t, p, what, <<>>)
  /\ UNCHANGED <<conf, main, head, tracking, origin, made, call, phase, turn, offers>>

Pushed(t) ==
  /\ phase[t] = "push" /\ DOMAIN job[t] = {}
  /\ EnterPhase(t, "pick", {})
  /\ turn' = [turn EXCEPT ![t] = @ + 1]
  /\ UNCHANGED <<conf, main, head, tracking, origin, made, call, offers, report, faults>>

\* run_sync_with_timeout drops the call: its git processes are killed.
Timeout(t) ==
  /\ phase[t] # "done" /\ Fault
  /\ phase' = [phase EXCEPT ![t] = "done"]
  /\ job' = [job EXCEPT ![t] = [p \in {q \in DOMAIN @ : @[q].at = "moving"} |-> @[p]]]
  /\ report' = [report EXCEPT ![t] = {Outcome("timeout", NoRemote, NoGroup, <<>>)}]
  /\ UNCHANGED <<conf, main, head, tracking, origin, made, call, turn, offers>>

-----------------------------------------------------------------------------
(* The rest of the world *)

\* A memory tool of this machine commits.
Edit(e) ==
  /\ e \notin made /\ Author[e] = Here /\ Place[e] \in disk
  /\ main' = [main EXCEPT ![Place[e]] = Append(@, e)]
  /\ made' = made \union {e}
  /\ UNCHANGED <<conf, head, tracking, origin, call, phase, turn, offers, job, report, faults>>

\* Another client pushes to a remote.
PeerPush(e) ==
  /\ e \notin made /\ Author[e] # Here /\ Hosts(Author[e], Place[e])
  /\ head' = [head EXCEPT ![Author[e]][Place[e]] = Append(@, e)]
  /\ made' = made \union {e}
  /\ UNCHANGED <<conf, main, tracking, origin, call, phase, turn, offers, job, report, faults>>

CallStep(t) ==
  \/ Poll(t) \/ Gather(t) \/ Fetched(t) \/ Pulled(t) \/ Pick(t) \/ Picked(t) \/ Pushed(t) \/ Timeout(t)
  \/ \E p \in DOMAIN job[t] :
       \/ PointOrigin(t, p) \/ Fetch(t, p) \/ FetchFails(t, p)
       \/ Advance(t, p) \/ Move(t, p) \/ AdvanceFails(t, p)
       \/ StartPush(t, p) \/ Push(t, p) \/ PushFails(t, p)

WorldStep == \E e \in Edits : Edit(e) \/ PeerPush(e)

Next ==
  \/ (WorldStep \/ \E t \in Tasks : CallStep(t)) /\ UNCHANGED indexVars
  \/ IndexStep /\ UNCHANGED syncVars

\* Every git command is bounded by a timeout and every step of a call runs.
Fairness == \A t \in Tasks : WF_vars(CallStep(t) /\ UNCHANGED indexVars)
Spec == Init /\ [][Next]_vars
FairSpec == Spec /\ Fairness

-----------------------------------------------------------------------------
(* Properties *)

\* No push of this machine ever takes commits away from a remote: whatever
\* others pushed in the meantime, and whichever remote the shared "origin"
\* happens to name when git reads it.
HeadsOnlyGrow ==
  [][\A r \in Remotes, g \in Groups : IsPrefix(head[r][g], head[r][g]')]_vars

\* The local main loses commits in one way only: to a fast-forward that
\* compared before those commits were there (see GroupRepo).
OnlyARaceRewinds ==
  [][\A g \in Groups :
       \/ IsPrefix(main[g], main[g]')
       \/ \E t \in Tasks : \E p \in DOMAIN job[t] :
            /\ p[2] = g /\ job[t][p].at = "moving"
            /\ job[t][p].base # main[g] /\ IsPrefix(job[t][p].base, job[t][p].to)]_vars

\* What is local to this machine stays apart from what a remote has, for the
\* groups that one remote of the engine has: however several calls share the
\* origin of the repository, a tracking ref holds nothing but its remote's
\* history, and a group reported pushed is on that remote with all it had.
Unshared(r, g) ==
  Hosts(r, g) /\ \A s \in Bindings \ {r} : ~Hosts(s, g)
UnsharedGroupsAreExact ==
  \A r \in Bindings, g \in Groups : Unshared(r, g) =>
    /\ IsPrefix(tracking[r][g], head[r][g])
    /\ \A t \in Tasks : \A o \in report[t] :
         o.what = "pushed" /\ o.remote = r /\ o.group = g => IsPrefix(o.tip, head[r][g])

\* A call that ends in time leaves nothing out: every server was reached or
\* reported unreachable; every group a manifest offered is reported new,
\* fetched, skipped or failed, unless the filter excludes it; and a pull says
\* of every group the default remote was asked for how it went on.  Only a
\* scope filter that meets a contended index drops a group silently.
ReportIsComplete ==
  \A t \in Tasks :
    phase[t] = "done" /\ call[t].op \in {"fetch", "pull", "sync"} /\ ~Reported(t, "timeout", NoRemote, NoGroup) =>
      /\ \A r \in Servers : Reported(t, "unreachable", r, NoGroup)
                                     \/ \A g \in conf.hosts[r] : \E o \in offers[t] : o.remote = r /\ o.group = g
      /\ \A o \in offers[t] :
           \/ Reported(t, "new", NoRemote, o.group)
           \/ \E what \in {"fetched", "skipped", "fetch_failed"} : Reported(t, what, o.remote, o.group)
           \/ call[t].filter.kind = "scope"
           \/ ~Matches(call[t].filter, o.group, FALSE)
      /\ \A g \in Groups :
           /\ call[t].op \in {"pull", "sync"}
           /\ Reported(t, "fetched", conf.default, g) \/ Reported(t, "skipped", conf.default, g)
           => Cardinality({o \in report[t] : /\ o.group = g /\ o.remote = conf.default
                                            /\ o.what \in {"updated", "pull_diverged", "pull_failed"}}) = 1

\* A sync goes on to push the groups whose pull failed.  A group that one remote
\* of the engine has is reported pushed only when the pushed history has all that
\* the call fetched for it from that remote, so nothing a pull has seen of it is
\* missing from what is published.  Of a group that several remotes have this is
\* not so: the fetch may have read the history of another of them.
UnsharedPushHasWhatWasFetched ==
  \A t \in Tasks : \A o, f \in report[t] :
    /\ o.what = "pushed" /\ f.what = "fetched" /\ f.remote = o.remote /\ f.group = o.group
    /\ Unshared(o.remote, o.group)
    => IsPrefix(f.tip, o.tip)

\* The doc of pull: only the default remote's fetched entries ever advance the
\* local main.
MainFollowsTheDefault ==
  \A t \in Tasks : \A p \in DOMAIN job[t] :
    job[t][p].at = "moving" => IsPrefix(job[t][p].to, head[conf.default][p[2]])

\* Every call ends: the failure of one remote or group keeps no other waiting,
\* and a transfer that is over gives its slot back.
CallsEnd == \A t \in Tasks : <>(phase[t] = "done" /\ job[t] = NoJobs)
=============================================================================
