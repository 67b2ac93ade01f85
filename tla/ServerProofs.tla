------------------------------ MODULE ServerProofs ------------------------------
(***************************************************************************)
(* What the server guarantees, for every number of requests in flight:     *)
(* accounts (Accounts), the version ledger (VersionLedger) and the git     *)
(* plane (GitPlane).  In all three the handlers of several requests        *)
(* interleave, and what a handler read is used after others have written;  *)
(* each argument says what keeps it true, a unique key, a single request,  *)
(* a lock.                                                                 *)
(***************************************************************************)
EXTENDS Accounts, VersionLedger, GitPlane, SequenceTheorems, TLAPS

-----------------------------------------------------------------------------
(* Accounts.                                                               *)

AccountTyped ==
  /\ visit \in [Visits -> {"start", "probing", "creating", "linking", "in", "refused", "failed"}]
  /\ try \in [Visits -> Nat \ {0}]
  /\ session \in [Visits -> Visits \union {NoUser}]
  /\ DOMAIN users \subseteq Visits

\* A user is made on the way to a link; its handle is nobody else's.
UsersAreMadeOnce ==
  /\ \A v \in DOMAIN users : visit[v] \in {"linking", "in", "failed"}
  /\ \A v \in Visits : visit[v] = "linking" => v \in DOMAIN users
  /\ \A u, w \in DOMAIN users : users[u] = users[w] => u = w

\* A link leads from an identity to the user that one of its logins made.
LinksLeadHome ==
  \A i \in DOMAIN links :
    /\ links[i] \in DOMAIN users
    /\ Who(links[i]) = i
    /\ visit[links[i]] # "linking"

\* A session is that of the linked user.
SessionsFollowLinks ==
  \A v \in Visits : session[v] # NoUser =>
    Who(v) \in DOMAIN links /\ session[v] = links[Who(v)]

AccountInv == AccountTyped /\ UsersAreMadeOnce /\ LinksLeadHome /\ SessionsFollowLinks

\* A visit that makes a user is new to the users.
LEMMA NewUserIsNew ==
  ASSUME AccountInv, NEW v \in Visits, NEW h, ~Taken(h), NewUser(v, h),
         visit[v] \in {"start", "creating"}
  PROVE  /\ v \notin DOMAIN users
         /\ DOMAIN users' = DOMAIN users \union {v}
         /\ users'[v] = h
         /\ \A u \in DOMAIN users : users'[u] = users[u] /\ users[u] # h
BY DEF AccountInv, UsersAreMadeOnce, NewUser, Taken

\* A visit that moves on, without a user of its own or a link, disturbs nothing.
LEMMA MoveKeepsAccounts ==
  ASSUME AccountInv, NEW v \in Visits, NEW s \in {"probing", "creating", "refused", "failed"},
         Moves(v, s), visit[v] \in {"start", "probing", "creating", "linking"},
         v \in DOMAIN users => s = "failed",
         UNCHANGED <<users, links, session>>, try' \in [Visits -> Nat \ {0}]
  PROVE  AccountInv'
BY DEF AccountInv, AccountTyped, UsersAreMadeOnce, LinksLeadHome, SessionsFollowLinks, Moves, Who

\* Registration.
LEMMA RegisterKeepsAccounts ==
  ASSUME AccountInv, NEW v \in Visits, Register(v)
  PROVE  AccountInv'
<1>1. CASE SelfService /\ ~Taken(Visit[v].handle)
  <2>1. NewUser(v, Visit[v].handle) /\ Moves(v, "in") /\ visit[v] = "start"
        /\ UNCHANGED <<links, try, session>>
    BY <1>1 DEF Register
  <2>2. /\ v \notin DOMAIN users /\ DOMAIN users' = DOMAIN users \union {v}
        /\ users'[v] = Visit[v].handle
        /\ \A u \in DOMAIN users : users'[u] = users[u] /\ users[u] # Visit[v].handle
    BY <1>1, <2>1, NewUserIsNew
  <2>3. AccountTyped'
    BY <2>1, <2>2 DEF AccountInv, AccountTyped, Moves
  <2>4. UsersAreMadeOnce'
    BY <2>1, <2>2 DEF AccountInv, AccountTyped, UsersAreMadeOnce, Moves
  <2>5. LinksLeadHome'
    BY <2>1, <2>2 DEF AccountInv, AccountTyped, LinksLeadHome, Moves, Who
  <2>6. SessionsFollowLinks'
    BY <2>1 DEF AccountInv, SessionsFollowLinks, Who
  <2> QED
    BY <2>3, <2>4, <2>5, <2>6 DEF AccountInv
<1>2. CASE ~(SelfService /\ ~Taken(Visit[v].handle))
  <2>1. v \notin DOMAIN users
    BY DEF Register, AccountInv, UsersAreMadeOnce
  <2> QED
    BY <1>2, <2>1, MoveKeepsAccounts DEF Register, AccountInv, AccountTyped
<1> QED
  BY <1>1, <1>2

\* A login by a link that is there.
LEMMA FindLinkKeepsAccounts ==
  ASSUME AccountInv, NEW v \in Visits, FindLink(v)
  PROVE  AccountInv'
<1>1. v \notin DOMAIN users /\ visit[v] = "start" /\ UNCHANGED <<users, links, try>>
  BY DEF FindLink, AccountInv, UsersAreMadeOnce
<1>2. CASE Who(v) \in DOMAIN links /\ session' = [session EXCEPT ![v] = links[Who(v)]]
           /\ Moves(v, "in")
  <2>1. AccountTyped'
    BY <1>1, <1>2 DEF AccountInv, AccountTyped, LinksLeadHome, Moves
  <2>2. UsersAreMadeOnce' /\ LinksLeadHome'
    BY <1>1, <1>2 DEF AccountInv, AccountTyped, UsersAreMadeOnce, LinksLeadHome, Moves, Who
  <2>3. SessionsFollowLinks'
    BY <1>1, <1>2 DEF AccountInv, AccountTyped, SessionsFollowLinks, Who
  <2> QED
    BY <2>1, <2>2, <2>3 DEF AccountInv
<1>3. CASE Moves(v, IF SelfService THEN "probing" ELSE "refused") /\ UNCHANGED session
  BY <1>1, <1>3, MoveKeepsAccounts DEF AccountInv, AccountTyped
<1> QED
  BY <1>2, <1>3 DEF FindLink

\* A free handle is looked for.
LEMMA ProbeHandleKeepsAccounts ==
  ASSUME AccountInv, NEW v \in Visits, ProbeHandle(v)
  PROVE  AccountInv'
<1>1. v \notin DOMAIN users /\ visit[v] = "probing" /\ UNCHANGED <<users, links, session>>
  BY DEF ProbeHandle, AccountInv, UsersAreMadeOnce
<1>2. CASE UNCHANGED visit
  <2>1. try' \in [Visits -> Nat \ {0}]
    BY <1>2 DEF ProbeHandle, AccountInv, AccountTyped, Moves
  <2> QED
    BY <1>1, <1>2, <2>1
       DEF AccountInv, AccountTyped, UsersAreMadeOnce, LinksLeadHome, SessionsFollowLinks, Who
<1>3. CASE (Moves(v, "creating") \/ Moves(v, "failed")) /\ UNCHANGED try
  BY <1>1, <1>3, MoveKeepsAccounts DEF AccountInv, AccountTyped
<1> QED
  BY <1>2, <1>3 DEF ProbeHandle

\* The user of a first login is inserted, if the handle is still free.
LEMMA CreateUserKeepsAccounts ==
  ASSUME AccountInv, NEW v \in Visits, CreateUser(v)
  PROVE  AccountInv'
<1> DEFINE h == Candidates(v)[try[v]]
<1>1. CASE Taken(h)
  <2>1. v \notin DOMAIN users
    BY DEF CreateUser, AccountInv, UsersAreMadeOnce
  <2> QED
    BY <1>1, <2>1, MoveKeepsAccounts DEF CreateUser, AccountInv, AccountTyped
<1>2. CASE ~Taken(h)
  <2>1. NewUser(v, h) /\ Moves(v, "linking") /\ visit[v] = "creating"
        /\ UNCHANGED <<links, try, session>>
    BY <1>2 DEF CreateUser
  <2>2. /\ v \notin DOMAIN users /\ DOMAIN users' = DOMAIN users \union {v}
        /\ users'[v] = h
        /\ \A u \in DOMAIN users : users'[u] = users[u] /\ users[u] # h
    BY <1>2, <2>1, NewUserIsNew
  <2>3. AccountTyped'
    BY <2>1, <2>2 DEF AccountInv, AccountTyped, Moves
  <2>4. UsersAreMadeOnce'
    BY <2>1, <2>2 DEF AccountInv, AccountTyped, UsersAreMadeOnce, Moves
  <2>5. LinksLeadHome'
    BY <2>1, <2>2 DEF AccountInv, AccountTyped, LinksLeadHome, Moves, Who
  <2>6. SessionsFollowLinks'
    BY <2>1 DEF AccountInv, SessionsFollowLinks, Who
  <2> QED
    BY <2>3, <2>4, <2>5, <2>6 DEF AccountInv
<1> QED
  BY <1>1, <1>2

\* The link of a first login is inserted, if the identity still has none.
LEMMA CreateLinkKeepsAccounts ==
  ASSUME AccountInv, NEW v \in Visits, CreateLink(v)
  PROVE  AccountInv'
<1>1. v \in DOMAIN users /\ visit[v] = "linking" /\ UNCHANGED <<users, try>>
  BY DEF CreateLink, AccountInv, UsersAreMadeOnce
<1>2. CASE Who(v) \in DOMAIN links
  BY <1>1, <1>2, MoveKeepsAccounts DEF CreateLink, AccountInv, AccountTyped
<1>3. CASE Who(v) \notin DOMAIN links
  <2>1. Linked(v) /\ Moves(v, "in") /\ session' = [session EXCEPT ![v] = v]
    BY <1>3 DEF CreateLink
  <2>2. /\ DOMAIN links' = DOMAIN links \union {Who(v)} /\ links'[Who(v)] = v
        /\ \A i \in DOMAIN links : links'[i] = links[i]
    BY <1>3, <2>1 DEF Linked
  <2>3. AccountTyped'
    BY <1>1, <2>1 DEF AccountInv, AccountTyped, Moves
  <2>4. UsersAreMadeOnce'
    BY <1>1, <2>1 DEF AccountInv, AccountTyped, UsersAreMadeOnce, Moves
  <2>5. LinksLeadHome'
    BY <1>1, <2>1, <2>2 DEF AccountInv, AccountTyped, LinksLeadHome, Moves, Who
  <2>6. SessionsFollowLinks'
    BY <1>1, <1>3, <2>1, <2>2 DEF AccountInv, AccountTyped, SessionsFollowLinks, Who
  <2> QED
    BY <2>3, <2>4, <2>5, <2>6 DEF AccountInv
<1> QED
  BY <1>2, <1>3

\* The invariant of the accounts.
LEMMA AccountInvariance == AccountsSpec => []AccountInv
<1>1. AccountsInit => AccountInv
  BY DEF AccountsInit, AccountInv, AccountTyped, UsersAreMadeOnce, LinksLeadHome,
     SessionsFollowLinks
<1>2. AccountInv /\ [AccountsNext]_accountVars => AccountInv'
  <2> SUFFICES ASSUME AccountInv, [AccountsNext]_accountVars
               PROVE  AccountInv'
    OBVIOUS
  <2>1. CASE UNCHANGED accountVars
    BY <2>1 DEF accountVars, AccountInv, AccountTyped, UsersAreMadeOnce, LinksLeadHome,
       SessionsFollowLinks, Who
  <2>2. ASSUME NEW v \in Visits, Slip(v)
        PROVE  AccountInv'
    BY <2>2, MoveKeepsAccounts DEF Slip, AccountInv, AccountTyped
  <2> QED
    BY <2>1, <2>2, RegisterKeepsAccounts, FindLinkKeepsAccounts, ProbeHandleKeepsAccounts,
       CreateUserKeepsAccounts, CreateLinkKeepsAccounts DEF AccountsNext
<1> QED
  BY <1>1, <1>2, PTL DEF AccountsSpec

\* Any number of logins of one identity, overlapping or broken off at any
\* statement, end as one user, and no two users have one handle: the unique
\* keys are all it takes.
THEOREM IdentitiesAreUsers == AccountsSpec => []OneUserPerIdentity
<1>1. AccountInv => OneUserPerIdentity
  <2> SUFFICES ASSUME AccountInv
               PROVE  OneUserPerIdentity
    OBVIOUS
  <2>1. ASSUME NEW v \in Visits, NEW w \in Visits, session[v] # NoUser, session[w] # NoUser
        PROVE  (session[v] = session[w]) <=> (Who(v) = Who(w))
    <3>1. session[v] = links[Who(v)] /\ Who(v) \in DOMAIN links
      BY <2>1 DEF AccountInv, SessionsFollowLinks
    <3>2. session[w] = links[Who(w)] /\ Who(w) \in DOMAIN links
      BY <2>1 DEF AccountInv, SessionsFollowLinks
    <3>3. Who(links[Who(v)]) = Who(v) /\ Who(links[Who(w)]) = Who(w)
      BY <3>1, <3>2 DEF AccountInv, LinksLeadHome
    <3> QED
      BY <3>1, <3>2, <3>3
  <2> QED
    BY <2>1 DEF AccountInv, UsersAreMadeOnce, OneUserPerIdentity
<1> QED
  BY <1>1, AccountInvariance, PTL

\* The types of the accounts.
THEOREM AccountTypesAreKept == AccountsSpec => []AccountsTypeOK
<1>1. AccountInv => AccountsTypeOK
  BY DEF AccountInv, AccountTyped, LinksLeadHome, SessionsFollowLinks, AccountsTypeOK
<1> QED
  BY <1>1, AccountInvariance, PTL

-----------------------------------------------------------------------------
(* Version ledger.                                                         *)

LedgerRow == [memory : {Memory(r) : r \in Requests}, version : Version, by : Requests]

LedgerTyped ==
  /\ memories \in [DOMAIN memories -> [group : KnownGroups, latest : Version \union {Unpublished}]]
  /\ versions \in Seq(LedgerRow)
  /\ request \in [Requests -> {"sent", "creating", "negotiating", "pointing", "tagging", "published",
                               "refused", "failed"}]
  /\ seen \in [Requests -> Version \union {Unpublished}]

\* A push writes only what its own group has a row for.
PushesKnowTheirRow ==
  \A r \in Requests :
    /\ request[r] \in {"creating", "negotiating", "pointing"} => Publishes[r].group \in KnownGroups
    /\ request[r] \in {"negotiating", "pointing"} =>
         Memory(r) \in DOMAIN memories /\ memories[Memory(r)].group = Publishes[r].group
    /\ request[r] \in {"sent", "creating"} => seen[r] = Unpublished
    /\ request[r] = "pointing" => seen[r] \in Version

RowsHaveMemories ==
  \A i \in DOMAIN versions :
    /\ versions[i].memory \in DOMAIN memories
    /\ Publishes[versions[i].by].group = memories[versions[i].memory].group

\* Two pushes of one memory under way together have been noticed.
OneAtATime ==
  \A r, o \in Requests :
    UnderWay(r) /\ UnderWay(o) /\ Memory(r) = Memory(o) /\ Memory(r) \notin crowded => r = o

\* The rows of memory m grow, and what a push holds of it, or its row says, is
\* the last of them.
Grows(m) ==
  /\ \A i, j \in VersionRows(m) : i < j => Before(versions[i].version, versions[j].version)
  /\ m \in DOMAIN memories /\ (\A r \in Requests : Memory(r) = m => request[r] # "pointing") =>
       IsLast(m, memories[m].latest)
  /\ \A r \in Requests :
       Memory(r) = m /\ request[r] \in {"negotiating", "pointing"} => IsLast(m, seen[r])

LedgerGrows == \A m : m \notin crowded \union torn => Grows(m)

LedgerInv ==
  LedgerTyped /\ PushesKnowTheirRow /\ RowsHaveMemories /\ OneAtATime /\ LedgerGrows

\* The order of versions.
LEMMA BeforeIsTransitive ==
  ASSUME NEW u \in Version, NEW v \in Version, NEW w \in Version, Before(u, v), Before(v, w)
  PROVE  Before(u, w)
BY DEF Version, Before

\* A negotiated version is one, and follows what it was negotiated from.
LEMMA NegotiatedFollows ==
  ASSUME NEW current \in Version \union {Unpublished}, NEW r \in Requests
  PROVE  /\ Negotiate(current, Publishes[r].bump) \in Version
         /\ current \in Version => Before(current, Negotiate(current, Publishes[r].bump))
BY LedgerAssumption DEF Negotiate, Bumped, Version, Before
\* Where the rows, what the memories say and what the pushes hold stay, a
\* memory grows on.
LEMMA SameRowsGrow ==
  ASSUME NEW m, Grows(m), versions' = versions,
         m \in DOMAIN memories' =>
           m \in DOMAIN memories /\ memories'[m].latest = memories[m].latest,
         \A r \in Requests : Memory(r) = m =>
           \/ request'[r] = request[r] /\ seen'[r] = seen[r]
           \/ request[r] # "pointing" /\ request'[r] \notin {"negotiating", "pointing"}
  PROVE  Grows(m)'
<1>1. VersionRows(m)' = VersionRows(m) /\ \A v : IsLast(m, v)' = IsLast(m, v)
  BY DEF VersionRows, IsLast
<1>2. \A r \in Requests : Memory(r)' = Memory(r)
  BY DEF Memory
<1> QED
  BY <1>1, <1>2 DEF Grows, Before, IsLast, VersionRows

\* The finding of a memory's row.
LEMMA FindMemoryKeepsLedger ==
  ASSUME LedgerInv, NEW r \in Requests, FindMemory(r)
  PROVE  LedgerInv'
<1>1. UNCHANGED <<memories, versions, torn>> /\ request[r] = "sent"
      /\ Publishes[r].group \in KnownGroups
  BY DEF FindMemory
<1>2. /\ LedgerTyped' /\ PushesKnowTheirRow' /\ RowsHaveMemories'
  BY DEF FindMemory, LedgerInv, LedgerTyped, PushesKnowTheirRow, RowsHaveMemories, Into, Memory
<1>3. crowded \subseteq crowded' /\ (crowded' = crowded \/ crowded' = crowded \union {Memory(r)})
  BY DEF FindMemory, Crowd
<1>4. OneAtATime'
  BY <1>3 DEF FindMemory, LedgerInv, LedgerTyped, OneAtATime, Crowd, Overlapping, UnderWay, Into,
     Memory
<1>5. ASSUME NEW m, m \notin crowded' \union torn'
      PROVE  Grows(m)'
  <2>0. Grows(m)
    BY <1>1, <1>3, <1>5 DEF LedgerInv, LedgerGrows
  <2>1. CASE Memory(r) = m /\ request'[r] = "negotiating"
    <3>1. /\ m \in DOMAIN memories /\ seen' = [seen EXCEPT ![r] = memories[m].latest]
          /\ request' = [request EXCEPT ![r] = "negotiating"] /\ ~Overlapping(r)
      BY <1>1, <1>5, <2>1 DEF FindMemory, Into, Crowd, LedgerInv, LedgerTyped
    <3>2. \A o \in Requests \ {r} : Memory(o) = m => request[o] \notin {"negotiating", "pointing"}
      BY <2>1, <3>1 DEF Overlapping, UnderWay
    <3>3. IsLast(m, memories[m].latest)
      BY <1>1, <2>0, <2>1, <3>1, <3>2 DEF Grows
    <3>4. VersionRows(m)' = VersionRows(m) /\ \A v : IsLast(m, v)' = IsLast(m, v)
      BY <1>1 DEF VersionRows, IsLast
    <3>5. seen'[r] = memories[m].latest /\ request'[r] = "negotiating"
          /\ \A o \in Requests \ {r} : seen'[o] = seen[o] /\ request'[o] = request[o]
      BY <3>1 DEF LedgerInv, LedgerTyped
    <3>6. \A o \in Requests : Memory(o)' = Memory(o)
      BY DEF Memory
    <3>7. IsLast(m, memories[m].latest)' /\ IsLast(m, seen[r])'
      BY <1>1, <3>3, <3>4, <3>5 DEF IsLast, VersionRows
    <3> QED
      BY <1>1, <2>0, <3>2, <3>4, <3>5, <3>6, <3>7 DEF Grows, Before
  <2>2. CASE ~(Memory(r) = m /\ request'[r] = "negotiating")
    BY <1>1, <2>0, <2>2, SameRowsGrow DEF FindMemory, Into, LedgerInv, LedgerTyped
  <2> QED
    BY <2>1, <2>2
<1> QED
  BY <1>2, <1>4, <1>5 DEF LedgerInv, LedgerGrows

\* The insertion of a memory's row.
LEMMA CreateMemoryKeepsLedger ==
  ASSUME LedgerInv, NEW r \in Requests, CreateMemory(r)
  PROVE  LedgerInv'
<1>1. UNCHANGED <<versions, seen, crowded, torn>> /\ request[r] = "creating" /\ UnderWay(r)
  BY DEF CreateMemory, UnderWay
<1>2. CASE Memory(r) \in DOMAIN memories
  <2>1. request' = [request EXCEPT ![r] = "failed"] /\ UNCHANGED memories
    BY <1>2 DEF CreateMemory, Into
  <2>2. LedgerTyped' /\ PushesKnowTheirRow' /\ RowsHaveMemories' /\ OneAtATime'
    BY <1>1, <2>1 DEF LedgerInv, LedgerTyped, PushesKnowTheirRow, RowsHaveMemories, OneAtATime,
       UnderWay, Memory
  <2>3. ASSUME NEW m, m \notin crowded' \union torn'
        PROVE  Grows(m)'
    BY <1>1, <2>1, <2>3, SameRowsGrow DEF LedgerInv, LedgerTyped, LedgerGrows
  <2> QED
    BY <2>2, <2>3 DEF LedgerInv, LedgerGrows
<1>3. CASE Memory(r) \notin DOMAIN memories
  <2>1. /\ request' = [request EXCEPT ![r] = "negotiating"]
        /\ DOMAIN memories' = DOMAIN memories \union {Memory(r)}
        /\ memories'[Memory(r)] = [group |-> Publishes[r].group, latest |-> Unpublished]
        /\ \A m \in DOMAIN memories : memories'[m] = memories[m]
    BY <1>3 DEF CreateMemory, Into
  <2>2. memories' \in [DOMAIN memories' -> [group : KnownGroups, latest : Version \union {Unpublished}]]
    BY <1>1, <1>3 DEF CreateMemory, LedgerInv, LedgerTyped, PushesKnowTheirRow
  <2>3. LedgerTyped' /\ PushesKnowTheirRow' /\ RowsHaveMemories' /\ OneAtATime'
    BY <1>1, <2>1, <2>2 DEF LedgerInv, LedgerTyped, PushesKnowTheirRow, RowsHaveMemories, OneAtATime,
       UnderWay, Memory
  <2>4. ASSUME NEW m, m \notin crowded' \union torn'
        PROVE  Grows(m)'
    <3>0. Grows(m)
      BY <1>1, <2>4 DEF LedgerInv, LedgerGrows
    <3>1. CASE Memory(r) = m
      <4>1. VersionRows(m)' = {} /\ VersionRows(m) = {}
        BY <1>1, <1>3, <3>1 DEF VersionRows, LedgerInv, RowsHaveMemories
      <4>2. IsLast(m, Unpublished)'
        BY <4>1 DEF IsLast
      <4>3. seen'[r] = Unpublished /\ memories'[m].latest = Unpublished
        BY <1>1, <2>1, <3>1 DEF LedgerInv, PushesKnowTheirRow
      <4>4. \A o \in Requests \ {r} : Memory(o) = m => request'[o] \notin {"negotiating", "pointing"}
        BY <1>1, <2>1, <2>4, <3>1 DEF LedgerInv, LedgerTyped, OneAtATime, UnderWay
      <4>5. IsLast(m, memories[m].latest)' /\ IsLast(m, seen[r])'
        BY <4>1, <4>3 DEF IsLast
      <4>6. \A o \in Requests : Memory(o)' = Memory(o)
        BY DEF Memory
      <4> QED
        BY <4>1, <4>4, <4>5, <4>6 DEF Grows
    <3>2. CASE Memory(r) # m
      BY <1>1, <2>1, <3>0, <3>2, SameRowsGrow DEF LedgerInv, LedgerTyped
    <3> QED
      BY <3>1, <3>2
  <2> QED
    BY <2>3, <2>4 DEF LedgerInv, LedgerGrows
<1> QED
  BY <1>2, <1>3
\* A push that goes on without touching rows or memories.
LEMMA RequestMoveKeepsLedger ==
  ASSUME LedgerInv, NEW r \in Requests, NEW s \in {"refused", "failed", "published"}, Into(r, s),
         UNCHANGED <<memories, versions, seen, crowded>>,
         torn' = IF request[r] = "pointing" THEN torn \union {Memory(r)} ELSE torn
  PROVE  LedgerInv'
<1>1. LedgerTyped' /\ PushesKnowTheirRow' /\ RowsHaveMemories' /\ OneAtATime'
  BY DEF LedgerInv, LedgerTyped, PushesKnowTheirRow, RowsHaveMemories, OneAtATime, UnderWay,
     Memory, Into
<1>2. ASSUME NEW m, m \notin crowded' \union torn'
      PROVE  Grows(m)'
  <2>1. Grows(m)
    BY <1>2 DEF LedgerInv, LedgerGrows
  <2>2. Memory(r) = m => request[r] # "pointing"
    BY <1>2
  <2> QED
    BY <2>1, <2>2, SameRowsGrow DEF LedgerInv, LedgerTyped, Into
<1> QED
  BY <1>1, <1>2 DEF LedgerInv, LedgerGrows

\* A new version row is the last of its memory.
LEMMA RecordVersionKeepsLedger ==
  ASSUME LedgerInv, NEW r \in Requests, RecordVersion(r)
  PROVE  LedgerInv'
<1> DEFINE new == Negotiate(seen[r], Publishes[r].bump)
           row == [memory |-> Memory(r), version |-> new, by |-> r]
           n == Len(versions) + 1
<1>1. /\ request[r] = "negotiating" /\ request' = [request EXCEPT ![r] = "pointing"]
      /\ seen' = [seen EXCEPT ![r] = new] /\ versions' = Append(versions, row)
      /\ UNCHANGED <<memories, crowded, torn>>
  BY DEF RecordVersion, Into
<1>2. new \in Version /\ (seen[r] \in Version => Before(seen[r], new))
  BY NegotiatedFollows DEF LedgerInv, LedgerTyped
<1> HIDE DEF new
<1>3. row \in LedgerRow /\ versions \in Seq(LedgerRow)
  BY <1>2 DEF LedgerRow, LedgerInv, LedgerTyped
<1>4. /\ versions' \in Seq(LedgerRow) /\ DOMAIN versions' = DOMAIN versions \union {n}
      /\ versions'[n] = row /\ n \notin DOMAIN versions
      /\ \A i \in DOMAIN versions : versions'[i] = versions[i] /\ i < n /\ i \in Nat
  BY <1>1, <1>3, AppendProperties, LenProperties
<1>5. Memory(r) \in DOMAIN memories /\ memories[Memory(r)].group = Publishes[r].group
      /\ Publishes[r].group \in KnownGroups
  BY <1>1 DEF LedgerInv, PushesKnowTheirRow
<1>6. LedgerTyped'
  BY <1>1, <1>2, <1>4 DEF LedgerInv, LedgerTyped
<1>7. PushesKnowTheirRow'
  BY <1>1, <1>2, <1>5 DEF LedgerInv, LedgerTyped, PushesKnowTheirRow, Memory
<1>8. RowsHaveMemories'
  BY <1>1, <1>4, <1>5 DEF LedgerInv, RowsHaveMemories
<1>9. OneAtATime'
  BY <1>1 DEF LedgerInv, LedgerTyped, OneAtATime, UnderWay, Memory
<1>10. ASSUME NEW m, m \notin crowded' \union torn'
       PROVE  Grows(m)'
  <2>0. Grows(m)
    BY <1>1, <1>10 DEF LedgerInv, LedgerGrows
  <2>1. \A o \in Requests : Memory(o)' = Memory(o)
    BY DEF Memory
  <2>2. CASE Memory(r) = m
    <3>1. VersionRows(m)' = VersionRows(m) \union {n}
      BY <1>4, <2>2 DEF VersionRows
    <3>2. IsLast(m, seen[r])
      BY <1>1, <2>0, <2>2 DEF Grows
    <3>3. \A i \in VersionRows(m) : versions[i].version \in Version
      <4>1. \A x \in LedgerRow : x.version \in Version
        BY DEF LedgerRow
      <4>2. \A i \in DOMAIN versions : versions[i] \in LedgerRow
        BY <1>3, LenProperties
      <4> QED
        BY <4>1, <4>2 DEF VersionRows
    <3>4. ASSUME NEW i \in VersionRows(m)
          PROVE  Before(versions[i].version, new)
      <4>1. PICK k \in VersionRows(m) : /\ \A j \in VersionRows(m) : j <= k
                                        /\ seen[r] = versions[k].version
        BY <3>2 DEF IsLast
      <4>2. seen[r] \in Version /\ Before(seen[r], new)
        BY <1>2, <3>3, <4>1
      <4>3. CASE i = k
        BY <4>1, <4>2, <4>3
      <4>4. CASE i # k
        <5>1. i < k
          BY <1>4, <4>1, <4>4 DEF VersionRows
        <5>2. Before(versions[i].version, seen[r])
          BY <2>0, <4>1, <5>1 DEF Grows
        <5> QED
          BY <1>2, <3>3, <4>2, <5>2, BeforeIsTransitive
      <4> QED
        BY <4>3, <4>4
    <3>5. ASSUME NEW i \in VersionRows(m)', NEW j \in VersionRows(m)', i < j
          PROVE  Before(versions'[i].version, versions'[j].version)
      <4>1. i \in VersionRows(m) /\ versions'[i] = versions[i]
        BY <1>4, <3>1, <3>5 DEF VersionRows
      <4>2. CASE j = n
        BY <1>4, <3>4, <4>1, <4>2
      <4>3. CASE j \in VersionRows(m)
        <5>1. versions'[j] = versions[j]
          BY <1>4, <4>3 DEF VersionRows
        <5> QED
          BY <2>0, <3>5, <4>1, <4>3, <5>1 DEF Grows
      <4> QED
        BY <3>1, <4>2, <4>3
    <3>6. IsLast(m, seen[r])'
      <4>1. n \in VersionRows(m)' /\ \A j \in VersionRows(m)' : j <= n
        BY <1>3, <1>4, <3>1, LenProperties DEF VersionRows
      <4>2. seen'[r] = versions'[n].version
        BY <1>1, <1>4 DEF LedgerInv, LedgerTyped
      <4> QED
        BY <4>1, <4>2 DEF IsLast
    <3>7. request'[r] = "pointing"
      BY <1>1 DEF LedgerInv, LedgerTyped
    <3>8. \A o \in Requests \ {r} : Memory(o) = m => request'[o] \notin {"negotiating", "pointing"}
      BY <1>1, <1>10, <2>2 DEF LedgerInv, LedgerTyped, OneAtATime, UnderWay
    <3> QED
      BY <2>1, <2>2, <3>5, <3>6, <3>7, <3>8 DEF Grows, Before
  <2>3. CASE Memory(r) # m
    <3>1. VersionRows(m)' = VersionRows(m)
      BY <1>4, <2>3 DEF VersionRows
    <3>2. \A i \in VersionRows(m) : versions'[i] = versions[i]
      BY <1>4 DEF VersionRows
    <3>3. \A v : IsLast(m, v)' = IsLast(m, v)
      BY <3>1, <3>2 DEF IsLast
    <3>4. \A o \in Requests : Memory(o) = m => request'[o] = request[o] /\ seen'[o] = seen[o]
      BY <1>1, <2>3 DEF LedgerInv, LedgerTyped
    <3>5. (m \in DOMAIN memories /\ IsLast(m, memories[m].latest)) =>
            IsLast(m, memories[m].latest)'
      BY <1>1, <3>1, <3>2 DEF IsLast
    <3>6. \A o \in Requests : Memory(o) = m /\ IsLast(m, seen[o]) => IsLast(m, seen[o])'
      BY <3>1, <3>2, <3>4 DEF IsLast
    <3>7. \A i, j \in VersionRows(m)' : i < j => Before(versions[i].version, versions[j].version)'
      BY <2>0, <3>1, <3>2 DEF Grows, Before
    <3>8. m \in DOMAIN memories' /\ (\A o \in Requests : Memory(o)' = m => request'[o] # "pointing") =>
            IsLast(m, memories[m].latest)'
      BY <1>1, <2>0, <2>1, <3>4, <3>5 DEF Grows
    <3>9. \A o \in Requests :
            Memory(o)' = m /\ request'[o] \in {"negotiating", "pointing"} => IsLast(m, seen[o])'
      BY <2>0, <2>1, <3>4, <3>6 DEF Grows
    <3> QED
      BY <3>7, <3>8, <3>9 DEF Grows
  <2> QED
    BY <2>2, <2>3
<1> QED
  BY <1>6, <1>7, <1>8, <1>9, <1>10 DEF LedgerInv, LedgerGrows

\* The pointer of a memory's row is set to the version the push recorded.
LEMMA PointAtVersionKeepsLedger ==
  ASSUME LedgerInv, NEW r \in Requests, PointAtVersion(r)
  PROVE  LedgerInv'
<1> DEFINE k == Memory(r)
<1>1. /\ request[r] = "pointing" /\ request' = [request EXCEPT ![r] = "tagging"]
      /\ memories' = [memories EXCEPT ![k].latest = seen[r]]
      /\ UNCHANGED <<versions, seen, crowded, torn>>
  BY DEF PointAtVersion, Into, Assigned
<1>2. k \in DOMAIN memories /\ seen[r] \in Version
  BY <1>1 DEF LedgerInv, PushesKnowTheirRow
<1>3. /\ DOMAIN memories' = DOMAIN memories
      /\ memories'[k].latest = seen[r] /\ memories'[k].group = memories[k].group
      /\ \A m \in DOMAIN memories : m # k => memories'[m] = memories[m]
      /\ memories' \in [DOMAIN memories' -> [group : KnownGroups, latest : Version \union {Unpublished}]]
  BY <1>1, <1>2 DEF LedgerInv, LedgerTyped
<1>4. LedgerTyped'
  BY <1>1, <1>3 DEF LedgerInv, LedgerTyped
<1>5. PushesKnowTheirRow'
  BY <1>1, <1>3 DEF LedgerInv, LedgerTyped, PushesKnowTheirRow, Memory
<1>6. RowsHaveMemories' /\ OneAtATime'
  BY <1>1, <1>3 DEF LedgerInv, LedgerTyped, RowsHaveMemories, OneAtATime, UnderWay, Memory
<1>7. ASSUME NEW m, m \notin crowded' \union torn'
      PROVE  Grows(m)'
  <2>0. Grows(m)
    BY <1>1, <1>7 DEF LedgerInv, LedgerGrows
  <2>1. CASE k = m
    <3>1. IsLast(m, seen[r])
      BY <1>1, <2>0, <2>1 DEF Grows
    <3>2. VersionRows(m)' = VersionRows(m)
      BY <1>1 DEF VersionRows
    <3>3. IsLast(m, memories[m].latest)'
      BY <1>1, <1>3, <2>1, <3>1, <3>2 DEF IsLast
    <3>4. \A o \in Requests : Memory(o) = m => request'[o] \notin {"negotiating", "pointing"}
      BY <1>1, <1>7, <2>1 DEF LedgerInv, LedgerTyped, OneAtATime, UnderWay
    <3>5. \A o \in Requests : Memory(o)' = Memory(o)
      BY DEF Memory
    <3> QED
      BY <1>1, <2>0, <3>2, <3>3, <3>4, <3>5 DEF Grows, Before
  <2>2. CASE k # m
    BY <1>1, <1>3, <2>0, <2>2, SameRowsGrow DEF LedgerInv, LedgerTyped
  <2> QED
    BY <2>1, <2>2
<1> QED
  BY <1>4, <1>5, <1>6, <1>7 DEF LedgerInv, LedgerGrows

\* The invariant of the ledger.
LEMMA LedgerInvariance == LedgerSpec => []LedgerInv
<1>1. LedgerInit => LedgerInv
  <2> SUFFICES ASSUME LedgerInit
               PROVE  LedgerInv
    OBVIOUS
  <2>1. versions \in Seq(LedgerRow) /\ DOMAIN versions = {} /\ DOMAIN memories = {}
    BY DEF LedgerInit
  <2>2. LedgerTyped
    BY <2>1 DEF LedgerInit, LedgerTyped
  <2>3. \A m : VersionRows(m) = {}
    BY <2>1 DEF VersionRows
  <2> QED
    BY <2>1, <2>2, <2>3 DEF LedgerInit, LedgerInv, PushesKnowTheirRow, RowsHaveMemories,
       OneAtATime, UnderWay, LedgerGrows, Grows
<1>2. LedgerInv /\ [LedgerNext]_ledgerVars => LedgerInv'
  <2> SUFFICES ASSUME LedgerInv, [LedgerNext]_ledgerVars
               PROVE  LedgerInv'
    OBVIOUS
  <2>1. CASE UNCHANGED ledgerVars
    <3>1. LedgerTyped' /\ PushesKnowTheirRow' /\ RowsHaveMemories' /\ OneAtATime'
      BY <2>1 DEF ledgerVars, LedgerInv, LedgerTyped, PushesKnowTheirRow, RowsHaveMemories,
         OneAtATime, UnderWay, Memory
    <3>2. ASSUME NEW m, m \notin crowded' \union torn'
          PROVE  Grows(m)'
      BY <2>1, <3>2, SameRowsGrow DEF ledgerVars, LedgerInv, LedgerGrows
    <3> QED
      BY <3>1, <3>2 DEF LedgerInv, LedgerGrows
  <2>2. ASSUME NEW r \in Requests, Refuse(r) \/ TagVersion(r) \/ DbFails(r)
        PROVE  LedgerInv'
    BY <2>2, RequestMoveKeepsLedger DEF Refuse, TagVersion, DbFails
  <2> QED
    BY <2>1, <2>2, FindMemoryKeepsLedger, CreateMemoryKeepsLedger, RecordVersionKeepsLedger,
       PointAtVersionKeepsLedger DEF LedgerNext
<1> QED
  BY <1>1, <1>2, PTL DEF LedgerSpec

\* As long as no two pushes of a memory overlap and none stops between its row
\* and the pointer, the memory's versions only grow, and its row has the last.
THEOREM VersionsGrow == LedgerSpec => []UncrowdedVersionsGrow
<1>1. LedgerInv => UncrowdedVersionsGrow
  BY DEF LedgerInv, LedgerGrows, Grows, UncrowdedVersionsGrow, UnderWay
<1> QED
  BY <1>1, LedgerInvariance, PTL

\* No push writes the ledger of another group's memory.
THEOREM LedgersAreApart == LedgerSpec => []LedgersStayApart
<1>1. LedgerInv => LedgersStayApart
  BY DEF LedgerInv, RowsHaveMemories, LedgersStayApart
<1> QED
  BY <1>1, LedgerInvariance, PTL
\* The types of the ledger.
THEOREM LedgerTypesAreKept == LedgerSpec => []LedgerTypeOK
<1>1. LedgerInv => LedgerTypeOK
  <2> SUFFICES ASSUME LedgerInv
               PROVE  LedgerTypeOK
    OBVIOUS
  <2>1. \A x \in LedgerRow : x.by \in Requests /\ x.version \in Version
    BY DEF LedgerRow
  <2>2. \A i \in DOMAIN versions : versions[i] \in LedgerRow
    BY LenProperties DEF LedgerInv, LedgerTyped
  <2> QED
    BY <2>1, <2>2 DEF LedgerInv, LedgerTyped, LedgerTypeOK
<1> QED
  BY <1>1, LedgerInvariance, PTL

-----------------------------------------------------------------------------
(* Git plane.                                                              *)

\* c's push is being served.
Serving(c) == Push(c) /\ post[c] \in {"reading", "answering"}

GitTyped ==
  /\ branch \in [Hosted -> Seq(Clients)]
  /\ writer \in [Hosted -> Clients \union {Unlocked}]
  /\ post \in [Clients -> {"start", "asked", "queued", "reading", "answering", "done"}]
  /\ known \in [Clients -> Seq(Clients)]
  /\ checked \in [Clients -> Seq(Clients)]
  /\ accepted \in [Hosted -> SUBSET Clients]

\* The push that is served has the lock of its group, and what it compares
\* with is the branch.
PushesAreLocked ==
  \A c \in Clients :
    /\ post[c] = "queued" => Push(c)
    /\ Push(c) /\ post[c] \in {"queued", "reading", "answering"} => Group(c) \in Hosted
    /\ Serving(c) => writer[Group(c)] = c
    /\ Serving(c) /\ post[c] = "reading" => checked[c] = branch[Group(c)]

GitInv == GitTyped /\ PushesAreLocked /\ AcceptedPushesStay

\* A push lengthens the branch.
LEMMA PushIsAdded ==
  ASSUME NEW s \in Seq(Clients), NEW c \in Clients
  PROVE  /\ Append(s, c) \in Seq(Clients)
         /\ ToSet(Append(s, c)) = ToSet(s) \union {c}
<1>1. /\ Append(s, c) \in Seq(Clients) /\ DOMAIN Append(s, c) = 1..Len(s) + 1
      /\ DOMAIN s = 1..Len(s) /\ Len(s) \in Nat
      /\ Append(s, c)[Len(s) + 1] = c /\ \A i \in 1..Len(s) : Append(s, c)[i] = s[i]
  BY AppendProperties, LenProperties
<1>2. 1..Len(s) + 1 = (1..Len(s)) \union {Len(s) + 1}
  BY <1>1
<1> QED
  BY <1>1, <1>2 DEF ToSet

\* A request that moves on outside of a push, or while branch, lock and what
\* was compared stay.
LEMMA PostKeepsGit ==
  ASSUME GitInv, NEW c \in Clients, UNCHANGED <<branch, writer, checked, accepted>>,
         NEW s \in {"start", "asked", "queued", "reading", "answering", "done"},
         post' = [post EXCEPT ![c] = s], known' \in [Clients -> Seq(Clients)],
         s = "queued" => Push(c) /\ Group(c) \in Hosted,
         s \in {"reading", "answering"} => ~Push(c)
  PROVE  GitInv'
BY DEF GitInv, GitTyped, PushesAreLocked, Serving, AcceptedPushesStay, Push, Group

\* Steps that leave all of this alone.
LEMMA PipesKeepGit ==
  ASSUME GitInv, UNCHANGED <<branch, writer, post, known, checked, accepted>>
  PROVE  GitInv'
BY DEF GitInv, GitTyped, PushesAreLocked, Serving, AcceptedPushesStay, Push, Group

\* The lock of a group goes to a push while no other push of it is served.
LEMMA LockRepoKeepsGit ==
  ASSUME GitInv, NEW c \in Clients, LockRepo(c)
  PROVE  GitInv'
<1> DEFINE g == Group(c)
<1>1. /\ post[c] = "queued" /\ writer[g] = Unlocked /\ Push(c) /\ g \in Hosted
      /\ writer' = [writer EXCEPT ![g] = c]
      /\ checked' = [checked EXCEPT ![c] = branch[g]]
      /\ post' = [post EXCEPT ![c] = "reading"]
      /\ UNCHANGED <<branch, known, accepted>>
  BY DEF LockRepo, Phase, GitInv, PushesAreLocked
<1>2. GitTyped'
  BY <1>1 DEF GitInv, GitTyped
<1>3. \A d \in Clients : Serving(d) => Group(d) # g
  BY <1>1, GitAssumption DEF GitInv, PushesAreLocked, Serving
<1>4. PushesAreLocked'
  BY <1>1, <1>3 DEF GitInv, GitTyped, PushesAreLocked, Serving, Push, Group
<1> QED
  BY <1>1, <1>2, <1>4 DEF GitInv, AcceptedPushesStay

\* The end of a request's body: a push that was sent in full, and whose client
\* knew the branch as it is, is added to it.
LEMMA ServeUpdatesKeepsGit ==
  ASSUME GitInv, NEW c \in Clients, ServeUpdates(c)
  PROVE  GitInv'
<1> DEFINE g == Group(c)
<1>1. /\ post[c] = "reading" /\ post' = [post EXCEPT ![c] = "answering"]
      /\ UNCHANGED <<writer, known, checked>>
  BY DEF ServeUpdates, Phase
<1>2. CASE Push(c) /\ checked[c] = known[c]
           /\ branch' = [branch EXCEPT ![g] = Append(known[c], c)]
           /\ accepted' = [accepted EXCEPT ![g] = @ \union {c}]
  <2>1. Serving(c) /\ g \in Hosted /\ known[c] = branch[g] /\ writer[g] = c
    BY <1>1, <1>2 DEF GitInv, PushesAreLocked, Serving
  <2>2. branch[g] \in Seq(Clients)
    BY <2>1 DEF GitInv, GitTyped
  <2>3. Append(branch[g], c) \in Seq(Clients) /\ ToSet(Append(branch[g], c)) = ToSet(branch[g]) \union {c}
    BY <2>2, PushIsAdded
  <2>4. GitTyped'
    BY <1>1, <1>2, <2>1, <2>3 DEF GitInv, GitTyped
  <2>5. \A d \in Clients \ {c} : Serving(d) => Group(d) # g
    BY <2>1 DEF GitInv, PushesAreLocked
  <2>6. PushesAreLocked'
    BY <1>1, <1>2, <2>1, <2>5 DEF GitInv, GitTyped, PushesAreLocked, Serving, Push, Group
  <2>7. AcceptedPushesStay'
    <3>1. ASSUME NEW h \in Hosted
          PROVE  accepted'[h] \subseteq ToSet(branch'[h])
      <4>1. CASE h = g
        BY <1>2, <2>1, <2>3, <4>1 DEF GitInv, GitTyped, AcceptedPushesStay
      <4>2. CASE h # g
        BY <1>2, <2>1, <4>2 DEF GitInv, GitTyped, AcceptedPushesStay
      <4> QED
        BY <4>1, <4>2
    <3> QED
      BY <3>1 DEF AcceptedPushesStay
  <2> QED
    BY <2>4, <2>6, <2>7 DEF GitInv
<1>3. CASE UNCHANGED <<branch, accepted>>
  BY <1>1, <1>3 DEF GitInv, GitTyped, PushesAreLocked, Serving, AcceptedPushesStay, Push, Group
<1> QED
  BY <1>2, <1>3 DEF ServeUpdates

\* The end of the blocking task gives back its own lock only.
LEMMA ServeEndsKeepsGit ==
  ASSUME GitInv, NEW c \in Clients, ServeEnds(c)
  PROVE  GitInv'
<1> DEFINE g == Group(c)
<1>1. /\ post[c] = "answering" /\ post' = [post EXCEPT ![c] = "done"]
      /\ writer' = IF Push(c) THEN [writer EXCEPT ![g] = Unlocked] ELSE writer
      /\ UNCHANGED <<branch, known, checked, accepted>>
  BY DEF ServeEnds, Phase
<1>2. GitTyped'
  BY <1>1 DEF GitInv, GitTyped
<1>3. Push(c) => \A d \in Clients \ {c} : Serving(d) => Group(d) # g
  BY <1>1 DEF GitInv, PushesAreLocked, Serving
<1>4. PushesAreLocked'
  BY <1>1, <1>3 DEF GitInv, GitTyped, PushesAreLocked, Serving, Push, Group
<1> QED
  BY <1>1, <1>2, <1>4 DEF GitInv, AcceptedPushesStay

\* The invariant of the git plane.
LEMMA GitInvariance == GitSpec => []GitInv
<1>1. GitInit => GitInv
  BY EmptySeq DEF GitInit, GitInv, GitTyped, PushesAreLocked, Serving, AcceptedPushesStay
<1>2. GitInv /\ [GitNext]_gitVars => GitInv'
  <2> SUFFICES ASSUME GitInv, [GitNext]_gitVars
               PROVE  GitInv'
    OBVIOUS
  <2>1. CASE UNCHANGED gitVars
    BY <2>1, PipesKeepGit DEF gitVars
  <2>2. ASSUME NEW c \in Clients, Advertise(c)
        PROVE  GitInv'
    <3>1. known' \in [Clients -> Seq(Clients)]
      <4>1. \/ Group(c) \in Hosted /\ known' = [known EXCEPT ![c] = branch[Group(c)]]
            \/ known' = known
        BY <2>2 DEF Advertise, Admitted
      <4> QED
        BY <4>1 DEF GitInv, GitTyped
    <3>2. post' = [post EXCEPT ![c] = "asked"] \/ post' = [post EXCEPT ![c] = "done"]
      BY <2>2 DEF Advertise, Phase
    <3> QED
      BY <2>2, <3>1, <3>2, PostKeepsGit DEF Advertise
  <2>3. ASSUME NEW c \in Clients, Accept(c)
        PROVE  GitInv'
    <3>1. \/ post' = [post EXCEPT ![c] = "done"]
          \/ post' = [post EXCEPT ![c] = "queued"] /\ Push(c) /\ Group(c) \in Hosted
          \/ post' = [post EXCEPT ![c] = "reading"] /\ ~Push(c)
      BY <2>3 DEF Accept, Admitted, Phase
    <3>2. known' \in [Clients -> Seq(Clients)]
      BY <2>3 DEF Accept, GitInv, GitTyped
    <3> QED
      BY <2>3, <3>1, <3>2, PostKeepsGit DEF Accept
  <2>4. ASSUME NEW c \in Clients,
               PumpPiece(c) \/ ServeReads(c) \/ ServeWrites(c) \/ ClientReads(c)
        PROVE  GitInv'
    BY <2>4, PipesKeepGit DEF PumpPiece, ServeReads, ServeWrites, ClientReads
  <2>5. ASSUME NEW c \in Clients, Vanish(c)
        PROVE  GitInv'
    <3>1. post' = [post EXCEPT ![c] = "done"] \/ post' = post
      BY <2>5 DEF Vanish, Phase
    <3>2. known' \in [Clients -> Seq(Clients)]
      BY <2>5 DEF Vanish, GitInv, GitTyped
    <3> QED
      BY <2>5, <3>1, <3>2, PostKeepsGit, PipesKeepGit DEF Vanish
  <2> QED
    BY <2>1, <2>2, <2>3, <2>4, <2>5, LockRepoKeepsGit, ServeUpdatesKeepsGit, ServeEndsKeepsGit
       DEF GitNext, ServerStep, ClientStep
<1> QED
  BY <1>1, <1>2, PTL DEF GitSpec

\* No push that was accepted is dropped, however many clients push at once and
\* wherever they vanish: the lock of the group goes with the blocking task.
THEOREM PushesStay == GitSpec => []AcceptedPushesStay
<1>1. GitInv => AcceptedPushesStay
  BY DEF GitInv
<1> QED
  BY <1>1, GitInvariance, PTL
=============================================================================
