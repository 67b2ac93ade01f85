--------------------------------- MODULE Accounts ---------------------------------
(***************************************************************************)
(* Accounts of the server: registration with a password                    *)
(* (crates/mmcp-server/src/routes/auth.rs) and the first and later logins  *)
(* through a provider (crates/mmcp-auth/src/backend.rs).  A first login    *)
(* looks for the link of the identity, for a free handle, and inserts a    *)
(* user and a link, all in statements of their own; the database keeps     *)
(* handles unique, and links unique per identity.                          *)
(***************************************************************************)
EXTENDS Naturals, FiniteSets, Sequences

CONSTANTS
  Visits,         \* requests
  Visit,          \* Visit[v]: [op, handle] or [op, identity]
  Handles,        \* Handles[i]: what an identity i may be called: its base,
                  \* then as many suffixed ones as are tried
  SelfService,    \* allow_self_registration
  NoUser,
  MaxSlips        \* bound: statements that fail

ASSUME AccountsAssumption == NoUser \notin Visits

VARIABLES
  users,   \* users[u]: the handle of the user that visit u created
  links,   \* links[i]: the user of identity i
  visit,   \* visit[v]: how far v is
  try,     \* try[v]: the candidate handle v is at
  session, \* session[v]: the user v is logged in as
  slips

accountVars == <<users, links, visit, try, session, slips>>

Taken(handle) == \E u \in DOMAIN users : users[u] = handle
Who(v) == Visit[v].identity
Candidates(v) == Handles[Who(v)]
Moves(v, s) == visit' = [visit EXCEPT ![v] = s]
\* A user is known by the visit that made it.
NewUser(v, handle) == users' = [u \in DOMAIN users \union {v} |-> IF u = v THEN handle ELSE users[u]]

AccountsInit ==
  /\ users = <<>> /\ links = <<>>
  /\ visit = [v \in Visits |-> "start"]
  /\ try = [v \in Visits |-> 1]
  /\ session = [v \in Visits |-> NoUser]
  /\ slips = 0

AccountsTypeOK ==
  /\ DOMAIN users \subseteq Visits
  /\ \A i \in DOMAIN links : links[i] \in DOMAIN users
  /\ visit \in [Visits -> {"start", "probing", "creating", "linking", "in", "refused", "failed"}]
  /\ \A v \in Visits : try[v] \in Nat \ {0} /\ session[v] \in DOMAIN users \union {NoUser}

\* register
Register(v) ==
  /\ visit[v] = "start" /\ Visit[v].op = "register"
  /\ IF SelfService /\ ~Taken(Visit[v].handle)
     THEN NewUser(v, Visit[v].handle) /\ Moves(v, "in")
     ELSE Moves(v, "refused") /\ UNCHANGED users
  /\ UNCHANGED <<links, try, session, slips>>

\* authenticate, OAuth: an identity that has a link is its user.
FindLink(v) ==
  /\ visit[v] = "start" /\ Visit[v].op = "oauth"
  /\ \/ /\ Who(v) \in DOMAIN links
        /\ session' = [session EXCEPT ![v] = links[Who(v)]]
        /\ Moves(v, "in")
     \/ /\ Who(v) \notin DOMAIN links
        /\ Moves(v, IF SelfService THEN "probing" ELSE "refused")
        /\ UNCHANGED session
  /\ UNCHANGED <<users, links, try, slips>>

\* provision_oauth_handle: the first candidate that nobody has just now.
ProbeHandle(v) ==
  /\ visit[v] = "probing"
  /\ \/ /\ ~Taken(Candidates(v)[try[v]])
        /\ Moves(v, "creating") /\ UNCHANGED try
     \/ /\ Taken(Candidates(v)[try[v]]) /\ try[v] < Len(Candidates(v))
        /\ try' = [try EXCEPT ![v] = @ + 1] /\ UNCHANGED visit
     \/ /\ Taken(Candidates(v)[try[v]]) /\ try[v] = Len(Candidates(v))
        /\ Moves(v, "failed") /\ UNCHANGED try
  /\ UNCHANGED <<users, links, session, slips>>

\* The handle is a unique key: one that was taken meanwhile fails the login.
CreateUser(v) ==
  /\ visit[v] = "creating"
  /\ IF Taken(Candidates(v)[try[v]])
     THEN Moves(v, "failed") /\ UNCHANGED users
     ELSE Moves(v, "linking") /\ NewUser(v, Candidates(v)[try[v]])
  /\ UNCHANGED <<links, try, session, slips>>

Linked(v) ==
  links' = [i \in DOMAIN links \union {Who(v)} |-> IF i = Who(v) THEN v ELSE links[i]]
\* Faulty variant: an identity may be linked again.
CreateLinkAgain(v) ==
  /\ visit[v] = "linking"
  /\ Linked(v) /\ Moves(v, "in") /\ session' = [session EXCEPT ![v] = v]
  /\ UNCHANGED <<users, try, slips>>

\* So is the identity: the user of a login that comes second stays unlinked.
CreateLink(v) ==
  /\ visit[v] = "linking"
  /\ IF Who(v) \in DOMAIN links
     THEN Moves(v, "failed") /\ UNCHANGED <<links, session>>
     ELSE Linked(v) /\ Moves(v, "in") /\ session' = [session EXCEPT ![v] = v]
  /\ UNCHANGED <<users, try, slips>>

Slip(v) ==
  /\ visit[v] \in {"probing", "creating", "linking"} /\ slips < MaxSlips
  /\ slips' = slips + 1
  /\ Moves(v, "failed")
  /\ UNCHANGED <<users, links, try, session>>

AccountsNext ==
  \E v \in Visits :
    Register(v) \/ FindLink(v) \/ ProbeHandle(v) \/ CreateUser(v) \/ CreateLink(v) \/ Slip(v)

AccountsSpec == AccountsInit /\ [][AccountsNext]_accountVars

-----------------------------------------------------------------------------
(* Properties *)

\* An identity is one user: whatever logins of it overlap or stop half way,
\* those that succeed are all as the same user, and that one nobody else is.
OneUserPerIdentity ==
  /\ \A v, w \in Visits :
       session[v] # NoUser /\ session[w] # NoUser =>
         (session[v] = session[w]) <=> (Who(v) = Who(w))
  /\ \A u, w \in DOMAIN users : users[u] = users[w] => u = w
=============================================================================
