------------------------------ MODULE GroupSetup ------------------------------
(***************************************************************************)
(* How a project and its group come to be: init_project, create_group,     *)
(* subscribe and unsubscribe of the MCP server                             *)
(* (crates/mmcp-client/src/commands/init.rs, group.rs, subscription and    *)
(* serve.rs), and the import of an archive that brings a new group         *)
(* (crates/mmcp-store/src/archive/import.rs).                              *)
(*                                                                         *)
(* The calls of one server share the project's .mmcp.toml, the             *)
(* repositories and the group index, which the watcher of the repositories *)
(* refreshes too (GroupIndex).  The first two hold the process lock from   *)
(* end to end; the others take no lock.                                    *)
(***************************************************************************)
EXTENDS Naturals, FiniteSets

CONSTANTS
  SetupCalls,      \* calls; one that mints a uuid mints itself
  Given,           \* uuids that are known beforehand
  SlugNames, NoSlug, NoUuid,
  Entries,         \* what a project may subscribe to: slugs of groups, and tags
  Watcher, Unheld,
  SetupScenarios,  \* the config at the start, the calls, and whether the watcher wakes
  MaxSetupFailures \* bound: writes that fail

Uuids == SetupCalls \union Given
Missing == [state |-> "missing"]  \* there is no .mmcp.toml
Empty == [state |-> "empty"]      \* it was truncated and is not written yet
Project(u, s, es) == [uuid |-> u, slug |-> s, entries |-> es]
Projects == [uuid : Uuids, slug : SlugNames \union {NoSlug}, entries : SUBSET Entries]

Absent == [slug |-> NoSlug, maker |-> "nobody"]  \* there is no repository
Bare == [slug |-> NoSlug, maker |-> "git init"]  \* no manifest on main
Manifest(s, c) == [slug |-> s, maker |-> c]      \* the owner stands for its maker

\* A uuid that a call mints is new, and an import knows the uuid of its group.
AsksFor(ask) ==
  \/ ask = [op |-> "none"]
  \/ ask \in [op : {"init"}, uuid : Given \union {NoUuid}, slug : SlugNames \union {NoSlug}, configOnly : BOOLEAN]
  \/ ask \in [op : {"create"}, slug : SlugNames, configOnly : BOOLEAN]
  \/ ask \in [op : {"adopt"}, uuid : Given, slug : SlugNames, configOnly : BOOLEAN]
  \/ ask \in [op : {"subscribe", "unsubscribe"}, entry : Entries]
ASSUME SetupAssumption ==
  /\ NoSlug \notin SlugNames /\ NoUuid \notin Uuids /\ SetupCalls \intersect Given = {}
  /\ Watcher \notin SetupCalls /\ Unheld \notin SetupCalls \union {Watcher}
  /\ \A s \in SetupScenarios :
       /\ s.config \in {Missing, Empty} \/ (s.config \in Projects /\ s.config.uuid \in Given)
       /\ \A c \in SetupCalls : AsksFor(s.asks[c])

VARIABLES
  config,   \* the project's .mmcp.toml
  repo,     \* repo[u]: the repository of group u
  holder,   \* the call that holds the process lock exclusively
  ask,      \* ask[c]: what call c is
  watches,  \* whether the watcher wakes
  place,    \* place[c]: what c does next
  loaded,   \* loaded[c]: the config c has in its hands
  answer,   \* answer[c]: the reply
  failures, \* how many writes failed
  indexed, refreshing, scanned, indexer  \* the variables of GroupIndex

ownVars == <<config, repo, holder, ask, watches, place, loaded, answer, failures>>
indexerVars == <<indexed, refreshing, scanned, indexer>>
setupVars == <<ownVars, indexerVars>>

\* What a scan finds: the groups whose manifest can be read.
HasManifest(u) == repo[u] \notin {Absent, Bare}
Readable == {<<u, repo[u].slug>> : u \in {v \in Uuids : HasManifest(v)}}

X == INSTANCE GroupIndex WITH
  Groups <- Uuids \X SlugNames, Refreshers <- SetupCalls \union {Watcher}, NoOne <- Unheld,
  disk <- Readable, index <- indexed, refresh <- refreshing, found <- scanned, writer <- indexer

FirstPlace == [init |-> "enter", create |-> "enter", adopt |-> "resolve",
               subscribe |-> "check", unsubscribe |-> "check"]

SetupInit ==
  /\ \E s \in SetupScenarios :
       /\ config = s.config /\ ask = s.asks /\ watches = s.watches
       /\ place = [c \in SetupCalls |-> IF s.asks[c].op = "none" THEN "done" ELSE FirstPlace[s.asks[c].op]]
  /\ repo = [u \in Uuids |-> Absent]
  /\ holder = Unheld
  /\ loaded = [c \in SetupCalls |-> Missing]
  /\ answer = [c \in SetupCalls |-> "none"]
  /\ failures = 0
  /\ X!IndexInit({}, SetupCalls \union {Watcher})

SetupTypeOK ==
  /\ config \in Projects \union {Missing, Empty}
  /\ \A u \in Uuids : HasManifest(u) => repo[u] \in [slug : SlugNames, maker : SetupCalls]
  /\ holder \in SetupCalls \union {Unheld}
  /\ \A c \in SetupCalls : loaded[c] \in Projects \union {Missing}
  /\ failures \in 0..MaxSetupFailures
  /\ X!IndexTypeOK

Goto(c, p) == place' = [place EXCEPT ![c] = p]

\* The call returns; a guard on the process goes with it.
Return(c, a) ==
  /\ Goto(c, "done")
  /\ answer' = [answer EXCEPT ![c] = a]
  /\ holder' = IF holder = c THEN Unheld ELSE holder

Proceed(c, p) == Goto(c, p) /\ UNCHANGED <<answer, holder>>

\* Faulty variant: init_project and create_group share the process.
EnterShared(c) ==
  /\ place[c] = "enter"
  /\ Goto(c, IF ask[c].op = "init" THEN "load" ELSE "list")
  /\ UNCHANGED <<config, repo, holder, ask, watches, loaded, answer, failures, indexerVars>>

Enter(c) ==
  /\ place[c] = "enter" /\ holder = Unheld
  /\ holder' = c
  /\ Goto(c, IF ask[c].op = "init" THEN "load" ELSE "list")
  /\ UNCHANGED <<config, repo, ask, watches, loaded, answer, failures, indexerVars>>

-----------------------------------------------------------------------------
(* The config: load, change, save                                          *)

\* load_or_mint_config: what an init goes on with, or why it cannot.
Minted(c) == Project(IF ask[c].uuid = NoUuid THEN c ELSE ask[c].uuid, NoSlug, {})
Discovered(c) == IF config = Missing THEN Minted(c) ELSE config
Disagrees(asked, stored, none) == asked # none /\ stored # none /\ asked # stored

\* resolve_slug: the argument, or else the slug of the config.
SlugFor(c) == IF ask[c].slug # NoSlug THEN ask[c].slug ELSE Discovered(c).slug

LoadOrMint(c) ==
  /\ place[c] = "load"
  /\ IF \/ config = Empty
        \/ Disagrees(ask[c].uuid, Discovered(c).uuid, NoUuid)
        \/ Disagrees(ask[c].slug, Discovered(c).slug, NoSlug)
        \/ SlugFor(c) = NoSlug
       THEN Return(c, "error") /\ UNCHANGED loaded
       ELSE /\ loaded' = [loaded EXCEPT ![c] = [Discovered(c) EXCEPT !.slug = SlugFor(c)]]
            /\ Proceed(c, IF loaded'[c] # config THEN "truncate" ELSE "look")
  /\ UNCHANGED <<config, repo, ask, watches, failures, indexerVars>>

\* resolve_project_root and validate_subscription_target: a group must be
\* indexed, a tag need not exist.
Check(c) ==
  /\ place[c] = "check" /\ indexer = Unheld
  /\ IF config = Missing \/ (ask[c].entry \in SlugNames /\ \A e \in indexed : e[2] # ask[c].entry)
       THEN Return(c, "error") ELSE Proceed(c, "reload")
  /\ UNCHANGED <<config, repo, ask, watches, loaded, failures, indexerVars>>

\* apply_subscription
Applied(c) ==
  [config EXCEPT !.entries = IF ask[c].op = "subscribe" THEN @ \union {ask[c].entry}
                             ELSE @ \ {ask[c].entry}]

Reload(c) ==
  /\ place[c] = "reload"
  /\ IF config \in {Missing, Empty} \/ Applied(c) = config
       THEN /\ Return(c, IF config \in {Missing, Empty} THEN "error" ELSE "unchanged")
            /\ UNCHANGED loaded
       ELSE Proceed(c, "truncate") /\ loaded' = [loaded EXCEPT ![c] = Applied(c)]
  /\ UNCHANGED <<config, repo, ask, watches, failures, indexerVars>>

\* save overwrites the file in place: it is empty before it is whole.
Truncate(c) ==
  /\ place[c] = "truncate"
  /\ config' = Empty
  /\ Proceed(c, "fill")
  /\ UNCHANGED <<repo, ask, watches, loaded, failures, indexerVars>>

Fill(c) ==
  /\ place[c] = "fill"
  /\ config' = loaded[c]
  /\ IF ask[c].op = "init" THEN Proceed(c, "look") ELSE Return(c, "changed")
  /\ UNCHANGED <<repo, ask, watches, loaded, failures, indexerVars>>

-----------------------------------------------------------------------------
(* The repository                                                          *)

\* The group a call makes, and the slug its manifest will have.
GroupOf(c) ==
  IF ask[c].op = "init" THEN loaded[c].uuid ELSE IF ask[c].op = "create" THEN c ELSE ask[c].uuid
SlugOf(c) == IF ask[c].op = "init" THEN loaded[c].slug ELSE ask[c].slug

\* A repository that is there is left alone, even one without a manifest.
Look(c) ==
  /\ place[c] = "look"
  /\ IF ask[c].configOnly /\ repo[GroupOf(c)] = Absent
       THEN Return(c, "present")
       ELSE Proceed(c, IF repo[GroupOf(c)] # Absent THEN "refresh" ELSE "bare")
  /\ UNCHANGED <<config, repo, ask, watches, loaded, failures, indexerVars>>

\* create_standalone_group: the slug must be new to the index.
CheckSlug(c) ==
  /\ place[c] = "list" /\ indexer = Unheld
  /\ IF \E e \in indexed : e[2] = ask[c].slug THEN Return(c, "error") ELSE Proceed(c, "bare")
  /\ UNCHANGED <<config, repo, ask, watches, loaded, failures, indexerVars>>

\* The import looks the group up before it makes it, and again afterwards.
IsIndexed(u) == \E e \in indexed : e[1] = u
ResolveTarget(c) ==
  /\ place[c] = "resolve" /\ indexer = Unheld
  /\ IF IsIndexed(ask[c].uuid) THEN Return(c, "present") ELSE Proceed(c, "bare")
  /\ UNCHANGED <<config, repo, ask, watches, loaded, failures, indexerVars>>

GetTarget(c) ==
  /\ place[c] = "get" /\ indexer = Unheld
  /\ Return(c, IF IsIndexed(ask[c].uuid) THEN "created" ELSE "error")
  /\ UNCHANGED <<config, repo, ask, watches, loaded, failures, indexerVars>>

\* create_group_repo: init_bare, then a manifest where there is none.
InitBare(c) ==
  /\ place[c] = "bare"
  /\ repo' = [repo EXCEPT ![GroupOf(c)] = IF @ = Absent THEN Bare ELSE @]
  /\ Proceed(c, "read")
  /\ UNCHANGED <<config, ask, watches, loaded, failures, indexerVars>>

ReadManifest(c) ==
  /\ place[c] = "read"
  /\ Proceed(c, IF HasManifest(GroupOf(c)) THEN "publish" ELSE "write")
  /\ UNCHANGED <<config, repo, ask, watches, loaded, failures, indexerVars>>

WriteManifest(c) ==
  /\ place[c] = "write"
  /\ repo' = [repo EXCEPT ![GroupOf(c)] = Manifest(SlugOf(c), c)]
  /\ Proceed(c, "publish")
  /\ UNCHANGED <<config, ask, watches, loaded, failures, indexerVars>>

\* A write fails: a config that was truncated stays empty, a repository bare.
WriteFails(c) ==
  /\ place[c] \in {"truncate", "fill", "bare", "write"} /\ failures < MaxSetupFailures
  /\ failures' = failures + 1
  /\ Return(c, "error")
  /\ UNCHANGED <<config, repo, ask, watches, loaded, indexerVars>>

\* The refresh that ends every call but a subscription: "publish" after
\* create_group_repo, which the reply then calls a creation whoever won it.
RefreshIndex(c) ==
  /\ place[c] \in {"refresh", "publish"}
  /\ UNCHANGED ownVars
  /\ X!Scan(c) \/ X!Lock(c)

RefreshEnds(c) ==
  /\ place[c] \in {"refresh", "publish"}
  /\ UNCHANGED <<config, repo, ask, watches, loaded, failures>>
  /\ X!Install(c)
  /\ IF ask[c].op = "adopt" THEN Proceed(c, "get")
     ELSE Return(c, IF place[c] = "publish" THEN "created" ELSE "present")

\* The watcher saw something happen in the directory of the repositories.
Wake ==
  /\ watches /\ UNCHANGED ownVars
  /\ X!Scan(Watcher) \/ X!Lock(Watcher) \/ X!Install(Watcher)

SetupNext ==
  \/ \E c \in SetupCalls :
       \/ Enter(c) \/ LoadOrMint(c) \/ Check(c) \/ Reload(c) \/ Truncate(c) \/ Fill(c)
       \/ Look(c) \/ CheckSlug(c) \/ ResolveTarget(c) \/ GetTarget(c)
       \/ InitBare(c) \/ ReadManifest(c) \/ WriteManifest(c) \/ WriteFails(c)
       \/ RefreshIndex(c) \/ RefreshEnds(c)
  \/ Wake

-----------------------------------------------------------------------------
(* Properties *)

Replied(op, answers) == {c \in SetupCalls : ask[c].op = op /\ answer[c] \in answers}
NoImport == \A c \in SetupCalls : ask[c].op # "adopt"

\* What a set-up call has replied stays true, whatever calls, failures and
\* refreshes run beside it: the project keeps the uuid an init reported; the
\* group a call made keeps the owner it recorded, unless an import makes the
\* same group; and where nobody refreshes beside the calls, the index has the
\* group, and no other create was given its slug.
RepliesStayTrue ==
  /\ \A c \in Replied("init", {"created", "present"}) :
       config \in Projects => config.uuid = loaded[c].uuid
  /\ NoImport => \A c \in SetupCalls : answer[c] = "created" => repo[GroupOf(c)].maker = c
  /\ NoImport /\ ~watches =>
       /\ \A c \in SetupCalls : answer[c] = "created" => IsIndexed(GroupOf(c))
       /\ \A c, d \in Replied("create", {"created"}) : ask[c].slug = ask[d].slug => c = d
=============================================================================
