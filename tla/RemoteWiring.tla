----------------------------- MODULE RemoteWiring -----------------------------
(***************************************************************************)
(* Where the remotes of a synchronisation come from: the user's            *)
(* config.toml and a project's .mmcp.toml, merged by                       *)
(* resolve_effective_remotes (crates/mmcp-store/src/sync/remotes.rs) and   *)
(* bound by build_engine (sync/engine_wiring.rs) to what SyncEngine starts *)
(* from.                                                                   *)
(*                                                                         *)
(* The GUI (gui/src-tauri/src) keeps one engine, which a change of the     *)
(* reference point rebuilds, and a probe of its default remote; the tools  *)
(* of the MCP server and the command line make an engine for each call.    *)
(* The commands of the GUI and the tools of other processes read and write *)
(* the two files, in place, with no lock between them.                     *)
(***************************************************************************)
EXTENDS Naturals, Sequences, FiniteSets

CONSTANTS
  Tasks, GuiTasks,   \* commands and tool calls; those of the GUI
  KeyOf,             \* KeyOf[n]: normalized_remote_name, by which names are compared
  SafeNames,         \* names made of letters, digits, - and _
  LegacyName,        \* the name a server_url gets, for the user and for the project
  References,        \* references to groups
  Indexed,           \* those that the local index resolves
  HomeOf,            \* HomeOf[p]: the group of project p
  NoRef, NoEngine, NoUrl,
  WiringScenarios,   \* the files and the reference point at the start, and the tasks
  MaxRestarts        \* bound: times the GUI is killed and started again

Roots == DOMAIN HomeOf
Levels == {"user", "project"}

\* A SyncConfig and project_remote_only, which no user's file has.
Config(url, remotes, only) == [url |-> url, remotes |-> remotes, only |-> only]
NoSettings == Config(FALSE, <<>>, FALSE)
Hollow == [hollow |-> TRUE]  \* a file that was truncated and is not written yet
NoFile == [hollow |-> FALSE] \* there is no .mmcp.toml

\* What can be written in the two files.
RemoteEntries == [name : DOMAIN KeyOf, kind : {"server", "direct"}, default : BOOLEAN,
                  group : References \union {NoRef}]
Settings == [url : BOOLEAN, remotes : Seq(RemoteEntries), only : BOOLEAN]
UserStates == Settings \union {Hollow}
ProjectStates == Settings \union {Hollow, NoFile}

\* What the window of the GUI asks for, and what tools do in other processes.
AsksOfGui(ask) ==
  \/ ask \in [op : {"none", "sync"}] \union [op : {"switch"}, root : Roots]
  \/ ask \in [op : {"user"}, config : Settings] \union [op : {"project"}, root : Roots, config : Settings]
AsksOfTool(ask) == ask \in [op : {"none"}] \union [op : {"tool", "subscribe"}, root : Roots]

ASSUME WiringAssumption ==
  /\ GuiTasks \subseteq Tasks
  /\ SafeNames \subseteq DOMAIN KeyOf /\ LegacyName \in [Levels -> SafeNames]
  /\ KeyOf[LegacyName.user] # KeyOf[LegacyName.project]  \* user-legacy and project-legacy
  /\ Indexed \subseteq References /\ HomeOf \in [Roots -> References]
  /\ \A s \in WiringScenarios :
       /\ s.user \in UserStates /\ s.projects \in [Roots -> ProjectStates] /\ s.anchor \in Roots
       /\ \A t \in Tasks : IF t \in GuiTasks THEN AsksOfGui(s.requests[t]) ELSE AsksOfTool(s.requests[t])

VARIABLES
  userFile,     \* ~/.mmcp/config.toml
  projectFile,  \* projectFile[p]: the .mmcp.toml of project p
  anchor,       \* the reference point in settings.json
  engine,       \* AppState.sync: the GUI's engine
  syncError,    \* AppState.sync_error: whether there is one
  probe,        \* the remote the probe of the GUI polls
  command,      \* command[t]: what t does
  phase,        \* phase[t]: how far it is
  held,         \* held[t]: the settings or the engine t has in its hands
  crossed,      \* whether two changes of the reference point overlapped
  restarts

wiringFiles == <<userFile, projectFile, anchor>>
gui == <<engine, syncError, probe>>
wiringVars == <<wiringFiles, gui, command, phase, held, crossed, restarts>>

-----------------------------------------------------------------------------
(* The merge of the two files *)

Names(remotes) == {remotes[i].name : i \in DOMAIN remotes}
KeysDiffer(remotes) ==
  \A i, j \in DOMAIN remotes : KeyOf[remotes[i].name] = KeyOf[remotes[j].name] => i = j
Defaults(remotes, level) ==
  {i \in DOMAIN remotes : remotes[i].default /\ remotes[i].level = level}

\* SyncConfig::validate, on every load and before every save.
IsValid(file) ==
  KeysDiffer(file.remotes) /\ Cardinality({i \in DOMAIN file.remotes : file.remotes[i].default}) <= 1

\* An empty file is a user's file with nothing in it; a project's needs a uuid.
UserOf(file) == IF file = Hollow THEN NoSettings ELSE file
Loads(file) == file \notin {Hollow, NoFile} /\ IsValid(file)

\* validate_remote_name: a git ref can carry it, and it is no spelling of a
\* name that a server_url gets.
NameIsFree(n) == n \in SafeNames /\ \A level \in Levels : KeyOf[n] # KeyOf[LegacyName[level]]

\* is_legacy_shorthand goes by the name, and so do the credentials that
\* resolve_credentials reads: every server_url, the user's and the project's,
\* reads the same two variables without a suffix, and any other remote the two
\* that end in its own name.
IsShorthand(n) == \E level \in Levels : n = LegacyName[level]
CredentialsOf(n) == IF IsShorthand(n) THEN {} ELSE {KeyOf[n]}

\* collect_level and resolve_direct_git_group: a direct remote of a project is
\* for the project's own group unless it names another.
Collected(file, level, root) ==
  (IF file.url
     THEN <<[name |-> LegacyName[level], kind |-> "server", default |-> FALSE, group |-> NoRef,
             level |-> level, url |-> TRUE]>>
     ELSE <<>>)
  \o [i \in DOMAIN file.remotes |->
        LET r == file.remotes[i] IN
        [name |-> r.name, kind |-> r.kind, default |-> r.default, level |-> level, url |-> FALSE,
         group |-> IF r.kind = "direct" /\ r.group = NoRef /\ level = "project" THEN HomeOf[root]
                   ELSE r.group]]
CanCollect(file, level) ==
  \A i \in DOMAIN file.remotes :
    LET r == file.remotes[i] IN
    NameIsFree(r.name) /\ (r.kind = "direct" /\ level = "user" => r.group # NoRef)

\* resolve_default_index: the project's default, or the user's, or the only one.
DefaultOf(remotes) ==
  IF Defaults(remotes, "project") # {} THEN CHOOSE i \in Defaults(remotes, "project") : TRUE
  ELSE IF Defaults(remotes, "user") # {} THEN CHOOSE i \in Defaults(remotes, "user") : TRUE
  ELSE IF Len(remotes) = 1 THEN 1 ELSE 0

\* resolve_effective_remotes, and the remotes that are used.
Merged(user, project, root) ==
  (IF project.only THEN <<>> ELSE Collected(user, "user", root))
    \o Collected(project, "project", root)
\* Faulty variant: only the remotes that are used are compared.
NamesMayMeetWhenUsed(user, project, root) == KeysDiffer(Merged(user, project, root))
\* check_name_collisions: a project that takes only its own remotes may still
\* not use a name of the user's.
NamesMayMeet(user, project, root) ==
  KeysDiffer(Collected(user, "user", root) \o Collected(project, "project", root))

Resolves(user, project, root) ==
  /\ CanCollect(user, "user") /\ CanCollect(project, "project")
  /\ NamesMayMeet(user, project, root)
  /\ LET remotes == Merged(user, project, root) IN remotes = <<>> \/ DefaultOf(remotes) # 0

\* build_engine: a direct remote's group must be known here.
CanBind(remotes) == \A i \in DOMAIN remotes : remotes[i].kind = "direct" => remotes[i].group \in Indexed

\* What load_effective_remotes and build_engine make of the two files: an
\* engine, none where no remote is configured, or an error.
Failure == [failed |-> TRUE]
Built(user, project, root) ==
  LET remotes == Merged(user, project, root) IN
  IF ~Resolves(user, project, root) THEN Failure
  ELSE IF remotes = <<>> THEN NoEngine
  ELSE IF ~CanBind(remotes) THEN Failure
  ELSE [remotes |-> remotes, default |-> DefaultOf(remotes), root |-> root,
        avoids |-> Names(Collected(user, "user", root))]

\* default_probe_url and probe_action_for: a direct remote has nothing to poll.
ProbeOf(e) ==
  IF e = NoEngine THEN NoUrl
  ELSE IF e.remotes[e.default].kind = "server" THEN e.remotes[e.default].name ELSE NoUrl

-----------------------------------------------------------------------------
\* AppState::discover: a failure leaves the GUI without an engine.
FoundAt(user, file, root) ==
  IF file = NoFile THEN NoEngine
  ELSE IF Loads(file) /\ IsValid(UserOf(user)) THEN Built(UserOf(user), file, root)
  ELSE Failure
EngineOf(found) == IF found = Failure THEN NoEngine ELSE found

WiringInit ==
  /\ \E s \in WiringScenarios :
       userFile = s.user /\ projectFile = s.projects /\ anchor = s.anchor /\ command = s.requests
  /\ LET found == FoundAt(userFile, projectFile[anchor], anchor) IN
     engine = EngineOf(found) /\ syncError = (found = Failure) /\ probe = ProbeOf(EngineOf(found))
  /\ phase = [t \in Tasks |-> IF command[t].op = "none" THEN "done" ELSE "idle"]
  /\ held = [t \in Tasks |-> NoEngine]
  /\ crossed = FALSE /\ restarts = 0

\* A file is settings or hollow; an engine in use belongs to a project.
WiringTypeOK ==
  /\ userFile = Hollow \/ Names(userFile.remotes) \subseteq DOMAIN KeyOf
  /\ anchor \in Roots /\ DOMAIN projectFile = Roots
  /\ engine = NoEngine \/ engine.root \in Roots
  /\ probe \in DOMAIN KeyOf \union {NoUrl}
  /\ restarts \in 0..MaxRestarts

Does(t, op, p) == command[t].op = op /\ phase[t] = p
Step(t, p) == phase' = [phase EXCEPT ![t] = p]
Takes(t, x) == held' = [held EXCEPT ![t] = x]
Fails(t) == Step(t, "failed") /\ UNCHANGED held

\* Both readers load the project's file first and the user's afterwards.
ReadsProject(t, root) ==
  IF Loads(projectFile[root]) THEN Step(t, "read") /\ Takes(t, projectFile[root]) ELSE Fails(t)
ReadsUser(t, root, refused) ==
  LET made == FoundAt(userFile, held[t], root) IN
  IF made \in refused THEN Fails(t) ELSE Step(t, "built") /\ Takes(t, made)

-----------------------------------------------------------------------------
(* set_reference_point and rebuild_sync.  The window has the path saved    *)
(* before it calls.                                                        *)

Switching(t) == command[t].op = "switch" /\ phase[t] \in {"read", "built", "installed", "cleared"}

SwitchStarts(t) ==
  /\ Does(t, "switch", "idle")
  /\ anchor' = command[t].root
  /\ IF projectFile[command[t].root] = NoFile
       THEN Step(t, "built") /\ Takes(t, NoEngine) ELSE ReadsProject(t, command[t].root)
  /\ crossed' = (crossed \/ \E u \in Tasks \ {t} : Switching(u))
  /\ UNCHANGED <<userFile, projectFile, gui, command, restarts>>

SwitchBuilds(t) ==
  /\ Does(t, "switch", "read")
  /\ ReadsUser(t, command[t].root, {Failure})
  /\ UNCHANGED <<wiringFiles, gui, command, crossed, restarts>>

\* The write lock waits for a pull or a push that runs.
NoSyncRuns == \A u \in GuiTasks : ~Does(u, "sync", "running")
SwitchInstalls(t) ==
  /\ Does(t, "switch", "built") /\ NoSyncRuns
  /\ engine' = held[t]
  /\ Step(t, "installed")
  /\ UNCHANGED <<wiringFiles, syncError, probe, command, held, crossed, restarts>>

SwitchClears(t) ==
  /\ Does(t, "switch", "installed")
  /\ syncError' = FALSE
  /\ Step(t, "cleared")
  /\ UNCHANGED <<wiringFiles, engine, probe, command, held, crossed, restarts>>

SwitchProbes(t) ==
  /\ Does(t, "switch", "cleared")
  /\ probe' = ProbeOf(held[t])
  /\ Step(t, "done")
  /\ UNCHANGED <<wiringFiles, engine, syncError, command, held, crossed, restarts>>

-----------------------------------------------------------------------------
(* sync_pull and sync_push of the GUI, and a tool that makes an engine for *)
(* itself (resolve_sync_config)                                            *)

SyncStarts(t) ==
  /\ Does(t, "sync", "idle")
  /\ IF engine = NoEngine THEN Fails(t) ELSE Step(t, "running") /\ Takes(t, engine)
  /\ UNCHANGED <<wiringFiles, gui, command, crossed, restarts>>

ToolStarts(t) ==
  /\ Does(t, "tool", "idle")
  /\ ReadsProject(t, command[t].root)
  /\ UNCHANGED <<wiringFiles, gui, command, crossed, restarts>>

ToolBuilds(t) ==
  /\ Does(t, "tool", "read")
  /\ ReadsUser(t, command[t].root, {Failure, NoEngine})
  /\ UNCHANGED <<wiringFiles, gui, command, crossed, restarts>>

SyncEnds(t) ==
  /\ Does(t, "sync", "running") \/ Does(t, "tool", "built")
  /\ Step(t, "done")
  /\ UNCHANGED <<wiringFiles, gui, command, held, crossed, restarts>>

-----------------------------------------------------------------------------
(* The writers of the files *)

\* save_user_config: the merge is checked with the project at the reference
\* point, if that can be loaded.
SaveUserChecks(t) ==
  LET new == command[t].config
      beside == projectFile[anchor] IN
  /\ Does(t, "user", "idle")
  /\ IF IsValid(new) /\ (Loads(beside) => Resolves(new, beside, anchor))
       THEN Step(t, "truncate") /\ Takes(t, new) ELSE Fails(t)
  /\ UNCHANGED <<wiringFiles, gui, command, crossed, restarts>>

\* save_project_config: the merge is checked with the user's file.
SaveProjectChecks(t) ==
  LET new == command[t].config IN
  /\ Does(t, "project", "idle")
  /\ IF /\ IsValid(UserOf(userFile)) /\ IsValid(new)
        /\ Resolves(UserOf(userFile), new, command[t].root)
       THEN Step(t, "truncate") /\ Takes(t, new) ELSE Fails(t)
  /\ UNCHANGED <<wiringFiles, gui, command, crossed, restarts>>

\* A subscription changes a project's file in other parts and saves the whole.
SubscriptionLoads(t) ==
  /\ Does(t, "subscribe", "idle")
  /\ IF Loads(projectFile[command[t].root])
       THEN Step(t, "truncate") /\ Takes(t, projectFile[command[t].root]) ELSE Fails(t)
  /\ UNCHANGED <<wiringFiles, gui, command, crossed, restarts>>

\* std::fs::write: the file is empty before it is whole.
Puts(t, content) ==
  /\ IF command[t].op = "user" THEN userFile' = content /\ UNCHANGED projectFile
     ELSE projectFile' = [projectFile EXCEPT ![command[t].root] = content] /\ UNCHANGED userFile
  /\ UNCHANGED <<anchor, gui, command, held, crossed, restarts>>

Truncates(t) == phase[t] = "truncate" /\ Puts(t, Hollow) /\ Step(t, "fill")
Fills(t) == phase[t] = "fill" /\ Puts(t, held[t]) /\ Step(t, "done")

-----------------------------------------------------------------------------
\* The GUI is killed, with every command in it, and started again.
Restarts ==
  /\ restarts < MaxRestarts
  /\ restarts' = restarts + 1
  /\ phase' = [t \in Tasks |-> IF t \in GuiTasks /\ phase[t] # "idle" THEN "done" ELSE phase[t]]
  /\ LET found == FoundAt(userFile, projectFile[anchor], anchor) IN
     engine' = EngineOf(found) /\ syncError' = (found = Failure) /\ probe' = ProbeOf(EngineOf(found))
  /\ crossed' = FALSE
  /\ UNCHANGED <<wiringFiles, command, held>>

WiringNext ==
  \/ \E t \in Tasks :
       \/ SwitchStarts(t) \/ SwitchBuilds(t) \/ SwitchInstalls(t) \/ SwitchClears(t) \/ SwitchProbes(t)
       \/ SyncStarts(t) \/ ToolStarts(t) \/ ToolBuilds(t) \/ SyncEnds(t)
       \/ SaveUserChecks(t) \/ SaveProjectChecks(t) \/ SubscriptionLoads(t) \/ Truncates(t) \/ Fills(t)
  \/ Restarts

-----------------------------------------------------------------------------
(* Properties *)

\* What SyncEngine takes for granted of its remotes: exactly one is the default
\* (the project's choice before the user's), no two have names that compare
\* equal, and a direct remote has a group.  The variables without a suffix are
\* read for a server_url and for no other remote, and what is read for a remote
\* of the user, even one that the project leaves out, is read for none of the
\* project's but its server_url: two server_urls do share their credentials.
IsWired(e) ==
  /\ e.default \in DOMAIN e.remotes
  /\ \A i \in Defaults(e.remotes, "project") : i = e.default
  /\ KeysDiffer(e.remotes)
  /\ \A i \in DOMAIN e.remotes : LET r == e.remotes[i] IN
       /\ IsShorthand(r.name) <=> r.url
       /\ \A n \in e.avoids : CredentialsOf(n) = CredentialsOf(r.name) => r.level = "user" \/ r.url
  /\ \A i \in DOMAIN e.remotes : e.remotes[i].kind = "direct" => e.remotes[i].group \in Indexed
InUse == {held[t] : t \in {u \in Tasks : Does(u, "sync", "running") \/ Does(u, "tool", "built")}}
EnginesAreWired == \A e \in (InUse \union {engine}) \ {NoEngine} : IsWired(e)

\* A pull or a push goes on with the engine it started with, and outside a
\* change of the reference point the GUI shows no error beside an engine and,
\* unless two changes overlapped, polls the default remote of its engine.
GuiAgrees ==
  /\ \A t \in GuiTasks : Does(t, "sync", "running") => held[t] = engine
  /\ (\A t \in Tasks : ~Switching(t)) =>
       /\ syncError => engine = NoEngine
       /\ ~crossed => probe = ProbeOf(engine)

\* Whatever is edited, saved, switched or killed beside them, the engines that
\* synchronise are wired, and what the GUI shows agrees with its engine.
SyncIsWired == EnginesAreWired /\ GuiAgrees
=============================================================================
