# A TLA+ model of mmcp

mmcp keeps an agent's memories (rules, notes, feature requests, issues) as
Markdown files in bare git repositories, one repository per group. A client
process serves them to agents over MCP and synchronises them with remotes; a
server publishes versions. This directory holds TLA+ modules for the parts of
mmcp where operations interleave, the TLC runs that check them, and TLAPS proofs
about them. Paths below are relative to `src/`.

## 1. Inventory

### Components, their state and their operations

| Component | State | Operations | Talks to |
|---|---|---|---|
| Scoped lock registry (`crates/mmcp-store/src/lock.rs`, `crates/mmcp-core/src/lock_registry`) | a process-wide map scope -> `Arc<RwLock>` | `acquire`, `acquire_chain`, drop of guards; every lookup may prune | every writing tool of the client; the server uses the same registry for receive-pack |
| Git backend (`crates/mmcp-git`) | the object database, `refs/heads/main`, tracking refs, a cache of open repositories | `write_commit`, `fast_forward`, `fetch`, `push`, `clone`, `tag`, reads at a revision | the store, the sync engine, the server; runs on the blocking pool |
| Memory tools (`crates/mmcp-client/src/commands/serve.rs`, `crates/mmcp-store/src/memory.rs`) | none of their own: files `memories/<slug>/<uuid>.md` on `main` | `write_memory`, `edit_memory`, `delete_memory`, `move_memory`, imports, `sync_pull`, `sync_push` | lock registry, git backend, cache |
| Feature and issue trackers (`crates/mmcp-store/src/features.rs`, `issues.rs`, `tracker.rs`) | tickets in the same files: status, number, `superseded_by`, refs | add (with or without supersede), update, rename, delete, list | lock registry, git backend |
| Milestones (`crates/mmcp-store/src/milestones`) | tickets of a third kind, linked from features of any group | crud, rollup | trackers, cache |
| Sync engine (`crates/mmcp-sync/src/engine`, `crates/mmcp-store/src/sync`) | none; works on tracking refs and `main` | fetch (all remotes), pull, push, sync | git backend, group index, the server's HTTP API |
| Project and group set-up (`crates/mmcp-client/src/commands/init.rs`, `group.rs`, `subscription`) | the project's `.mmcp.toml`; the repositories and their manifests | `init_project`, `create_group`, `subscribe`, `unsubscribe`, the group an import makes | lock registry, group index, git backend |
| Group index (`crates/mmcp-store/src/groups.rs`) | map group -> handle and manifest, rebuilt from a directory scan | `refresh`, lookups, non-blocking lookups | file watcher, `create_group`, sync |
| Session store and compaction (`crates/mmcp-store/src/sessions.rs`, `crates/mmcp-session`) | one TOML file per agent session | upsert, bump turn, record read, detect compaction; load-change-rename with no lock | hook processes |
| Content cache (`crates/mmcp-store/src/cache`) | derived index of memories | `notify_write`, `notify_pull`, queries | memory tools, rollup |
| Archive (`crates/mmcp-store/src/archive`) | none | export, import of several groups, restore of whole repositories | git backend, cache, group index |
| Version ledger (`crates/mmcp-server/src/routes/sync.rs`) | memory rows with `latest_version`, version rows, git tags | manifest, refs, push | database, git backend |
| Git plane of the server (`crates/mmcp-server/src/routes/git_http.rs`) | per-group mutexes, push tokens | upload-pack, receive-pack | git subprocesses |
| Authentication (`crates/mmcp-server/src/routes/auth.rs`, `crates/mmcp-auth`) | ceremonies with a time to live, sessions, handles | passkey and OAuth flows | database |
| Access and load-set resolution (`crates/mmcp-core/src/acl`, `loadset`) | none | pure functions | tools, server |
| Memory file format (`crates/mmcp-core/src/memory`) | none | parse, splice, render | everything |
| GUI (`gui/src-tauri`) and command line | one engine, its error and a probe of its default remote; the user's `config.toml` and each project's `.mmcp.toml` on disk | save of either file, change of the reference point, pull, push | store, sync engine |
| Database, web UI | rows; presentation | thin | server; store |

### What is hard

* **Interleaving.** The MCP server answers calls concurrently on a
  multi-threaded runtime, and every git call runs on the blocking pool. What
  keeps two calls apart is the lock registry and nothing else; `sync_pull` and
  the read tools do not use it.
* **Two lookups.** `write_commit` and `fast_forward` look the branch up, work,
  look it up *again* and compare-and-swap against the second value.
* **Stale addresses.** `edit_memory` and `delete_memory` resolve their path
  before they lock; the trackers resolve, lock the leaf and resolve again.
* **Two names for a file.** A file is found by the id in its name or by the one in
  its frontmatter, and locked under the one it was found by. They may differ.
* **Several commits per operation.** Superseding a ticket is two commits.
* **Steps without a transaction.** The version ledger, accounts, session files,
  the project's config and the group index read, compute and write in separate
  steps.
* **One name for several.** Concurrent fetches of a group share the git remote
  `origin`, the restores of a process share one temporary directory, the hooks
  of a session share one `.tmp` file.
* **A derived store beside its source.** The content cache is told of a change
  after the commit, if at all; cached repository handles outlive a restore.
* **Crashes and faults.** A restore dies between two renames, a hook half way
  through a save, a client in the middle of a push, a statement after another.
* **Pruning.** A lock handle may be dropped from the registry while somebody is
  about to use it.

### What makes each component correct

* Lock registry: one handle per scope in use; conflicting operations never run
  together; every chain is eventually granted.
* Git backend: nothing that was on `main` when a call looked at it is lost by
  that call; a commit that was acknowledged stays.
* Memory tools: a create overwrites nothing, a move carries its content and
  leaves nothing behind, the group lock gives a stable view.
* Trackers: ticket numbers are unique over both kinds; status and back link
  agree; a supersede is whole; concurrent updates of a ticket compose.
* Sync engine: a fetch for one remote never writes another remote's tracking
  ref; a pull never loses local commits; a push takes nothing from a remote; a
  failed group hides no other; every call ends.
* Version ledger: versions of a memory are unique and `latest_version` is the
  largest; a tag names the commit of its version; groups stay apart.
* Git plane: a push that was accepted is never dropped by a later one; every
  push that waits for a group's lock ends, if no client of a push to that group
  falls silent with its connection open.
* Accounts: an identity is one user, a handle one account.
* Session store: the file is always whole; a compaction is reported only if there
  was one. Group index: never older than the last completed `refresh`.
* Project and group set-up: what a call has replied stays true.
* Content cache: equal to what `main` has, but for what it was not told, and told
  commits that another one dropped.
* Archive: replaying an archive again changes nothing; a restore installs whole
  repositories and loses none.
* Section edits: a path names one section; a retried edit settles; a move loses
  no line.

## 2. Modules

    LockChains      scopes, modes, the chains callers ask for
      LockTable     ABSTRACT: who holds which link; no two hold conflicting ones
      ScopeLocks    the registry: handles, lookups, pruning, waiting lines, guards
                    (refines LockTable; MCScopeLocks, ScopeLocksProofs)
    GroupRepo       one repository: commits, main, tracking ref; the steps of
                    write_commit, fast_forward and fetch (GroupRepoProofs)
      MemoryTools   GroupRepo + LockTable: the memory tools (MCMemoryTools,
                    MemoryToolsProofs)
      Tracker       GroupRepo + LockTable: features, issues, milestones (MCTracker,
                    TrackerProofs)
    GroupIndex      the index of mirrored groups: scan, lock, install
      SyncEngine    GroupIndex + remotes: fetch, pull, push, sync
                    (MCSyncEngine, SyncEngineProofs)
      GroupSetup    GroupIndex + config and repositories: init, create, adopt
    ArchiveImport   the replay of an archive into a tree, as operators
      ContentCache  ArchiveImport + the SQLite index beside writes and pulls
    HistoryRestore  the restore of whole repositories (MCHistoryRestore)
    SectionEdits    the section parser, the splice and the edits of a body
    RemoteWiring    the two settings files, their merge, and the GUI's engine and probe
    VersionLedger   post_push of the server: memory rows, version rows, tags
    GitPlane        smart HTTP: pumps, pipes, serving tasks, the group's lock
    SessionStore    hook processes on one session file
    Accounts        registration and logins through a provider
      MCStores      the stores that do not interact, in one run
    ServerProofs    about Accounts, VersionLedger and GitPlane
    ClientProofs    about SessionStore, HistoryRestore, GroupSetup, RemoteWiring
                    and ContentCache
    ContentProofs   about ArchiveImport under ContentCache, and SectionEdits

`MCStores` has a variable `active`: a behaviour is one of one of its stores, and
the variables of the others stay as they began. Nothing is lost by this, since
these components share no state; what they do share is in the module itself
(`GroupSetup` has the group index, `ContentCache` the imports and pulls).

### LockChains, LockTable, ScopeLocks

`ScopeLocks` has one action per atomic step of the code. `LookupOrInstall` is
`get_or_install` under the registry's mutex: sweep if the registry has
`Threshold` entries, then clone or allocate. `arc[t][i]` is the clone that makes
`Arc::strong_count` exceed one. `Enqueue` is the first poll of `read_owned` or
`write_owned`; `ahead` records who was in the line of the handle, since tokio's
lock is fair. `Grant` is the `push` onto the vector of guards. `DropGuard`
follows the real drop order: the comment on `acquire_chain` says deepest first,
but a `Vec` drops its first element first, and the separate `_leaf` of the
trackers dies before `_ancestors`. No caller takes a leaf shared: the read tools
take no lock, whatever the header of `lock.rs` says. `Begin` may ask for any of
the chains the source builds; the constants give each task its menu.

`LockTable` is what callers may rely on. `ScopeLocks` implements it with the
links of live guards as the table, and the other modules use `LockTable`
directly. They take a whole chain in one step. This allows every state in which
an operation *works* that link-by-link acquisition allows, since a task that
waits half way reads and writes nothing; `RunningExclusion` is checked and
proved for the link-by-link version.

### GroupRepo

A commit is its history (the set of its ancestors and itself), its tree and its
author. The steps of a backend call end where the code looks a reference up:
`FindParent`, `WriteObject` (objects written, second lookup), `SwapMain` for
`write_commit`; `FindTarget`, `FindLocal` (with `is_ancestor`), `Refind`,
`SwapMain` for `fast_forward`. gix's `set_target_id` is a compare-and-swap
against the value the reference had when it was looked up, and is external code.
The branch always exists (a group is created with a manifest commit), so the
branches that create it are not modelled.

### MemoryTools

Every task is one call, chosen from `Asks[t]`. `Route` is the order of awaits of
each tool: where it locks, resolves, probes, reads and commits. `path` and `text`
are the values the handler carries across awaits. A file's content is the id in its
frontmatter, if it has one, and the set of calls whose change is in it; a path is a
slug and a name, which is an id or not (`Names`, files made by hand). An error reply
releases the locks on its way out, as the guards do. `sync_pull` is `PullFetches`,
then the steps of `fast_forward`, without a lock.

`Candidates` follows `resolve_memory`. A slug and an id must meet in the name and in
the frontmatter (`Mismatch` otherwise); a slug alone takes the one file there that is
named after an id; an id alone takes a file that has it inside, of those named after
it first, then of those named after no id, then of the rest. The call locks the leaf
of `MemoryOf`: the id it gave, or the one in the name that its slug found. So a
*drifted* file, whose two ids differ, has two leaves, and two edits of it, by its slug and by the id inside, may be at their
commits together and drop one another (section 6). A memory, in
`OnlySiblingCommitsAreLost`, is therefore what a call was answered and locks. An edit
that was addressed by the name of a file refuses to write another id back into it
(`Refused`, `validate_id_mismatch`), unless forced.

Resolving is one step, although `resolve_by_id` lists the group and then reads the
files at HEAD, which may have moved; under the locks of a move it cannot, and an edit
or a delete holds a stale path in either case. `debug_write_file` (`serve.rs`
3935-3965), which takes no lock and is refused but in debug mode, is left out:
`StableView` and what follows from it do not hold beside it.

### Tracker

The trackers are the same program over several vocabularies, so a ticket has a
kind and an abstract status (superseded or not); statuses such as `duplicate`,
which cannot be superseded either, are not told apart from open ones. Several
reads in a row under a lock (resolve, read, refs) are one step, as the lock
keeps other calls out; beside a pull this is a coarser view than the code's. The
supersede flow is one call with two commits. `rename` to the same slug goes
straight to its listing. An `update_issue` that changes nothing returns before it
takes a lock and is left out, as is the pinned `number` of `AddSpec`, which only
the migration uses. An update that clears nothing but composes (`applied`)
stands for all fields that are replaced or kept. Milestones are tickets of a
third kind without a number: `add_milestone` and `update_milestone` use the same
locks, and their reply computes the rollup, which may fail after the commit.

`SeedsAssumption` says what a group starts with: no id at two slugs, no number
twice, links and statuses that agree and name no ticket still to be made.
`UpdatesCompose` is about an update whose commit no commit between the two updates
has dropped; section 4 says why it must be.

### GroupIndex and SyncEngine

`GroupIndex` is the three steps of `refresh` (scan without a lock, take the write
lock, install) and `Missed`: the lookups of the sync engine are `try_read`s, so
one that meets a writer learns nothing, which `SyncEngine` lets every lookup do.

`SyncEngine` has one action per step of a call: reading the manifests of the
servers, starting transfers (at most `MaxTransfers` at a time), pointing the
repository's `origin` at a remote (`git remote set-url`), fetching or pushing
through whatever `origin` names *then*, comparing and moving `main` (two lookups,
as in `GroupRepo`). A branch is its history as a sequence, so an ancestor is a
prefix. A push of a branch that has no commit yet is over before `origin` is touched
(`preflight_local_refs`). Other clients push to the remotes, local commits land, the watcher
refreshes the index, commands fail (`MaxFaults`), and a call of the MCP server
may time out at any step: its transfers are dropped, a push the remote took
stays. The remotes of a call are the scenario, and `ScenariosAssumption` is what
`engine_wiring.rs` guarantees of them (`EnginesAreWired`, next).

### RemoteWiring

The user's `config.toml` and a project's `.mmcp.toml` are merged by
`resolve_effective_remotes`, which is written as operators: what each file
contributes (a `server_url` is a remote under a name of its own, a direct remote of
a project is for the project's group), which names may meet (compared in the
spelling of an environment variable, also those of remotes a project leaves out),
and which remote is the default. `Built` is the engine, no engine, or an error.
`CredentialsOf` names the variables a remote's
credentials are read from: those without a suffix for every `server_url`, the
user's and the project's alike, those that end in its own name for any other
(`resolve_credentials`). So the two `server_url`s share their credentials, and
`SyncIsWired` claims of no more than the others that they do not.

The GUI keeps one engine, an error from its start and a probe. A change of the
reference point reads the project's file, then the user's, waits for the pulls and
pushes that run, and installs the engine, clears the error and moves the probe in
three steps; a failure leaves all three as they were. The saves check the merge
with the other file as it is then, truncate and write; a subscription of another
process writes a project's file back with what it read; tools make an engine per
call. The GUI may be killed at any step and starts again from the files. What two
overlapping changes of the reference point do to the probe is the history variable
`crossed`.

### SectionEdits

A body is a sequence of lines: blank lines, text, headings, and headings inside
a block quote or list item, which open a section without closing any. The
operators follow `parse_sections` (a path is unique by the numbered suffix of a
repeated name), `splice` (a blank line on both sides of a seam) and the edits of
`memory_ops.rs` with their refusals. A state is a body with a draft and the rest
of a list of operations: `edit_memory_body` applies them one by one and drops
the draft when one is refused. `Probes` are the operations about which the
properties ask in every state. `BodiesAssumption` types bodies, lists and probes.

### ArchiveImport and ContentCache

`ArchiveImport` is a function of a tree: `Accumulate` finds a memory by the id
in its frontmatter, at whatever slug and stem, and skips, reports or replaces it
there; an error stages nothing. `ContentCache` runs it as an operation of a
worker (snapshot, plan, commit, rebuild of the group) beside writes, deletes,
moves, pulls and searches, which build the index if it was never built. A
rebuild runs in one SQLite write transaction; the git side commits before it
tells. Every commit has both lookups of `main`: `LooksUp` remembers the files it
builds on (`base`), `Land` puts what was made of them in the place of whatever `main`
is by then, and `LosesRace` is the failed compare-and-swap. A commit that landed in
between is gone, as in `lost_commit`, though the cache was told of it or is about to
be. A rebuild keys a row by the file's stem, a write by the memory's id, so a
drifted file has two rows. `untold` is a history variable, a set of keys: those of
a change that was never told (deletes and moves never are, nor is the file of
another memory that a write replaces), of a file that a commit dropped or brought
back without having touched it, that failed to be told, or that was told
after main had gone on. A rebuild forgives what it lists, once it commits; if it
fails, nothing is forgiven. `IndexIsTrue` excludes these keys, drifted files and
doubled ids by name, and claims everything else. What a move or an import reads
under the group's lock (source, destination, snapshot) is one step here; `MemoryTools`
has these reads one by one.

### HistoryRestore

A directory is the set of files it has, each of some origin, so that a
directory may be incomplete or mixed. The stage and the aside directory have one
name per process (`.restore-<pid>`). Every file operation may fail, a crash may
come at any step and leaves its temporary directories behind. Readers go through
the cached handle of the repository (`open_repo_with_cache`): look up, check that
the path exists, open, insert. `late` is the history variable for a handle that
was opened before a swap and cached after the invalidation.

### GroupSetup

The calls of one server on the project's `.mmcp.toml`, the repositories and the
index. `init_project` and `create_group` hold the process lock from end to end,
`subscribe`, `unsubscribe` and the group an import makes hold none. A save of
the config truncates and then writes, so there is a state in between. The
watcher is a refresher of `GroupIndex` of its own.

### VersionLedger, GitPlane, Accounts, SessionStore

`VersionLedger` is `post_push` statement by statement: group, memory (read or
inserted, one request losing to the primary key), negotiation of the version,
version row, pointer, tag; every statement may fail. `crowded` and `torn` are
history: memories of which two pushes overlapped, or whose pointer was not set.

`GitPlane`: a client reads the tip in one request and posts in another. The
handler checks credentials and group, starts the pump and the serving task and
returns; the request is pieces through a bounded pipe, as is the response. The
serving task of a push takes the group's lock before it reads and keeps it until
it is done, whether its client is there or not. What the server does by itself is
`ServerStep`, what it waits for is `ClientStep`: the next piece of a request (the pump
copies what the client sends), a read of the response, or the end of the connection.

`Accounts`: a first login looks for the link, walks the candidate handles, and
inserts user and link in statements of their own; the database keeps handles and
links unique. The loser of a race fails with the database's error; a later login
finds the winner's link and is its user.

`SessionStore`: each hook is a process that loads, changes and saves the file
three times, through a sibling of one name for all. Files are inodes, so that a
process goes on writing to what it opened after it was renamed. Hooks may die at
any step.

## 3. Runs

| Run | Expectation | What it shows |
|---|---|---|
| `scope_locks` | pass | handles are unique per scope under pruning, conflicting operations never run together, the registry implements the table, no deadlock |
| `scope_locks_live` | pass | every chain asked for is granted, under fair polling |
| `memory_tools` | pass | creates do not overwrite, moves carry content, the group lock is stable, what may and may not be dropped from `main` |
| `tracker` | pass | numbers, supersede links and updates of tickets under all interleavings |
| `sync_engine` | pass | remotes only grow, groups that one remote has stay exact, `main` rewinds only in the race of the double lookup, reports are complete, every call ends |
| `stores` | pass | the properties of section edits, cache, import, ledger, git plane, session file, accounts, set-up, restores and the wiring of remotes named below |
| `lost_commit` | violation | an acknowledged commit of a sibling edit is dropped (`backend.rs:93` says it is applied on top of the current tip) |
| `half_moved` | violation | an edit resurrects the old path after a move (`memory.rs:908` says the log never shows a half-moved state) |
| `duplicate_number` | violation | a pull between mint and commit makes two tickets share a number (`lock.rs:28` claims a stable view) |
| `unpaired_status` | violation | a create stores status `superseded` without a link (`feature.rs:233` says partial states never reach disk) |
| `crossed_fetch` | violation | two fetches of a group share `origin`, and `main` follows a remote that is not the default (`sync_engine.rs:336` says the others never advance it) |
| `mixed_restore` | violation | two restores of one process share a stage, and an incomplete or mixed repository is installed (`import.rs:393` says a partial write never leaves a broken repo) |

The properties of `stores`: `PathsNameSections` (a path names one section and
its descendants are those below it), `EditsLand` (an upsert repeated changes
nothing, `UpsertSettles`; a move loses and reorders no line,
`MovesLandAtTheAnchor`),
`IndexIsTrue` and `ImportSettles` (see above), `UncrowdedVersionsGrow` and
`LedgersStayApart` (versions grow where pushes do not overlap; no push writes
another group's ledger), `AcceptedPushesStay` and `PushesEnd` (no accepted push
is dropped; a queued push ends, if the clients of pushes to its group go on or go
away), `SavesAreWhole` and `NoFalseAlarm` (hooks in
sequence always find a whole file, whoever died; a reported compaction
happened), `OneUserPerIdentity`, `RepliesStayTrue` (what set-up calls replied
stays true), `RestoresAreWhole` (no broken repository, no group lost, what
was reported restored is there, no stale handle but a late one) and `SyncIsWired`
(every engine that synchronises has one default, no two remotes of one name, groups
for its direct ones, and no remote of the project, but a `server_url`, that reads
the credentials of a user's, whatever was edited beside its making; the GUI's
engine, error and probe agree outside a change of the reference point).
`UnsharedPushHasWhatWasFetched` of `sync_engine` is about groups that one remote of
the engine has: of a group that two have it would be false, as a fetch may have read
the other's history (`crossed_fetch`).

### Bounds

* `scope_locks`: three tasks, one group, two memories, threshold 2. Three tasks
  are what a circular wait through an intermediate waiter, a writer queued
  between two readers, and a prune by a bystander need; two memories let leaf
  locks be independent. Four handles are at most one per scope, so a freed
  handle is reused at once, the worst case for pruning. Tasks, memories and
  handles are symmetric.
* `scope_locks_live`: no symmetry; two editors of one memory by the two kinds of
  leaf chain, and a task that coarsens the group or the process.
* `memory_tools`, `lost_commit`, `half_moved`: three calls, two slugs,
  two ids and one name that is no id, so that a slug can be ambiguous and an id can be
  at two slugs. `Seeds`: every set of files named after the ids inside them, and four
  groups with a file that is not (alone, beside the file of its id, made by hand,
  without an id). `Asks`: twelve calls, which address
  memories by slug, by id and by both, with and without override and force. Two calls
  exhibit each race; the third lets a pull or another commit join. `MaxFetched = 1`
  commit arrives from elsewhere, of one of the files in `Sent`, one of them drifted.
* `tracker`: three calls from the local ones and a pull, two slugs, two tickets
  that exist before and one new id per call, counter limit `MaxNumber = 5`; the
  starting trees have an empty group, a ticket without a number beside the last
  number the counter can give, an ambiguous slug and a superseded ticket.
* `sync_engine`, `crossed_fetch`: two remotes, two groups, two calls, one local
  commit and one commit of others per remote, `MaxFaults = 1`. The scenarios
  cover one and two servers, a direct remote, a group that appears while a call
  runs, an unborn branch, all scopes of a push. `MaxTransfers` is 2 where the code
  has 6 (`MAX_CONCURRENT_GROUP_TRANSFERS`), so that calls do wait for a slot.
* `stores`: `MaxLines = 7` lines of a body, from six starting bodies with
  repeated names, nesting and a quoted heading (headings have two levels in the
  probes, which is what closing and nesting distinguish); three workers on two
  groups and thirteen scenarios of the cache, `MaxMishaps = 1`; five publish requests
  on two groups, four of them of one memory, `MaxDbFailures = 1`; two pushing
  clients and a fetching one, `PipeSize = 1` piece, so that every write can
  block; two hooks, three inodes, `MaxTranscript = 2`, `MaxCompactions = 1`,
  `MaxKills = 1`; five visits of two identities whose candidate handles overlap,
  beside a registration, `MaxSlips = 1`; three set-up calls in eleven scenarios,
  with and without the watcher, `MaxSetupFailures = 1`; three restores, of which
  two of one group, `Size = 2` files, `MaxBreaks = 2`, `MaxCrashes = 1`. Two
  failed file operations occur (a rename in and the rename back), but
  `RestoresAreWhole` claims nothing after a second one: then the only copy is in
  the aside directory, which the next restore clears. For `RemoteWiring`, 96 pairs of a
  user's and a project's file (spellings of one name, unsafe and reserved names,
  two defaults, missing groups, `server_url`, hollow and missing files), each with
  a switch and a tool call, and five scenarios of three commands of the GUI and a
  tool of another process; `MaxRestarts = 1`.
* `Overlap` of `HistoryRestore` is a bound: `FALSE` in `stores`, where restores
  follow each other, and `TRUE` in `mixed_restore`, where two of them overlap
  without failures or crashes.
* Runs of calls set `CHECK_DEADLOCK FALSE`: every call ends and the model with
  it. `scope_locks` checks deadlock, since its tasks can always begin again.

### Properties and pulls

The locks order the calls of one process with each other. `sync_pull` takes none
of them, so what the locks promise (`CreateNeverOverwrites`, `NumbersAreUnique`
and others) is stated for behaviours in which no pull is among the calls
(`Alone`), and what pulls may break is stated by `OnlySiblingCommitsAreLost`,
`NothingSeenIsDropped` and the run `duplicate_number`.

### Fairness

`FairSpec` of `ScopeLocks` asks for weak fairness of each task's `Step`, and of
nothing else. The runtime polls every task that is ready, the registry's mutex
is held for a bounded time, tokio's `RwLock` queues requests in order, and every
operation under a lock ends (git subprocesses have timeouts). Nobody is obliged
to start an operation.

`FairSpec` of `SyncEngine` asks for weak fairness of the steps of each call: every
git command and every request has a timeout, so a step that can be taken ends,
well or with an error. No other client, no commit, no refresh and no fault is
obliged to happen.

`Spec` of `MCStores` asks for weak fairness of what the server does by itself for
each client's request to the git plane (`ServerStep`): the serving task runs on the
blocking pool until it has to wait for a pipe. It asks nothing of the clients, since
the code does not: the server has no time limit on a request, on a piece of it or on
the reading of a response, and a client that is silent for ever with its connection
open holds the lock of its group for ever. `PushesEnd` is conditional for that reason.
It is about each push of whose group every pushing client goes on (`GoesOn`): it
sends, reads, or its connection ends. Clients of other groups and those that fetch
may be silent. No behaviour is excluded from the run, and the safety properties hold
with silent clients as well.

The other modules state safety only.

## 4. Proofs

TLAPS proves, for every value of the constants allowed by the named assumptions:

* **ScopeLocksProofs.** `Invariance`: `IInv` is inductive. `TypeOK` and
  `OneHandlePerScope` are not inductive alone: a granted request excludes the
  others only because of the order in the line of its handle. `IInv` adds
  `Shape` (how program counter, guards and clones agree), `Injective` (no handle
  serves two scopes), `LineOrder` (of two requests in one line one is ahead of
  the other), `AheadInLine` and `GuardsGranted`. From it follow `TypeCorrect`,
  `PruningIsRaceFree` (`OneHandlePerScope`), `ConflictingOperationsExclude`
  (`RunningExclusion`) and, step by step, `RegistryImplementsTable`: each grant
  is an `Acquire` of the table, each drop a `Release`, everything else a stutter.
* **GroupRepoProofs.** `RepoInvariance`: histories are closed under ancestry, the
  lookups a call remembers are commits, and the goal of a call that may swap
  descends from its base. `WindowKeepsHistory`: a call that moves `main` keeps
  all commits that were on `main` at its first lookup (`NothingSeenIsDropped`).
  This is the guarantee the double lookup leaves; `lost_commit` shows that it is
  no more than that.
* **MemoryToolsProofs.** For every number of calls and every set of memories, in
  four layers. `RouteInv`: where a call is in its route says which links it holds
  and what the backend does for it, and guards never conflict; with `RepoInv` it is
  inductive (`ToolInvariance`). From it: `TypeCorrect`, `GuardsNeverConflict`,
  `ViewIsStable` (`StableView`: under the exclusive group lock only a pull moves
  `main`), and `ToolsImplementRepo`: every step of a tool is a step of `GroupRepo`
  or leaves it alone, so `WindowKeepsHistory` holds of the tools
  (`ToolsDropNothingSeen`). `CommitInv`: what a call has written is its own edits on
  top of the parent it looked up. `ViewInv`: without pulls, what a create or a move
  saw is what its commit is put on; hence `CreatesNeverOverwrite` and
  `MovesCarryContent`. `LossInv`: what separates `main` from what a call on its way
  saw are commits of edits and deletes; hence `OnlySiblingsAreLost`
  (`OnlySiblingCommitsAreLost`) and, the part of the promise in `backend.rs` that
  holds, `CreatesAndMovesAreKept`. A drifted file has two leaves, of its two ids; `LossInv`
  is about leaves (`MemoryOf`), not files, and so holds for files however they are
  named. Assumptions: `AsksAssumption` (each task asks for one of `Calls`) and the
  types of paths, contents, seeds and pushed files (`PathsAssumption`,
  `ContentsAssumption`, `FilesAssumption`, `NoneAssumption`).
* **SyncEngineProofs.** What the engine guarantees of the histories of remotes and
  of `main`, for every set of remotes, groups, calls, commits and every bound.
  The argument: a transfer that has set `origin` finds a remote of the engine
  there, though maybe not its own (`OriginsAreBound`); for a group that one
  remote has, that can only be this remote, or one that refuses; heads only
  grow, so what was read from one stays a prefix of it (`TransfersAreExact`,
  `TrackingIsExact`); a fast-forward descends from where it compared
  (`MovesGoForward`); and a call pushes after all its fetches (`PushesComeLast`),
  so that what was fetched precedes what was pushed. `SyncInvariance` shows the
  conjunction with the typing parts (`ConfOK`, `StoreOK`, `IndexOK`, `CallsOK`)
  inductive, one lemma per part. From it follow `RemotesOnlyGrow`
  (`HeadsOnlyGrow`), `RewindsAreRaces` (`OnlyARaceRewinds`),
  `UnsharedGroupsStayExact` (`UnsharedGroupsAreExact`) and
  `UnsharedPushesHaveWhatWasFetched` (`UnsharedPushHasWhatWasFetched`); the last two
  are for groups that one remote of the engine has. The assumptions are
  `EditsAssumption` and `ScenariosAssumption`.
  What a call of the engine tells its caller is the second half. `ReportInv`
  follows a call through its phases: what is not settled is among the transfers
  that are left or under way. `ReportsAreComplete` (`ReportIsComplete`) follows, and
  `SharesOfTransfers` (`TypeOK`): a call never runs more transfers than its share.
* **TrackerProofs.** For every number of calls, tickets and numbers, in the layers of
  `MemoryToolsProofs` and one more.
  * `RouteInv`: where a call is in its route says which locks it holds, which file it
    is about and what the backend does for it (`TrackerInvariance`; `TypeCorrect`,
    which includes that no counter runs over `MaxNumber`; `TrackersImplementRepo`).
  * `CommitInv` and `LinkInv` (`CommitInvariance`): what a call has written is its own
    files on top of the parent it looked up; a ticket with a back link is superseded.
    The converse, hence `LinksStayPaired` (`LinksArePaired`), needs `OpenAsks`: no
    caller gives a create the status of a supersede. This is what the run `tracker`
    has; `unpaired_status` shows the other case.
  * `GroupInv` (`GroupInvariance`), without pulls, is the heart. Adds, supersedes and
    renames hold the group alone; updates and deletes share it and hold the leaf of
    their ticket. At any time there is a commit *r* (`LeftBy`), what the last exclusive
    call left, such that `main` and every commit a running update or delete was based
    on or has written are *r* with updates and deletes on top (`EditedFrom`): these may
    drop each other's commits, but not *r*, and none mints a number or sets a link of
    the supersede flow. So an exclusive holder commits on what it read
    (`GroupFollows`), and its commit is the next *r*: `NumbersStayUnique`
    (`NumbersAreUnique`), `LinksStayResolved` (`LinksResolve`), `SupersedesAreWhole`
    (`SupersedeIsWhole`) and `SupersededStaysFinal` (`SupersededIsFinal`).
  * `UpdateInv`: of one ticket, two updates exclude each other by its leaf lock, so the
    second read has what the first wrote, or a commit between them dropped it
    (`Unseen`, `CarriedTo`, `DraftCarries`); hence `UpdatesDoCompose`
    (`UpdatesCompose`).

  Assumptions: `AsksAssumption`, `SeedsAssumption`, `IdsAssumption` (a ticket gets a
  fresh id), `TicketPathsAssumption`, `TicketsAssumption` and `MaxNumberAssumption`.
* **ServerProofs.** `IdentitiesAreUsers` (`OneUserPerIdentity`) needs nothing but the
  unique keys, however visits interleave. `VersionsGrow`
  (`UncrowdedVersionsGrow`): a push of an uncrowded memory that has negotiated
  aims above the last row (`Bumped` is proved to grow), and the pointer has that row
  or the push is between the two. `LedgersAreApart` (`LedgersStayApart`).
  `PushesStay` (`AcceptedPushesStay`): whoever serves a push holds the lock of the
  group from its comparison to its swap, with or without a client. The types of both
  ledgers are `AccountTypesAreKept` and `LedgerTypesAreKept`. Assumptions:
  `AccountsAssumption`, `LedgerAssumption`, `GitAssumption`.
* **ClientProofs**, one component after the other:
  * *Session file.* `SessionInv`: every state in an inode was saved by a hook with a
    signature no later than the transcript's, and a hook that runs alone owns the
    sibling it writes. Hence `SoloSavesAreWhole` (`SavesAreWhole`) and, for any
    overlap, `AlarmsAreTrue` (`NoFalseAlarm`).
  * *Restores.* `RestoreInv`: what the stage, the aside directory and each
    repository have at each step of the swap, which handles may be stale, and what a
    crash left behind. `RestoresKeepGroups` (`RestoresAreWhole`) is for
    `~Overlap`; `mixed_restore` shows what overlapping restores do.
  * *Set-up.* `SetupInv` relates the config a call works with, the repository it
    made and the index, from its lock to its reply; `SetupRepliesStayTrue`
    (`RepliesStayTrue`) follows.
  * *Wiring.* The lemmas `OneDefault`, `CollectedShape`, `MergedShape` and
    `BuiltIsWired` are about the merge as a function: whatever two valid files say,
    what `Built` makes of them is an engine as it should be, or none. `WiringInv`
    carries this through the steps of the GUI and the tools
    (`EnginesStayWired`, `SyncIsWired`).
  * *Cache.* `CacheInv` says of every state what `IndexIsTrue` says between
    operations: a row agrees with `main` unless its key is unsure (`Unsure`: not
    told, still to be told, drifted or doubled) or was when a rebuild that has not
    committed listed its group (`Forgiven`); the rows a rebuild has staged agree as
    well, and of the group it is about to read it has listed every file that is not
    unsure. A commit that is dropped by another makes the keys of its files unsure,
    told or not. One lemma per kind of step; an operation on memories is `Steady`: it
    leaves the rows alone, and all that it changes is unsure. `IndexStaysTrue`
    follows.

  Assumptions: `SessionAssumption`, `RestoreAssumption`, `SetupAssumption`,
  `WiringAssumption` and `CacheAssumption`, which type the scenarios and say that
  an index built before holds the rows of a rebuild. TLC evaluates all of them.

* **ContentProofs.** About two pure algorithms, for every tree and archive and for
  every body and list of edits. The library's induction theorems cannot be used
  here (they take an operator), so induction over numbers is the lemma `CountedUp`
  about sets, which follows from the well-foundedness of `<`; that the recursive
  functions `Plan` and `Paths` exist, and so obey their definitions, is proved from it
  (`PlanIsARun`, `PathsAreANaming`).
  * *Replay of an archive.* One step settles its entry (`StepSettles`): whatever was
    there, the tree now has a file of that memory, which keeps its place and says what
    was asked, or is a conflict. Later steps of other memories leave that alone, and an
    archive has no memory twice, so at the end every entry stands, and a second replay
    does nothing at each step (`Settling`). `TreeInv` says that every `main` that
    operations, pulls and crashes make has one file per path, hence `ImportsSettle`
    (`ImportSettles`). Assumption: `CacheAssumption`.
  * *Sections of a body.* `IsNaming` says what a table of paths is, without recursion.
    In a body without suffixed headings, `PathsAreUnique`: sections of one name under
    one parent are counted apart, and a segment gives name and count back
    (`SegmentsTell`). `ParentsNest`: a heading lies within a section exactly if its
    parent does, where parents come from the parser's stack and the extent from the
    levels; so a path begins those of the section's own (`PrefixesNest`). `BodyInv`
    carries the shape of bodies through every edit (`EditsAreBodies`), hence
    `PathsDoNameSections` (`PathsNameSections`) and `BodyTypeCorrect` (`BodyTypeOK`).
  * *An upsert repeated.* A splice leaves what is above, adds at most one blank line
    on either side of the section, and puts the same lines in the place where they
    now are without changing anything (`SpliceParts`, `SpliceAgain`). Lines that agree up to a heading give it the same
    path (`SamePrefix`), so no heading above takes the section's path and the first
    one that has it is the one just written (`UpsertWrites`). What follows does not
    become part of it, because it ended the old section and the new one is no
    shallower (`SectionEnds`); this is where `Lifts` is excluded. Hence
    `UpsertsSettle` (`UpsertSettles`). Both rest on `BodiesAssumption`.

### What the proofs changed in the model

Four properties were true of the instances TLC had and false in general, and some
assumptions were missing.

* `OnlySiblingCommitsAreLost` said a dropped commit is always of another memory than
  its dropper's. With four calls it is not: edits of memories 1, 1, 2 and 3, where the
  second edit of 1 has looked up a `main` from which the first was already dropped,
  and puts back a history without it. The property now says so (`LostBefore`), and
  starts over when a pull moves `main` (`PullLanded`).
* `IndexIsTrue` was false when a *drifted* file is deleted, moved or replaced: its row
  under the stem stays, though no memory of that id was touched. `untold` holds keys
  now, and two scenarios do it.
* `RestoresAreWhole` was false when the rename in and the rename back both fail; the
  model had left the second out. It is claimed for one failure.
* `UpdatesCompose` was false with four updates. Updates of other tickets may drop and
  bring back a commit of this one's: *t* and *u* of one ticket, *v* and *w* of two
  others. *w* drops *t*'s commit, *u* composes without it; *v*, which was based on
  *t*'s, brings it back, *u* commits on top, and *t*'s edit is undone though its commit
  is on `main`. The property now asks that no commit between the two dropped *t*'s.
  `SupersededIsFinal` likewise speaks of links that the supersede flow has set.
* The replay of an archive chose among several files of one memory by what they say;
  the code keeps the one at the last path (`Kept`). An archive that has one memory
  twice, as an export of a group with doubled ids does, need not settle: with
  `overwrite` each replay writes the first text and then the second.
  `CacheAssumption` leaves such archives out.
* A scenario of the remotes could name a group for a project that no index could
  have; `WiringAssumption` types the scenarios now.

Only model-checked: liveness (`EveryChainIsGranted`, `CallsEnd`, `PushesEnd`;
fairness and `ENABLED` are beyond the prover); of `EditsLand` the half
`MovesLandAtTheAnchor`, which is about `SelectSeq`, an operator with an operator as
its argument that is defined by recursion (the half `UpsertSettles` is proved); and `StoresTypeOK`, of which the parts about
section edits, the session file, accounts and the version ledger are proved. What a
violation run shows is a behaviour, not a theorem.

## 5. Not modelled

* `debug_write_file` of the debug mode, which writes any file without a lock.
* Tools that only read (they take no lock and change nothing), listing, history
  walks, diagnostics, and the text and frontmatter of memories (parsing and
  rendering, byte offsets, code fences).
* Git: clone, the pack protocol inside gix, branches other than `main`, garbage
  collection; a second mmcp process on the same repository (the source puts it
  out of scope; `sync_pull`, which takes no lock, behaves like one).
* Trackers: refs, the milestones of a feature, hybrid memories (a feature and an
  issue block in one file), the rollup but for its failure.
* Sync: the HTTP client, and the values of credentials (which variables they are
  read from is in `RemoteWiring`).
* Archive: export (it reads group by group while commits proceed), filters, the
  mapping of all groups of an archive into one.
* Server: passwords, passkeys (a ceremony is keyed by its user and taken once),
  session cookies, issue and expiry of push tokens.
* Sessions: recorded reads and the other hooks; pruning.
* `set_group_protected`, the prompts of the command line, embeddings and queries
  of the cache, its schema migration.
* Access and load-set resolution (pure functions over glob patterns), the database
  layer (the unique keys it declares are in `VersionLedger` and `Accounts`), the web
  front end, and of the GUI and the command line all but the settings and the engine.

## 6. Divergences met and not stated as runs

Each is what the code does where a reader of its documents may expect
otherwise; paths are relative to `crates/`.

* *Memory tools.* A memory's leaf is "held `Shared` by reads and `Exclusive` by writes"
  (`mmcp-store/src/lock.rs:76-77`), but a drifted file has two: an edit by slug locks
  the id in its name (`memory.rs:493`), an edit by id the one inside (574-605,
  `mmcp-client/src/commands/serve.rs:3287-3291`). The seeds of `memory_tools` reach
  both at their commits of the one file. A move renames a drifted file that was
  addressed by its inner id after that id, and one addressed by its slug after the
  old name (`memory.rs:945`).
* *Section edits.* An upsert that writes a shallower level than the section it
  replaces takes over the sections behind it, and repeated it deletes them
  (`mmcp-store/src/memory_ops.rs:285`; the test at 1372 says an idempotent op must
  not drift the body; `UpsertSettles` excludes `Lifts`). A move whose cut
  renumbers repeated names looks its anchor up after the cut and may land at
  another section (398-404; `MovesLandAtTheAnchor` excludes `Renumbers`).
* *Trackers.* A second ticket under an occupied slug is accepted, although
  `mmcp-store/src/issues.rs:200`, `milestones/crud.rs:108` and the tool
  descriptions say it errors. `list_milestones` fails for the whole group as soon
  as a slug has two files, which `memory.rs:1064` calls legal. A number may be
  used again after a delete. Updates of *other* tickets can undo an update that has
  replied ok (section 4, `UpdatesCompose`), although `features.rs:594-595` says that
  only edits of the same memory contend; the cause is the double lookup
  (`mmcp-git/src/native/repo_ops.rs:1375`), and it takes four calls, one more than
  `tracker` has.
* *Sync.* A group that is merely ahead of its remote is reported as diverged
  (`mmcp-git/src/native/repo_ops.rs:596-612`). A timed-out MCP sync leaves the
  fast-forward it began running (`serve.rs:6419-6429`). A pull that brings a new
  manifest does not refresh the index, and the watcher is not recursive.
* *Remotes.* The saves of the two settings files each check against the other as
  it was, so that two of them, both accepted, can leave a pair that does not
  resolve (the test at `gui/src-tauri/src/commands/config.rs:213`, under `src/`, says
  the check keeps such a pair from the start of the GUI). A failed change of the
  reference point sets no error, which `state.rs:79` says it does, and the GUI goes
  on with the engine of the project before. Two overlapping changes can leave the
  probe of one beside the engine of the other (`state.rs:70`: probes never outlive
  their config). A read between truncate and write sees an empty user file and
  takes it for one without remotes.
* *Credentials.* A `server_url` of the user and one of a project read the same two
  variables (`mmcp-store/src/sync/engine_wiring.rs:161-165`), so the two servers are
  always sent the same tokens.
* *Cache.* Deletes, moves and forced restores never tell the cache, and a write whose
  commit the next one dropped has told it what `main` no longer has. A drifted file
  gets two rows. A first build may overtake a write. A pull beside an import can
  leave two files with one id; an import without `overwrite` replaces a file that
  was pulled between its snapshot and its commit (`archive/import.rs:52-54`).
* *Restore.* The path is not there "throughout" the swap (`archive/import.rs:398`,
  `mmcp-git/src/native/backend.rs:157`). What a crashed restore left is never
  cleaned, nor is the old repository moved back. A rename back that fails is not
  reported. A history export walks the git directory while commits proceed.
* *Set-up.* A slow refresh beside a faster one lets `create_group` give a slug
  twice (`groups.rs:174`; `group.rs` says slugs are unique in the mirror), and
  `init_project` does not look. A repository left without a manifest is never
  repaired: init replies ok. A save of `.mmcp.toml` truncates in place;
  `subscribe` can undo a slug that was filled in. An import takes no process lock
  and can overwrite the manifest and owner that an init recorded.
* *Version ledger.* Overlapping pushes of a memory can assign one version twice or
  set the pointer back; a failure between the version row and the pointer makes
  the next push repeat the version. The tag `v<version>` is shared by all memories
  of a group.
* *Sessions.* Overlapping hooks lose turns and flags and can rename each other's
  half-written file.
* *Git plane.* A slow client holds the lock of a group, with no timeout; one that is
  silent holds it for ever.
* *Accounts.* A first login that fails between its two inserts leaves a user
  without a link, who keeps a candidate handle for good.

## 7. Plan

Done: all modules above and their proofs. Next, in order of what they add:

1. A form of `MovesLandAtTheAnchor` without `SelectSeq`, for a proof: where a splice
   puts its lines is known by now (`SpliceParts`).
2. Beyond the model: hybrid memories, the reuse of numbers after a delete,
   passkey ceremonies, the export beside commits.
