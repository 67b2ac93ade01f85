-------------------------------- MODULE MCStores --------------------------------
(***************************************************************************)
(* The stores that do not interact, checked in one run: every behaviour is *)
(* one of one of them.                                                     *)
(***************************************************************************)
EXTENDS SectionEdits, ContentCache, VersionLedger, GitPlane, SessionStore, Accounts, GroupSetup,
        RemoteWiring, MCHistoryRestore, TLC

VARIABLE active

others(a) ==
  /\ a # "body" => UNCHANGED bodyVars
  /\ a # "cache" => UNCHANGED cacheVars
  /\ a # "ledger" => UNCHANGED ledgerVars
  /\ a # "git" => UNCHANGED gitVars
  /\ a # "session" => UNCHANGED sessionVars
  /\ a # "accounts" => UNCHANGED accountVars
  /\ a # "setup" => UNCHANGED setupVars
  /\ a # "restore" => UNCHANGED restoreVars
  /\ a # "wiring" => UNCHANGED wiringVars
  /\ UNCHANGED active
allVars == <<active, bodyVars, cacheVars, ledgerVars, gitVars, sessionVars, accountVars, setupVars,
            restoreVars, wiringVars>>

-----------------------------------------------------------------------------
(* SectionEdits *)
a == <<"a">>
b == <<"b">>
c == <<"c">>
Word == Text(<<"x">>)
a2 == <<"a", 2>>
Name == <<a>> :> a @@ <<b>> :> b @@ <<a2>> :> a @@ <<a, b>> :> b @@ <<c>> :> c

MCBodies == {
  <<>>,
  <<Word, Blank, Heading(1, a), Blank, Heading(2, b), Blank, Word>>,
  <<Heading(1, a), Blank, Heading(1, a), Blank, Heading(1, b)>>,
  <<Heading(2, a), Blank, Quoted(1, b), Word, Blank, Heading(1, c)>>,
  <<Heading(1, a), Blank, Heading(1, a2), Blank, Heading(2, a)>>,
  <<Heading(1, a), Blank, Word, Blank, Blank, Heading(1, b), Blank, Word>>}

Up(p, l, t) == [op |-> "upsert", path |-> p, level |-> l, name |-> Name[p], text |-> t]
Mv(p, q, f) == [op |-> "move", path |-> p, anchor |-> q, before |-> f]
Del(p) == [op |-> "delete", path |-> p]
Rep(p, t) == [op |-> "replace", path |-> p, text |-> t]
Ins(p, l, f) == [op |-> "insert", path |-> p, level |-> l, name |-> a, text |-> <<>>, before |-> f]
Lns(i, j, t) == [op |-> "lines", start |-> i, end |-> j, text |-> t]

MCProbes ==
  {Up(p, l, t) : p \in DOMAIN Name, l \in 1..2, t \in {<<>>, <<Word>>, <<Heading(1, c)>>}}
    \union {Mv(p, q, f) : p \in {<<a>>, <<b>>, <<a, b>>, Preamble}, q \in {<<a>>, <<b>>, <<a2>>}, f \in BOOLEAN}
MCBatches ==
  {<<Del(<<a>>)>>, <<Del(<<a, b>>)>>, <<Rep(<<a>>, <<Word>>)>>, <<Rep(Preamble, <<>>)>>,
   <<Ins(<<a>>, 1, FALSE)>>, <<Ins(<<b>>, 2, TRUE)>>, <<Ins(<<b>>, 7, TRUE)>>,
   <<Lns(1, 2, <<>>)>>, <<Lns(2, 2, <<Quoted(2, a)>>)>>,
   <<Mv(<<a>>, <<b>>, FALSE)>>, <<Mv(<<b>>, <<a>>, TRUE), Up(<<a, b>>, 2, <<>>)>>,
   <<Up(<<c>>, 1, <<Word>>), Mv(<<c>>, <<a>>, TRUE)>>}

-----------------------------------------------------------------------------
(* ContentCache *)
F(s, i, x) == File(s, i, i, x)
NoWork == [op |-> "none"]
Edit(g, f) == [op |-> "write", group |-> g, file |-> f, leaf |-> f.id]
Drop(g, f) == [op |-> "delete", group |-> g, file |-> f, leaf |-> f.id]
Shift(g, f, s) == [op |-> "move", group |-> g, file |-> f, leaf |-> f.id, slug |-> s]
Named(w) == [w EXCEPT !.leaf = w.file.stem]  \* addressed by the name of its file
Import(g, arch, ow) == [op |-> "import", group |-> g, archive |-> arch, overwrite |-> ow]
Pulled(g, fs, gone) == [op |-> "pull", group |-> g, files |-> fs, gone |-> gone]
Search == [op |-> "search", group |-> "g1"]
ax == F("s", "a", "x")
Idless == [slug |-> "s", stem |-> "d", id |-> NoId, text |-> "x"]
Tidy == [g \in Groups |-> IF g = "g1" THEN {ax} ELSE {F("s", "h", "x")}]
Drift == [g \in Groups |-> IF g = "g1" THEN {File("t", "c", "a", "x"), F("s", "b", "x")} ELSE {}]
Case(tr, bu, x, y, z) ==
  [tree |-> tr, built |-> bu, rows |-> IF bu THEN Rebuilt(tr) ELSE {},
   work |-> [w1 |-> x, w2 |-> y, w3 |-> z]]
NoCase == Case(Tidy, TRUE, NoWork, NoWork, NoWork)
MCCacheScenarios == {NoCase,
  Case(Tidy, TRUE, Edit("g1", F("s", "a", "y")), Pulled("g1", {F("s", "b", "x")}, {}), Edit("g1", F("s", "b", "y"))),
  Case(Tidy, TRUE, Edit("g1", F("s", "a", "y")), Pulled("g1", {F("s", "a", "z")}, {}), Search),
  Case(Tidy, TRUE, Edit("g1", F("s", "a", "y")), Drop("g1", F("s", "b", "x")), Edit("g1", F("t", "b", "x"))),
  Case(Tidy, TRUE, Edit("g1", F("s", "a", "y")), Pulled("g1", {}, {ax}), Pulled("g2", {F("s", "b", "x")}, {})),
  Case(Tidy, FALSE, Edit("g1", F("s", "a", "y")), Search, Pulled("g2", {F("s", "b", "x")}, {})),
  Case(Tidy, FALSE, Search, Search, Pulled("g1", {F("s", "b", "x")}, {ax})),
  Case(Tidy, TRUE, Shift("g1", ax, "t"), Drop("g1", F("t", "a", "x")), Pulled("g1", {F("s", "b", "x")}, {})),
  Case(Tidy, FALSE, Import("g1", <<F("s", "a", "y"), F("s", "b", "x"), Idless>>, FALSE),
       Import("g1", <<F("t", "b", "y")>>, TRUE), Search),
  Case(Drift, TRUE, Import("g1", <<F("s", "a", "y"), F("t", "b", "z")>>, TRUE),
       Import("g1", <<Idless, F("u", "a", "w")>>, FALSE), Edit("g1", F("s", "b", "x"))),
  Case(Drift, TRUE, Import("g1", <<F("t", "c", "x")>>, FALSE), Pulled("g1", {}, {F("s", "b", "x")}),
       Import("g1", <<F("t", "a", "z")>>, TRUE)),
  Case(Tidy, TRUE, Import("g1", <<F("u", "b", "w"), F("s", "a", "y")>>, FALSE),
       Pulled("g1", {F("s", "b", "x")}, {}), Drop("g1", ax)),
  Case(Drift, TRUE, Named(Drop("g1", File("t", "c", "a", "x"))), Shift("g1", F("s", "b", "x"), "u"),
       Pulled("g1", {F("t", "c", "z")}, {})),
  Case(Drift, FALSE, Search, Edit("g1", F("t", "c", "y")), Named(Shift("g1", File("t", "c", "a", "x"), "u")))}

-----------------------------------------------------------------------------
(* VersionLedger, GitPlane, Accounts *)
Publish(g, m, bump) == [group |-> g, memory |-> m, bump |-> bump, commit |-> <<g, m, bump>>, token |-> TRUE]
MCPublishes ==
  [r1 |-> Publish("g1", "m", "patch"), r2 |-> Publish("g1", "m", "major"),
   r3 |-> Publish("g2", "m", "minor"), r4 |-> Publish("g1", "m", "minor"),
   r5 |-> [Publish("g1", "n", "patch") EXCEPT !.token = FALSE]]

Post(s, size) == [group |-> "g1", service |-> s, size |-> size, answer |-> 1]
MCPosts == [c1 |-> Post("receive", 2), c2 |-> Post("receive", 2), c3 |-> Post("upload", 1)]

Octo == [op |-> "oauth", identity |-> "octo"]
MCVisit == [v1 |-> Octo, v2 |-> Octo, v3 |-> [op |-> "register", handle |-> "octo"],
            v4 |-> [op |-> "oauth", identity |-> "octa"], v5 |-> Octo]
MCHandles == [octo |-> <<"octo", "oct-2">>, octa |-> <<"octa", "oct-2">>]

-----------------------------------------------------------------------------
(* GroupSetup *)
Idle == [op |-> "none"]
InitAs(u, s) == [op |-> "init", uuid |-> u, slug |-> s, configOnly |-> FALSE]
Create(s) == [op |-> "create", slug |-> s, configOnly |-> FALSE]
Adopt(u, s) == [op |-> "adopt", uuid |-> u, slug |-> s, configOnly |-> FALSE]
Subscribe(e) == [op |-> "subscribe", entry |-> e]
Unsubscribe(e) == [op |-> "unsubscribe", entry |-> e]
Setting(conf, w, x, y, z) ==
  [config |-> conf, watches |-> w, asks |-> [s1 |-> x, s2 |-> y, s3 |-> z]]
Legacy == Project("u0", NoSlug, {"tag"})
NoSetup == Setting(Missing, FALSE, Idle, Idle, Idle)
MCSetupScenarios == {NoSetup} \union UNION {{
  Setting(Missing, w, InitAs(NoUuid, "one"), InitAs(NoUuid, "one"), Subscribe("tag")),
  Setting(Missing, w, InitAs("u0", "one"), [InitAs(NoUuid, "two") EXCEPT !.configOnly = TRUE], Create("one")),
  Setting(Legacy, w, InitAs(NoUuid, "one"), InitAs(NoUuid, NoSlug), Unsubscribe("tag")),
  Setting(Legacy, w, Create("one"), Create("one"), Subscribe("one")),
  Setting(Legacy, w, InitAs("u0", "one"), Adopt("u0", "one"), Create("two"))} : w \in BOOLEAN}

-----------------------------------------------------------------------------
(* RemoteWiring *)
MCKeyOf == [eu |-> "EU", Eu |-> "EU", us |-> "US", bad |-> "BAD", User_Legacy |-> "USER_LEGACY",
            user |-> "USER_LEGACY", project |-> "PROJECT_LEGACY"]
MCLegacyName == [user |-> "user", project |-> "project"]
MCHomeOf == [p1 |-> "h1", p2 |-> "h2"]
Server(n, d) == [name |-> n, kind |-> "server", default |-> d, group |-> NoRef]
Direct(n, ref, d) == [name |-> n, kind |-> "direct", default |-> d, group |-> ref]
Remotes(rs) == Config(FALSE, rs, FALSE)
Own(rs) == Config(FALSE, rs, TRUE)
Url == Config(TRUE, <<>>, FALSE)
UserFiles ==
  {NoSettings, Url, Config(TRUE, <<Server("eu", FALSE)>>, FALSE), Hollow,
   Remotes(<<Server("bad", FALSE)>>), Remotes(<<Direct("eu", NoRef, TRUE)>>),
   Remotes(<<Direct("eu", "h2", TRUE), Server("us", FALSE)>>),
   Remotes(<<Server("eu", TRUE), Server("us", TRUE)>>)}
ProjectFiles ==
  {NoFile, Hollow, NoSettings, Url, Own(<<>>), Own(<<Server("Eu", FALSE)>>), Own(<<Server("us", FALSE)>>),
   Config(TRUE, <<Direct("us", NoRef, TRUE)>>, TRUE),
   Remotes(<<Server("User_Legacy", TRUE)>>), Remotes(<<Server("user", TRUE)>>), Remotes(<<Server("eu", FALSE), Server("Eu", FALSE)>>),
   Remotes(<<Direct("us", "lost", FALSE), Server("Eu", TRUE)>>), Remotes(<<Direct("us", NoRef, TRUE)>>)}
Rest == [op |-> "none"]
Switch(p) == [op |-> "switch", root |-> p]
Pull == [op |-> "sync"]
Tool(p) == [op |-> "tool", root |-> p]
SaveUser(f) == [op |-> "user", config |-> f]
SaveProject(p, f) == [op |-> "project", root |-> p, config |-> f]
Subscribing(p) == [op |-> "subscribe", root |-> p]
Wiring(u, f1, f2, w, x, y, z) ==
  [user |-> u, projects |-> [p1 |-> f1, p2 |-> f2], anchor |-> "p1",
   requests |-> [e1 |-> w, e2 |-> x, e3 |-> y, e4 |-> z]]
NoWiring == Wiring(NoSettings, NoFile, NoFile, Rest, Rest, Rest, Rest)
EuDefault == Remotes(<<Server("eu", TRUE)>>)
JustEu == Remotes(<<Server("eu", FALSE)>>)
UsDefault == Remotes(<<Server("us", TRUE)>>)
JustUs == Remotes(<<Server("us", FALSE)>>)
OwnDirect == Remotes(<<Direct("us", NoRef, TRUE)>>)
NothingWired == <<NoWiring.user, NoWiring.projects, NoWiring.requests>>
MCWiringScenarios == {NoWiring}
  \union {Wiring(u, f, NoFile, Switch("p1"), Rest, Rest, Tool("p1")) : u \in UserFiles, f \in ProjectFiles}
  \union {
    Wiring(JustEu, UsDefault, OwnDirect, Switch("p2"), Switch("p1"), Pull, Tool("p2")),
    Wiring(EuDefault, UsDefault, NoFile, SaveUser(JustEu), SaveProject("p1", JustUs), Switch("p1"), Tool("p1")),
    Wiring(JustEu, JustUs, NoFile, SaveProject("p1", UsDefault), Switch("p1"), Pull, Subscribing("p1")),
    Wiring(JustEu, Own(<<Server("Eu", FALSE)>>), UsDefault, SaveUser(JustUs), Switch("p1"), Switch("p2"), Tool("p1")),
    Wiring(Url, OwnDirect, JustUs, SaveUser(EuDefault), Switch("p2"), Pull, Subscribing("p2"))}

-----------------------------------------------------------------------------
Init ==
  /\ active \in {"body", "cache", "ledger", "git", "session", "accounts", "setup", "restore", "wiring"}
  /\ IF active = "body" THEN BodyInit
     ELSE body = <<>> /\ draft = <<>> /\ todo = <<Del(<<a>>)>>  \* an edit nobody goes on with
  /\ CacheInit /\ (active = "cache" <=> work # NoCase.work)
  /\ SessionInit /\ (active = "session" \/ file = NoInode)
  /\ SetupInit /\ (active = "setup" <=> ask # NoSetup.asks)
  /\ RestoreInit /\ (active = "restore" \/ owned = {})
  /\ WiringInit /\ (active = "wiring" <=> <<userFile, projectFile, command>> # NothingWired)
  /\ LedgerInit /\ GitInit /\ AccountsInit

Next ==
  \/ active = "body" /\ BodyNext /\ others("body")
  \/ active = "cache" /\ CacheNext /\ others("cache")
  \/ active = "ledger" /\ LedgerNext /\ others("ledger")
  \/ active = "git" /\ GitNext /\ others("git")
  \/ active = "session" /\ SessionNext /\ others("session")
  \/ active = "accounts" /\ AccountsNext /\ others("accounts")
  \/ active = "setup" /\ SetupNext /\ others("setup")
  \/ active = "restore" /\ RestoreNext /\ others("restore")
  \/ active = "wiring" /\ WiringNext /\ others("wiring")

\* The stores keep their types: lines of a body, one file at a path and one row
\* for a memory, one writer of the index, versions and users that exist, pipes
\* within their bounds, hooks that know where they are, configs and owners.
StoresTypeOK ==
  /\ BodyTypeOK /\ CacheTypeOK /\ LedgerTypeOK /\ GitTypeOK /\ SessionTypeOK
  /\ AccountsTypeOK /\ SetupTypeOK /\ RestoreTypeOK /\ WiringTypeOK

\* Fair is only what the server does; the clients may fall silent.
ServerStepOf(cl) == active = "git" /\ ServerStep(cl) /\ others("git")
Spec == Init /\ [][Next]_allVars /\ \A cl \in Clients : WF_allVars(ServerStepOf(cl))
=============================================================================
