CONSTANTS
 Bodies <- MCBodies
 Batches <- MCBatches
 Probes <- MCProbes
 MaxLines = 7
 Workers = {"w1", "w2", "w3"}
 Groups = {"g1", "g2"}
 CacheScenarios <- MCCacheScenarios
 Nobody = nobody
 NoId = noid
 MaxMishaps = 1
 Requests = {"r1", "r2", "r3", "r4", "r5"}
 Publishes <- MCPublishes
 KnownGroups = {"g1", "g2"}
 Unpublished = unpublished
 MaxDbFailures = 1
 Clients = {"c1", "c2", "c3"}
 Posts <- MCPosts
 Hosted = {"g1"}
 Unlocked = unlocked
 PipeSize = 1
 Hooks = {h1, h2}
 Inodes = {n1, n2, n3}
 NoInode = noinode
 NoSignature = nosignature
 Torn = torn_file
 MaxTranscript = 2
 MaxCompactions = 1
 MaxKills = 1
 Visits = {"v1", "v2", "v3", "v4", "v5"}
 Visit <- MCVisit
 Handles <- MCHandles
 SelfService = TRUE
 NoUser = nouser
 MaxSlips = 1
 SetupCalls = {"s1", "s2", "s3"}
 Given = {"u0"}
 SlugNames = {"one", "two"}
 NoSlug = noslug
 NoUuid = nouuid
 Entries = {"one", "tag"}
 Watcher = "watcher"
 Unheld = "unheld"
 SetupScenarios <- MCSetupScenarios
 MaxSetupFailures = 1
 Restores = {"i1", "i2", "i3"}
 Restore <- MCRestore
 Readers = {"k1"}
 ReadOf <- MCReadOf
 Size = 2
 Overlap = FALSE
 MaxBreaks = 2
 MaxCrashes = 1
 Tasks = {"e1", "e2", "e3", "e4"}
 GuiTasks = {"e1", "e2", "e3"}
 KeyOf <- MCKeyOf
 SafeNames = {"eu", "Eu", "us", "User_Legacy", "user", "project"}
 LegacyName <- MCLegacyName
 HomeOf <- MCHomeOf
 References = {"h1", "h2", "lost"}
 Indexed = {"h1", "h2"}
 NoRef = noref
 NoEngine = noengine
 NoUrl = nourl
 WiringScenarios <- MCWiringScenarios
 MaxRestarts = 1
SPECIFICATION Spec
CHECK_DEADLOCK FALSE
INVARIANTS
 StoresTypeOK
 PathsNameSections
 EditsLand
 IndexIsTrue
 ImportSettles
 UncrowdedVersionsGrow
 LedgersStayApart
 AcceptedPushesStay
 SavesAreWhole
 OneUserPerIdentity
 RepliesStayTrue
 RestoresAreWhole
 SyncIsWired
PROPERTIES
 PushesEnd
 NoFalseAlarm
