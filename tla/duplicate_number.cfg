CONSTANTS
  t1 = t1
  t2 = t2
  t3 = t3
  s1 = s1
  s2 = s2
  i1 = i1
  i2 = i2
  Tasks <- MCTasks
  Peer = Peer
  Paths <- MCPaths
  Contents <- MCContents
  Group = g1
  Slugs = {s1, s2}
  Ids <- MCIds
  NoSlug = NoSlug
  NoId = NoId
  NoPath = NoPath
  MaxNumber = 5
  Seeds <- MCSeeds
  Asks <- CreateAndPull
  MaxFetched = 1
SPECIFICATION Spec
INVARIANT
  NumbersAreUniqueUnderPull
CHECK_DEADLOCK FALSE
