CONSTANTS
  t1 = t1
  t2 = t2
  t3 = t3
  s1 = s1
  s2 = s2
  i1 = i1
  i2 = i2
  n1 = n1
  Tasks <- MCTasks
  Peer = Peer
  Paths <- MCPaths
  Contents <- MCContents
  Group = g1
  Slugs = {s1, s2}
  Ids = {i1, i2}
  Names = {n1}
  NoSlug = NoSlug
  NoId = NoId
  NoPath = NoPath
  Asks <- AnyCall
  Seeds <- MCSeeds
  Sent <- MCSent
  MaxFetched = 1
SPECIFICATION Spec
SYMMETRY MCSymmetry
INVARIANTS
  TypeOK
  CreateNeverOverwrites
  MoveCarriesContent
PROPERTIES
  StableView
  OnlySiblingCommitsAreLost
  NothingSeenIsDropped
CHECK_DEADLOCK FALSE
