CONSTANTS
  t1 = t1
  t2 = t2
  a = a
  b = b
  g1 = g1
  g2 = g2
  e1 = e1
  p1 = p1
  q1 = q1
  watcher = watcher
  Groups = {g1, g2}
  Refreshers = {watcher}
  NoOne = NoOne
  Tasks = {t1, t2}
  Remotes = {a, b}
  NoRemote = NoRemote
  NoGroup = NoGroup
  Here = Here
  Edits = {e1, p1, q1}
  Author <- MCAuthor
  Place <- MCPlace
  MaxTransfers = 2
  MaxFaults = 1
  Scenarios <- PullScenarios
SPECIFICATION Spec
INVARIANT MainFollowsTheDefault
CHECK_DEADLOCK FALSE
