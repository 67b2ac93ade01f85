CONSTANTS
  t1 = t1
  t2 = t2
  t3 = t3
  g1 = g1
  m1 = m1
  m2 = m2
  h1 = h1
  h2 = h2
  h3 = h3
  h4 = h4
  Tasks <- MCTasks
  Groups = {g1}
  Memories = {m1}
  Handles = {h1, h2, h3}
  NoHandle = NoHandle
  NoChain = NoChain
  Threshold = 2
  Asks <- EditorsAndCoarsener
SPECIFICATION FairSpec
PROPERTY
  EveryChainIsGranted
