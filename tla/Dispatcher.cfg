SPECIFICATION FairSpec
CONSTANTS
  a = a
  b = b
  c = c
  h = h
  f1 = f1
  f2 = f2
  p = p
  q = q
  None = None
  Entries = {a, b, c, h}
  Volumes = {f1, f2}
  Protocols = {p, q}
  Files <- MCFiles
  Apriori <- MCApriori
  VolumeIn <- MCVolumeIn
  ArchProtocols = {p}
  Extraction = q
  Encapsulated = {b, h}
  Depexes <- MCDepexes
  LoadStatus <- MCLoadStatus
  Meaning <- MCMeaning
  MaxCallbacks = 1
INVARIANTS OneState DependencyMet Exhausted Ordered
PROPERTIES Companions DispatcherReturns
CHECK_DEADLOCK FALSE
