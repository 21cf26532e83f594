CONSTANTS
  Threads = {t1, t2}
  Nodes = {n1, n2, n3, n4}
  NULL = NULL
SPECIFICATION FairEraseSpec
INVARIANTS NothingLost StorageExact TouchesLiveOnly BackLinked
PROPERTIES PushListSpec PushesProgress WalksEnd
