CONSTANTS
  Threads = {t1, t2}
  Statics = {s1}
  o1 = o1
  o2 = o2
  Objects = {o1, o2}
  Sizes <- MCSizes
  Word = 8
  MaxMade = 2
  NULL = NULL
SPECIFICATION FairObjectSpec
INVARIANTS OneInstance HeapOutlivesAllocator ReleasedOnce DeletedByTheLast FreesWhereAllocated BlocksFit DanglesOnlyThroughEarly
PROPERTIES OperationsEnd
CHECK_DEADLOCK FALSE
