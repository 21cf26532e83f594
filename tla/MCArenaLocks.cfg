CONSTANTS
  Threads = {t1, t2, t3}
  Chunks = {c1, c2, c3}
  NULL = NULL
SPECIFICATION FairSpec
INVARIANTS OwnerAlone CurrentNotStale RacesOnlyWithPlainFree
PROPERTIES CallsReturn
