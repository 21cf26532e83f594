CONSTANTS
  Threads = {t1, t2}
  Nodes = {a1, a2, a3}
  Objects = {o1}
  MaxOrphans = 1
  NULL = NULL
SPECIFICATION FairPoolSpec
INVARIANTS OneThreadPerArena ArenasListed ArenasBounded
PROPERTIES ReserveEnds ExitEnds
CHECK_DEADLOCK FALSE
