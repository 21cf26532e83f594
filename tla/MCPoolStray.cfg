CONSTANTS
  Threads = {t1, t2}
  Nodes = {a1, a2, a3}
  Objects = {o1}
  MaxOrphans = 0
  NULL = NULL
SYMMETRY MCSymmetry
SPECIFICATION PoolSpec
INVARIANTS FreesGoHome
CHECK_DEADLOCK FALSE
