CONSTANTS
  Threads = {t1, t2}
  Statics = {s1}
  o1 = o1
  o2 = o2
  Objects = {o1, o2}
  Sizes <- MCLimits
  Word = 8
  MaxMade = 2
  NULL = NULL
SPECIFICATION ObjectSpec
INVARIANTS EverySizeHasAPool
CHECK_DEADLOCK FALSE
