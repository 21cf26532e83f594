CONSTANTS
  MAX_BLOCKS = 3
  BlockSize = 2
  SizeT = 64
  Begin = 20
  Outside <- MCOutside
SPECIFICATION Spec
INVARIANTS TypeOK FreeListIsTail EmptyMeansUnused
PROPERTIES NoDoubleAllocation
