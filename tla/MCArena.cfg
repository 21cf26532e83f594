CONSTANTS
  MAX_BLOCKS = 2
  BlockSize = 2
  SizeT = 64
  Addresses <- MCTwoChunks
  Foreign <- MCForeign
  Handles = {h1, h2, h3}
  NULL = NULL
SYMMETRY MCSymmetry
SPECIFICATION Spec
INVARIANTS CurrentsRegistered FreeNeverRefuses CleanChunksSound WildOnlyWhenTainted
CHECK_DEADLOCK FALSE
