CONSTANTS
  MAX_BLOCKS = 2
  BlockSize = 2
  SizeT = 64
  Addresses <- MCFiveChunks
  Foreign <- MCForeign
  Handles = {h1}
  NULL = NULL
  NoNode = NoNode
  Ranges <- MCRanges
  Keys <- MCKeys
  HeightMax = 127
SPECIFICATION TreeSpec
INVARIANTS TreeHoldsChunks
PROPERTIES ArenaSpec GrowsOnlyWhenFull ForgetsOnlyFar
CONSTRAINT MCFewTainted
CHECK_DEADLOCK FALSE
