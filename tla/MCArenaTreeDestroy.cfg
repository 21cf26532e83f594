CONSTANTS
  MAX_BLOCKS = 1
  BlockSize = 2
  SizeT = 64
  Addresses <- MCFourChunks
  Foreign = {}
  Handles = {h1}
  NULL = NULL
  NoNode = NoNode
  Ranges <- MCRanges
  Keys <- MCKeys
  HeightMax = 127
SPECIFICATION TreeSpec
INVARIANTS DestroyReleasesAll
CHECK_DEADLOCK FALSE
