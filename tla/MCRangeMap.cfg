CONSTANTS
  Ranges <- MCRanges
  Keys <- MCKeys
  NoNode = NoNode
  HeightMax = 127
SPECIFICATION MapSpec
INVARIANTS SearchTree FindExact IterationIsSortedPrefix
PROPERTIES SetSpec
