SPECIFICATION Spec
CONSTANTS
  HEADER_SIZE = 6
  MIN_BLOCK_SIZE = 4
  GRAIN = 2
  META = 2
  CHUNK = 12
  InitialSize = 24
  MaxLimit = 36
  Requests = {2, 5}
  Alignments = {4}
  MaxLive = 3
VIEW HeapView
INVARIANTS
  AreaDescribed
  PayloadsDisjoint
  NoAdjacentFree
  NothingLost
PROPERTIES
  HeldBlocksStable
  IsAllocator
