SPECIFICATION Spec
CONSTANTS
  HEADER_SIZE = 6
  MIN_BLOCK_SIZE = 4
  GRAIN = 2
  META = 2
  CHUNK = 12
  InitialSize = 40
  MaxLimit = 40
  Requests = {2}
  Alignments = {8}
  MaxLive = 3
VIEW HeapView
INVARIANT
  AllFreedCoalesced
