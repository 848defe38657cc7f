CONSTANTS
  p1 = p1
  p2 = p2
  P <- MCP
  W = 3
  ChunkBlocks = 1
  NChunks = 2
  MaxCachePages = 3
  MaxHeapPages = 2

SYMMETRY Symmetry

SPECIFICATION Spec

INVARIANTS
  TypeOK
  PagesConserved
  SearchAddrBound
  ScavengedTracked
  NoThrow
