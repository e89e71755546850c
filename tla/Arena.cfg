SPECIFICATION ArenaSpec
CONSTANTS
  small = small
  wide = wide
  plain = plain
  local = local
  Allocators <- MCAllocators
  Linear <- MCLinear
  Stacked <- MCStacked
  SizeOf <- MCSizeOf
  AlignOf <- MCAlignOf
  NodeSize = 4
  NodeAlign = 4
  PoolSize = 3
  PoolAlign = 2
  MaxAlign = 4
  PerChunk = 2
  Begin = 1
  End = 36
  Buf = 48
  N = 4
  Counts = {1, 3, 48}
  SizeMod = 128
CONSTRAINT UntilWrapped
INVARIANTS
  BlocksAreSound
