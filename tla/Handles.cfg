SPECIFICATION MCSpec
CONSTANTS
  Values = {a, b}
  Null = Null
  GenMod = 3
  MaxAllocs = 5
  o1 = o1
  o2 = o2
  o3 = o3
  Owners <- MCOwners
  Resources = {1, 2, 3, 4}
  MaxContexts = 1
INVARIANTS
  FreeListIsExact
  LiveReadsItsOwn
  OneOwner
CHECK_DEADLOCK FALSE
