SPECIFICATION FairSpec
CONSTANTS
  h1 = h1
  h2 = h2
  t1 = t1
  t2 = t2
  WakeFd = WakeFd
  Handles <- MCHandles
  Tokens <- MCTokens
  Interests <- MCInterests
  Worlds <- MCWorlds
  MAX_EVENTS_PER_WAIT = 2
  OutSizes = {0, 1, 3}
INVARIANTS
  WakeIsExact
PROPERTIES
  TriggersAreWanted
  WakeEndsWait
