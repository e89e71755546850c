SPECIFICATION IocpFairSpec
CONSTANTS
  h1 = h1
  h2 = h2
  Handles <- MCHandles
  WAKE_KEY = WAKE_KEY
  Interests <- MCInterests
  Fires <- MCFires
  MAX_EVENTS_PER_WAIT = 2
  MaxAdds = 3
  MaxQueue = 0
PROPERTY DrainAlwaysEnds
CHECK_DEADLOCK FALSE
