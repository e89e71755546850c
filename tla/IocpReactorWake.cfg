SPECIFICATION IocpFairSpec
CONSTANTS
  h1 = h1
  h2 = h2
  Handles <- MCHandles
  WAKE_KEY = WAKE_KEY
  Interests <- MCInterests
  Fires <- MCFires
  MAX_EVENTS_PER_WAIT = 2
  MaxAdds = 2
  MaxQueue = 1
PROPERTY WakeEndsWait
CHECK_DEADLOCK FALSE
