SPECIFICATION FairSpec
CONSTANTS
  h1 = h1
  h2 = h2
  WakeFd = WakeFd
  Handles <- MCOneHandle
  NTasks = 2
  MaxSuspends = 2
  MaxStops = 1
  MaxSteps = 2
  MAX_EVENTS_PER_WAIT = 1
PROPERTIES
  StopEndsRun
  CancelledIsResumed
  RunReturns
