SPECIFICATION Spec
SYMMETRY MCSymmetry
CONSTANTS
  h1 = h1
  h2 = h2
  WakeFd = WakeFd
  Handles <- MCHandles
  NTasks = 2
  MaxSuspends = 2
  MaxStops = 0
  MaxSteps = 2
  MAX_EVENTS_PER_WAIT = 2
INVARIANTS
  NoDangling
  ParkedIsReachable
  FramesAreOwned
PROPERTIES
  ResumedForAReason
  IdleRunLeavesNothing
