SPECIFICATION MCSpec
CONSTANTS
  Delays = {1, 2}
  MaxStarts = 4
  MaxFires = 3
  s1 = s1
  s2 = s2
  k1 = k1
  k2 = k2
  None = None
  Sleepers <- MCSleepers
  Sockets <- MCSockets
  MaxSleeps = 3
  Nodes = {n1, n2, n3}
  Nil = Nil
  MaxArms = 5
INVARIANTS
  NoStrayThread
  WakesItsOwn
  ListIsSound
PROPERTIES
  TimerAnswers
  SleepEnds
  ImplementsList
CHECK_DEADLOCK FALSE
