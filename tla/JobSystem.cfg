SPECIFICATION WatchFairSpec
CONSTANTS
  Count = 2
  Limit = 2
  MaxJobs = 5
  U32 = 7
INVARIANTS
  JobInv
PROPERTIES
  WaitIdleMeansDone
  RefusedOnlyWhenAllFull
  WaitIdleCoversSubmittedBetweenSubmits
  EveryJobRuns
  CallsReturn
