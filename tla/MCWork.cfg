SPECIFICATION MCSpec
CONSTANTS
  Jobs = {j1, j2}
  MaxWorkers = 2
  Limit = 2
  DBFails = TRUE
  NoJob = NoJob
  MaxLines = 1
  LeftJobs = {j1}
  JobIds = {k1}
  JobUsers = {u1}
  MaxJobs = 1
  JobTimeout = 1
  LastStart = 1
  JobClockEnd = 4
  Never = Never
INVARIANTS
  PoolInv
  LifecycleInv
PROPERTIES
  StopReturns
  JobsTaken
  InterruptStops
  StuckJobsEnd
CHECK_DEADLOCK FALSE
