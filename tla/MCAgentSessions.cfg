SPECIFICATION Spec
CONSTANTS
  Threads = {t1, t2, none}
  Requests = {r1, r2}
  Calls <- HighCalls
  TTL = 0
  MaxTime = 1
  None = None
  NoThread = none
  JobCalls <- NoJobs
  Plans <- HighPlans
  Trust = "balanced"
  AutoApproved = {}
  LearnTTL = 3
  MaxBatches = 2
INVARIANT
  AgentInv
PROPERTY
  AgentReturns
