SPECIFICATION Spec
CONSTANTS
  Threads = {t1, none}
  Requests = {r1, r2, r3}
  Calls <- MCCalls
  TTL = 1
  MaxTime = 2
  None = None
  NoThread = none
  JobCalls <- MCJobCalls
  Plans <- MCPlans
  Trust = "balanced"
  AutoApproved = {}
  LearnTTL = 3
  MaxBatches = 2
SYMMETRY Symmetry
INVARIANTS
  BatchInv
  AuthorityInv
PROPERTY
  ExecutionsKept
