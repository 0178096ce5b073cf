SPECIFICATION StoreSpec
CONSTANTS
  Threads = {t1, t2}
  Requests = {r1, r2, r3}
  Calls = {c1}
  TTL = 1
  MaxTime = 3
  None = None
SYMMETRY RequestSymmetry
INVARIANTS
  TypeOK
  IndexSound
  ApprovalSound
  OneAnswer
PROPERTIES
  ConsumedRemembered
  ImplementsLifecycle
