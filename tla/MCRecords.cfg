SPECIFICATION MCSpec
CONSTANTS
  Users = {u1, u2}
  ThreadIds = {t1, t2}
  DbJobIds = {j1, j2}
  ToolNames = {shell, http}
  LastWrite = 4
  DefaultLimit = 2
  MaxTurns = 1
  MaxSaid = 2
  ConversationLimit = 2
  JobLimit = 2
SYMMETRY MCSymmetry
INVARIANTS
  ThreadsInv
  
  
CHECK_DEADLOCK FALSE
