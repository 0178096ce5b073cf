SPECIFICATION Spec
CONSTANTS
  a1 = a1
  a2 = a2
  Insts = {a1, a2}
  Name <- Namesakes
  Closing = {a1}
  Handling = {}
  Writing = {}
  Injector = injector
  AddCap = 1
  SrcCap = 1
  MergedCap = 1
  RecvCap = 1
  MaxSent <- ChannelsOnly
  None = None
CONSTRAINT Alive
INVARIANTS
  Conserved
  ManagerInv
CHECK_DEADLOCK FALSE
