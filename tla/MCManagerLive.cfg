SPECIFICATION Spec
CONSTANTS
  gateway = gateway
  other = other
  Insts = {gateway, other}
  Name <- Kinds
  Closing = {other}
  Handling = {gateway}
  Writing = {other}
  Injector = injector
  AddCap = 1
  SrcCap = 1
  MergedCap = 1
  RecvCap = 1
  MaxSent <- Sends
  None = None
CONSTRAINTS
  OneChannel
  OneKind
ACTION_CONSTRAINT AddedOnce
PROPERTIES
  Delivered
  ShutdownReturns
CHECK_DEADLOCK FALSE
