SPECIFICATION MCSpec
CONSTANTS
  Requests = {r1, r2}
  Foreign = {m1}
  MsgCap = 1
  NoReply = NoReply
  p1 = p1
  p2 = p2
  Pages = {p1, p2}
  Creds <- MCCreds
  Topic <- MCTopic
  Threads = {"", "t1"}
  BufCap = 2
  MaxEvents = 3
  Auth = "apikey"
  Owner = "owner"
  Conns = {c1, c2}
  QueueCap = 1
  MaxSaid = 2
  Hooks = {h1, h2, h3}
  HookCap = 1
  MaxQuestions = 3
  LLMTools = {"shell", "http"}
  MaxBlocks = 2
  ServiceIds <- MCServiceIds
  MaxEntries = 2
INVARIANTS
  GatewayInv
  HubInv
  StreamFollowsChat
  SocketInv
  HookInv
  ProviderInv
  StreamInv
PROPERTIES
  ChatReturns
  HandlersEnd
CHECK_DEADLOCK FALSE
