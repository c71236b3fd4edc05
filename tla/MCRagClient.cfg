SPECIFICATION ClientSpec
CONSTANTS
  Sockets = {s1, s2, s3, s4}
  MaxReconnectAttempts = 3
  NoSocket = NoSocket
  Calls = {c1, c2}
  NoCall = NoCall
  Questions = {q1, q2}
  Texts = {t1}
  Contexts = {x1, x2}
  NoContext = NoContext
  NoQuestion = NoQuestion
  N = 3
  BufferMax = 2
  MaxRetry = 1
  MaxOpens = 2
  SendResults = {"sent", "thrown"}
  Bots = {b1}
  BotStops = {e1}
  BotCleanups = {e2}
  Humans = {h1, h2}
  MaxTimers = 2
  NoBot = NoBot
INVARIANTS
  TypesOK RecoveryPending RegisteredWaits NothingVanishes
PROPERTIES
  DeadEntryResolved EveryCallReturns EventuallyReceived DepartureLeadsToShutdown
CHECK_DEADLOCK FALSE
