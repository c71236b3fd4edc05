SPECIFICATION ServicesSpec
CONSTANTS
  Rooms = {room}
  Intervals = {i1, i2}
  SecondsPerMinute = 3
  MinuteChoices = {1, 2, 3}
  WarningChoices = {2}
  MaxMinutes = 5
  NoInterval = NoInterval
  Requests = {r1, r2, r3}
  Direct = {d1}
  Interval = 2
  MaxRetries = 1
  Conns = {k1, k2}
  Connects = {n1, n2}
  ToolCalls = {t1}
  NoConn = NoConn
INVARIANTS
  TypesOK CountdownMatchesState WarnedBeforeEnd ToolServersAreTracked AnswersAreGrounded
PROPERTIES
  KeepsPromise CountdownTerminates EveryRequestEnds
CHECK_DEADLOCK FALSE
