SPECIFICATION MeetingSpec
CONSTANTS
  Starts = {s1, s2}
  Stops = {}
  Cleanups = {e2}
  Humans = {h1}
  MaxTimers = 1
  NoBot = NoBot
  MaxFrames = 6
  PreBufferFrames = 2
  SilenceThreshold = 1
  MinVoiceFrames = 2
  MinLength = 1
  MaxLength = 4
  Participants = {p1, p2}
  Nobody = Nobody
  Ticks = {t1, t2}
  Reports = {r1, r2}
  NoReport = NoReport
  MaxUtterances = 3
  MaxMeetings = 2
  MaxHistory = 3
  MaxTurns = 7
  Queries = {q1, q2}
  Rooms = {m1, m2}
  Evidence = {v1, v2}
  Cooldown = 2
  Minute = 2
  Types = {i1, i2, i3}
  MaxAnalyses = 1
  MaxInsights = 2
  MaxReturned = 3
  Learners = {l1}
  Calls = {c1, c2}
  MaxQuizzes = 1
  MaxSessions = 1
  MaxAnswers = 3
  MaxTokens = 5
  Ids = {n1, n2, n3}
  Dangling = {d1}
  MaxEdges = 3
INVARIANTS
  TypesOK NoZombieContext UtterancesDoNotOverlap MemoryIsRecent StudyIsFair WakeWordLeads
  DepthIsDistance
PROPERTIES
  RoomModesAgree RemarksAreSpaced
CHECK_DEADLOCK FALSE
