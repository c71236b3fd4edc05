SPECIFICATION SerialSpec
CONSTANTS
  Starts = {s1, s2}
  Stops = {}
  Cleanups = {c1}
  Humans = {h1}
  MaxTimers = 2
  NoBot = NoBot
PROPERTY ShutdownSparesCompany
