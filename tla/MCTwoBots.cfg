SPECIFICATION Spec
CONSTANTS
  Starts = {s1, s2}
  Stops = {}
  Cleanups = {}
  Humans = {h1}
  MaxTimers = 2
  NoBot = NoBot
INVARIANT OneBotPerRoom
