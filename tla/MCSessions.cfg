SPECIFICATION SessionsSpec
CONSTANTS
  Starts = {a1, a2, a3}
  Stops = {z1, z2}
  NoEgress = NoEgress
  Updates = {w1, w2, w3}
  NoChapters = NoChapters
  People = {p1, p2}
  Reported = {"confused", "understood"}
  MaxConfusion = 3
  NoState = NoState
  Ticks = {k1, k2}
  NoOne = NoOne
  Speakers = {s1, s2, s3}
  StatsTicks = {q1, q2, q3}
  MaxDuration = 2
  Contexts = {g1, g2}
  MaxCaptures = 2
  MaxPending = 1
  NoContext = NoContext
INVARIANTS
  TypesOK RecordingIsTracked CellsAreConsistent ActionsAreJustified AlertsToldOnce
  IntervalsUnderControl

  
CHECK_DEADLOCK FALSE
