SPECIFICATION MCFairSpec
CONSTANTS
  Flows = {f1, f2}
  Users = {u1}
  CaptureIds = {c1}
  NoId = NoId
  NoUser = NoUser
INVARIANT CapturesTakeTurns
PROPERTY PublishingEnds
