SPECIFICATION Spec
CONSTANTS
  MaxFrames = 4
  PreBufferFrames = 1
  SilenceThreshold = 1
  MinVoiceFrames = 2
  MinLength = 1
  MaxLength = 3
INVARIANT BargeInIsHeard
CHECK_DEADLOCK FALSE
