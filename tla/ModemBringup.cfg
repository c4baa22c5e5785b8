SPECIFICATION MBSpec
CONSTANTS
  HasPower = TRUE
  Bauds = 2
  HandshakeTries = 1
  PostTries = 2
  HitThreshold = 1
  PollLimit = 1
  RestartLimit = 1
  CallLimit = 1
  LateLimit = 1
INVARIANTS
  MBTypeOK
  RegisteredWhenReady
  PdpWhenReady
  OneAnswerBehind
PROPERTIES
  BringUpEnds
CHECK_DEADLOCK FALSE
