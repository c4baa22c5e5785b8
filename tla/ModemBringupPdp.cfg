SPECIFICATION MBSpec
CONSTANTS
  HasPower = TRUE
  Bauds = 2
  HandshakeTries = 1
  PostTries = 2
  HitThreshold = 2
  PollLimit = 1
  RestartLimit = 0
  CallLimit = 1
  LateLimit = 0
INVARIANTS
  ReadyHasPdp
CHECK_DEADLOCK FALSE
