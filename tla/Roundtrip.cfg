SPECIFICATION Spec
CONSTANTS
  GPSEC_RETRIES = 2
  PollLimit = 1
  Rounds = 1
  PayloadLen = 2
  Window = 3
  SendLimit = 3
  StallLimit = 1
  NoPeer = NoPeer
INVARIANTS
  RTTypeOK
  SuccessIsEchoed
  NothingIsLeaked
PROPERTIES
  SessionEnds
  ServerConnectionsEnd
CHECK_DEADLOCK FALSE
