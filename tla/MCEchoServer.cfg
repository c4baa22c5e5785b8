SPECIFICATION ESSpec
CONSTANTS
  Conn = {c1}
  Rounds = 2
  Unit <- MCUnit
  Header <- MCHeader
  Announced <- MCAnnounced
  DroneLen = 2
  Window = 1
  SendLimit = 6
  StallLimit = 1
INVARIANTS
  ESTypeOK
  EchoIsPrefix
PROPERTIES
  ConnectionsEnd
CHECK_DEADLOCK FALSE
