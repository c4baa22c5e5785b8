SPECIFICATION Spec
CONSTANTS
  h1 = h1
  h2 = h2
  p1 = p1
  p2 = p2
  HostName <- MCHostName
  PortNo <- MCPortNo
  BadPort = BadPort
  Garbage = Garbage
  Lines <- AllLines
  DefaultHost = h1
  DefaultPort = p1
  NoText = NoText
  NoFile = NoFile
  Blank = Blank
  Torn = Torn
  FlashFaults = FALSE
  DriverFaults = TRUE
  EditLimit = 2
  CutLimit = 1
INVARIANTS
  TypeOK
  NoEjectIsLost
PROPERTIES
  RecordOutlivesDisk
CHECK_DEADLOCK FALSE
