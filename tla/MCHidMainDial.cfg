SPECIFICATION Spec
CONSTANTS
  h1 = h1
  h2 = h2
  p1 = p1
  p2 = p2
  HostName <- MCHostName
  PortNo <- MCPortNo
  BadPort = BadPort
  Garbage = Garbage
  Lines <- TwoLines
  DefaultHost = h1
  DefaultPort = p1
  NoText = NoText
  NoFile = NoFile
  Blank = Blank
  Torn = Torn
  FlashFaults = FALSE
  DriverFaults = FALSE
  EditLimit = 2
  CutLimit = 1
PROPERTIES
  DialsActiveAddress
CHECK_DEADLOCK FALSE
