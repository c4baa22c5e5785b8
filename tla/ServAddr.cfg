SPECIFICATION SASpec
CONSTANTS
  Addr = {a1, a2, a3}
  Malformed = {m1}
  NoText = NoText
  Blank = Blank
  Torn = Torn
  FlashFaults = TRUE
INVARIANTS
  SATypeOK
  RecordIsRunning
  AddressIsEarned
PROPERTIES
  FailBackRule
  ImplementsFailBack
