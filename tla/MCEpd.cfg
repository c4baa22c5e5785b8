SPECIFICATION Spec
CONSTANTS
  EPD_WIDTH = 16
  EPD_HEIGHT = 6
  CellSize = 3
  Zpix <- MCZpix
  Font5x7 <- MCFont5x7
  TextX = 9
  TextY = 1
  MaxCols = 2
  MaxRows = 3
  LINE_SPACING_DEFAULT = 1
  Spacings <- MCSpacings
  FirstTexts <- MCFirstTexts
  NextPage <- MCNextPage
  PageCount = 2
  Shapes <- MCShapes
  MaxCalls = 3
  MaxText = 4
  BREATH_MAX = 4
  HUE_MAX = 6
INVARIANTS EpdTypeOK TextIsLaidOut ShapesAreClipped ShownWhenOk
PROPERTY CallsReturn
CHECK_DEADLOCK FALSE
