SPECIFICATION CursorSpec
CONSTANTS
  MaxCol = 2
  MaxRow = 2
  MaxCells = 4
  InitCol = 2
  InitRow = 2
  TabSpaces = 1
  MaxArg = 3
  Pens = {p0}
  DefaultPen = p0
  ZeroPen = p0
  Input <- Sent
INVARIANTS
  CursorInScreen
  WrapOnlyAtLastColumn
PROPERTIES
  TextStaysInRegion
