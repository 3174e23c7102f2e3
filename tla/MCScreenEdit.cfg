SPECIFICATION Spec
CONSTANTS
  MaxCol = 2
  MaxRow = 2
  MaxCells = 2
  InitCol = 1
  InitRow = 2
  TabSpaces = 2
  MaxArg = 2
  Pens = {p0}
  DefaultPen = p0
  ZeroPen = p0
  Glyphs = {a}
  Controls = {ctl}
  Blank = blank
  AltGarbage = {blank}
  DECALNGlyph = E
  Input <- EditInput
PROPERTIES
  PrimaryKept
  CursorLineSurvivesResize
