SPECIFICATION Spec
CONSTANTS
  MaxCol = 1
  MaxRow = 3
  MaxCells = 3
  InitCol = 1
  InitRow = 3
  TabSpaces = 2
  MaxArg = 2
  Pens = {p0}
  DefaultPen = p0
  ZeroPen = p0
  Glyphs = {a}
  Controls = {ctl}
  Blank = blank
  AltGarbage = {blank}
  DECALNGlyph = E
  Input <- ScrollInput
INVARIANTS
  CleanRowsShown
PROPERTIES
  SelectionFollowsText
  
