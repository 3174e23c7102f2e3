SPECIFICATION Spec
CONSTANTS
  NumRows <- SmallRows
  RowLength <- SmallRowLength
  Width <- SmallWidth
  Key <- SmallKeys
  LShiftAt <- SmallLShift
  RShiftAt <- SmallRShift
  Letters <- SmallLetters
  Upper <- SmallUpper
  CtrlChars <- SmallCtrl
  Buttons = {"L1", "R1", "A", "X", "RIGHT", "LEFT", "DOWN", "UP", "Y", "START", "MENU"}
  Togglable <- ModifierPositions
  HoldMax = 2
  SynthMax = 2
CHECK_DEADLOCK FALSE
INVARIANTS
  SelectionOnKeyboard
  ModsMirrorToggles
