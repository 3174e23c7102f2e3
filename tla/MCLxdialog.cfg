SPECIFICATION Spec
CONSTANTS
  ListHeight = 3
  MAX_LEN = 5
  BoxWidth = 3
  Chars <- Chars_
  Sizes <- Sizes_
  MaxItems = 9
  MaxInit = 3
  MaxLast = 20
CHECK_DEADLOCK FALSE
INVARIANTS
  HighlightShown
  TextEdited
  
