SPECIFICATION FairSpec
CONSTANTS
  NRows = 2
  Texts = {none, a}
  NoText = none
  none = none
  a = a
  Apps <- Programs_
  PtyMax = 1
  ReadCap = 2
  QueueMax = 2
  KeyMax = 1
INVARIANTS
  NoLostWakeup
PROPERTIES
  FlaggedRowsDrawn
  QuietShown
  
