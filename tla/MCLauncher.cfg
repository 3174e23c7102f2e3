SPECIFICATION FairSpec
CONSTANTS
  Sizes = {0, 1, 4}
  PageSize = 2
  Buttons = {"A", "B", "UP", "DOWN", "LEFT", "RIGHT"}
  Keys = {"UP", "DOWN", "POWER"}
  QueueMax = 2
  Fingers = 2
CHECK_DEADLOCK FALSE
INVARIANTS
  HeldFollowsButtons
PROPERTIES
  HoldScrolls
