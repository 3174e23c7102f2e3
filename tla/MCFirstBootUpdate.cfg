SPECIFICATION UpdateSpec
CONSTANTS
  Faults = {"update"}
  MaxFaults = 1
CHECK_DEADLOCK FALSE
PROPERTIES
  UserDataKept
