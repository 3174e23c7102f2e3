SPECIFICATION FairSpec
CONSTANTS
  Faults = {"crash", "kill", "mkfs"}
  MaxFaults = 3
CHECK_DEADLOCK FALSE
INVARIANTS
  
  ScriptFindsVariables
PROPERTIES
  UserDataKept
  
