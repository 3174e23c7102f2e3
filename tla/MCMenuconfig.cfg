SPECIFICATION ConfSpec
CONSTANTS
  SymType <- Types
  Const <- Constants
  Number <- Numbers
  StrRank <- Ranks
  Modules = "MODULES"
  Files <- Kconfigs
  Parsed <- ParsedKconfigs
  NumberName <- Names
  WithPrefix <- Prefixed
  HandWritten <- Configs
  Strings <- Typed
  MaxKeys <- Keys
  Lines <- TypedLines
  MaxLines <- TypedMost
  Dice <- Drawn
CHECK_DEADLOCK FALSE
INVARIANTS
  NothingElseStale
  DefconfigReproduces
  OneOfAChoice
  TextIsKept
  EverythingReachable
  WrittenIsSettled
  AllAnswered
PROPERTIES
  
  LoadRestores
  ChangesAreTouched
