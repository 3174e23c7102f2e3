SPECIFICATION RewriteSpec
CONSTANTS
  SymType <- Types
  Const <- Constants
  Number <- Numbers
  StrRank <- Ranks
  Vals <- Values
  Scripts <- All
INVARIANTS
  SameMeaning
  EliminationKeepsOrder
  DecidedBySymbols
  PrintedMeansTheSame
