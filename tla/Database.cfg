SPECIFICATION Spec
CONSTANTS
  Texts <- MCTexts
  Null = "NULL"
  Columns = {"id", "n"}
  Rank <- MCRank
  Fold <- MCFold
  Tables = {"t", "u"}
  ReadCalls <- MCReadCalls
  WriteCalls <- MCWriteCalls
  MaxWrites = 3
  Starters = {1, 2}
  Schemas = {"keys", "hashes"}
  InitRows <- MCInitRows
  MaxStarts = 2
  MaxFaults = 1
INVARIANT SelectsExactly
INVARIANT WritesExactly
 
INVARIANT ReadyMeansComplete
PROPERTY StartSettles
 
CHECK_DEADLOCK FALSE
