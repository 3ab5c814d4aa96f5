SPECIFICATION Spec
CONSTANTS
  Requests <- MCRequests
  Ids <- MCIds
  Home <- MCHome
  LocalPart <- MCLocalPart
  NoLocalPart = "none"
  Words <- MCWords
  Nothing = Nothing
  Scenarios <- MCScenarios
  MaxFaults = 1
INVARIANT ShownByConsent
 
INVARIANT WordsKept
CHECK_DEADLOCK FALSE
