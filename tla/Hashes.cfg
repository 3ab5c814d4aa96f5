SPECIFICATION LiveSpec
CONSTANTS
  Users = {"a", "b"}
  AddressOf <- MCAddressOf
  None = None
  Scenarios <- MCScenarios
CHECK_DEADLOCK FALSE
INVARIANTS LookupFindsUndisturbed RowsConsistent 
PROPERTY RotationPublishes
