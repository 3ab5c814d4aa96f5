SPECIFICATION Spec
CONSTANTS
  Users = {"a", "b"}
  AddressOf <- MCAddressOf
  None = None
  Scenarios <- MCFailedRotation
CHECK_DEADLOCK FALSE
INVARIANT LookupFinds
