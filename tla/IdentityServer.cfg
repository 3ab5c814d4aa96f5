SPECIFICATION Spec
CONSTANTS
  Requests <- MCRequests
  Users <- MCUsers
  Addresses <- MCAddresses
  Secrets <- MCSecrets
  Root = "root"
  NoOne = "none"
  Scenarios <- MCScenarios
  MaxFaults = 1
INVARIANT BindingsConsistent
INVARIANT SuccessValidates
INVARIANT LatestKeyKept
INVARIANT LogoutHolds
PROPERTY Answered
CHECK_DEADLOCK FALSE
