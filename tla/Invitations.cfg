SPECIFICATION LiveSpec
CONSTANTS
  Requests = {1, 2, 3, 4}
  Users = {"alice", "bob", "carol"}
  Contacts = {"c"}
  Malformed = "malformed"
  NoContact = "no contact"
  None = None
  Scenarios <- MCScenarios
INVARIANTS AcceptedHasRoom UsedOnceWhenQuiet OnePendingWhenSerial  FailedInviteLeavesNothing
PROPERTIES AcceptanceTakesEffect
