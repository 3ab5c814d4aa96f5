SPECIFICATION Spec
CONSTANTS
  Requests = {1, 2, 3}
  Users = {"alice", "bob", "carol"}
  Contacts = {"c"}
  Malformed = "malformed"
  NoContact = "no contact"
  None = None
  Scenarios <- MCRetry
INVARIANTS UsedOnce
