SPECIFICATION LiveSpec
CONSTANTS
  Users = {"alice", "bob"}
  Fields <- MCFields
  Values = {"A", "B"}
  None = None
  Msgs = {1, 2, 3, 4, 5}
  UserOf <- MCUserOf
  Payload <- MCPayload
  Slots = {s1, s2}
  Envs <- MCEnvs
CHECK_DEADLOCK FALSE
INVARIANTS SynchronizedWhenPaced 
  
