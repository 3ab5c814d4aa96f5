SPECIFICATION LiveSpec
CONSTANTS
  Requests = {1, 2, 3, 4}
  Owners = {"alice", "bob"}
  Mxids = {"x", "y"}
  Names = {"n1", "n2"}
  NoName = NoName
  Payloads <- MCPayloads
  Patches <- MCPatches
  Directory <- MCDirectory
  None = None
  Worlds <- MCWorlds
INVARIANTS  BooksConsistent
PROPERTIES ListComplete OwnerOnly 
