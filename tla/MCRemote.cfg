CONSTANTS
  c1 = c1
  c2 = c2
  c3 = c3
  Calls = {c1, c2}
  Keys = {"alias", "host"}
  Jumped = {"alias"}
  Refused = {"host"}
  Agent <- AgentOffers
  KeyFiles <- Files
  Operations = 2
  None = None
  Writers = {c1, c2, c3}
  Sources <- OneFile
  HostName <- HostNames
  ConfigUser <- Users
  ConfigPort <- Ports
  EnvUser = "me"
  Tools = {"edit", "create", "delete", "undo"}
  Faulty = TRUE
  Absent = Absent
  Unset = Unset
SPECIFICATION RemoteSpec
INVARIANTS OnePrompt WritersSerialize DestroyedIsSaved
PROPERTIES FailedIsNotServedAgain EveryCallEnds
