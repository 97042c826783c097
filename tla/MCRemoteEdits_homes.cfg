CONSTANTS
  c1 = c1
  c2 = c2
  c3 = c3
  Writers = {c1, c2, c3}
  Sources <- TwoHomes
  HostName <- HostNames
  ConfigUser <- Users
  ConfigPort <- Ports
  EnvUser = "me"
  Tools = {"edit", "undo"}
  Faulty = FALSE
  Absent = Absent
  Unset = Unset
SPECIFICATION EditsSpec
PROPERTY UndoRevertsItsFile
