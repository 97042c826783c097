CONSTANTS
  SourceFiles <- Some
  Requests <- Nothings
  Blank <- Empty
  Idle = Idle
SPECIFICATION Spec
PROPERTY EveryReplaceIsAnswered
CHECK_DEADLOCK FALSE
