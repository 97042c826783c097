CONSTANTS
  c1 = c1
  c2 = c2
  make = make
  test = test
  Calls <- TwoCalls
  Commands <- TwoCommands
  None = None
SPECIFICATION FairSpec
INVARIANTS FinishedIsReadable CaptureLivesAsNeeded
PROPERTIES InFlightIsKilled ImplementsCommandLife EveryCallIsAnswered EveryExitIsTold
CHECK_DEADLOCK FALSE
