CONSTANTS
  c1 = c1
  c2 = c2
  c3 = c3
  s1 = s1
  s2 = s2
  Calls <- ThreeCalls
  Ids <- TwoIds
  Requests <- Offered
  Contents = {"a", "b"}
  Big = {}
  Wide = {"b"}
  MaxSessions = 1
  MaxEpoch = 1
  None = None
SPECIFICATION Spec
INVARIANTS WithinLimit OwnDirectory DeltaIsSafe
SYMMETRY Interchangeable
