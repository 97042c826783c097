CONSTANTS
  s1 = s1
  s2 = s2
  s3 = s3
  one = one
  two = two
  Streams <- ThreeStreams
  Sessions <- TwoSessions
  Owner = one
  SessionOf <- LastInTwo
SPECIFICATION FairSpec
INVARIANTS TypeOK NoCompletionMissed FallbackNotSuppressed NoSinkIsLeaked
PROPERTIES EveryStreamIsTold
CHECK_DEADLOCK FALSE
