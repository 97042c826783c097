CONSTANTS
  c1 = c1
  c2 = c2
  c3 = c3
  Calls <- ThreeCalls
  Names = {1, 2}
  LinkOf <- TwoIsALink
  Present = {1}
  Ops = {"edit"}
  FaultyOps = {}
  Absent = Absent
  None = None
SPECIFICATION Spec
INVARIANTS WritersSerialize
SYMMETRY Interchangeable
