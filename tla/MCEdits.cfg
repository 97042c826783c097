CONSTANTS
  c1 = c1
  c2 = c2
  c3 = c3
  Calls <- ThreeCalls
  Names = {1, 2}
  LinkOf <- NoLinks
  Present = {1, 2}
  Ops = {"edit", "delete", "undo", "transaction", "view"}
  FaultyOps = {"transaction"}
  Absent = Absent
  None = None
  Files = {"f1", "f2"}
  Sizes = {0, 1, 2, 4}
  PerFile = 2
  ByteCap = 3
  MaxEdits = 5
SPECIFICATION EditsSpec
INVARIANTS BudgetIsKept UndoSkipsNoEdit
PROPERTIES ImplementsAtomic UndoRevertsLastEdit
SYMMETRY Interchangeable
CHECK_DEADLOCK FALSE
