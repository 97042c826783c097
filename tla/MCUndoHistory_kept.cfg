CONSTANTS
  f1 = f1
  f2 = f2
  Files <- TwoFiles
  Sizes = {0, 1, 2, 4}
  PerFile = 2
  ByteCap = 3
  MaxEdits = 5
SPECIFICATION HistorySpec
INVARIANT EditJustMadeIsUndoable
SYMMETRY Interchangeable
CHECK_DEADLOCK FALSE
