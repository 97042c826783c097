---------------------------- MODULE MCUndoHistory ----------------------------
EXTENDS UndoHistory, TLC
CONSTANTS f1, f2

TwoFiles == {f1, f2}
Interchangeable == Permutations(TwoFiles)
==============================================================================
