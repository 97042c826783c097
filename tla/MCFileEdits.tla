----------------------------- MODULE MCFileEdits -----------------------------
EXTENDS FileEdits, TLC
CONSTANTS c1, c2, c3

ThreeCalls == {c1, c2, c3}
TwoIsALink == [n \in Names |-> 1]
Interchangeable == Permutations(Calls)
==============================================================================
