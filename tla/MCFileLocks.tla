----------------------------- MODULE MCFileLocks -----------------------------
EXTENDS FileLocks
CONSTANTS c1, c2, c3, l1, l2, l3

ThreeCalls == {c1, c2, c3}
ThreeLocks == {l1, l2, l3}
==============================================================================
