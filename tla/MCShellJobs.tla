----------------------------- MODULE MCShellJobs -----------------------------
EXTENDS ShellJobs
CONSTANTS c1, c2, make, test

TwoCalls == {c1, c2}
OneCommand == {make}
TwoCommands == {make, test}
==============================================================================
