------------------------------ MODULE MCSessions ------------------------------
EXTENDS Sessions, TLC

CONSTANTS c1, c2, c3, s1, s2
ThreeCalls == {c1, c2, c3}
TwoIds == {s1, s2}

Offer(s, root, reports, tool, arg) ==
  [id |-> s, root |-> root, reports |-> reports, tool |-> tool, arg |-> arg]

\* One session in full: every tool, another anchor, no epoch.  The other one
\* contends for the table; what it does to the file is a Change to the first.
Offered == {
  Offer(s1, "home", TRUE, "view", "delta"), Offer(s1, "home", FALSE, "view", "full"),
  Offer(s1, "work", TRUE, "workdir", "src"), Offer(s1, "home", TRUE, "edit", "check"),
  Offer(s1, "home", TRUE, "workdir", "src"), Offer(s2, "home", TRUE, "workdir", "reset")}

Interchangeable == Permutations(ThreeCalls)
==============================================================================
