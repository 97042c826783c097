---------------------------- MODULE MCRemoteEdits ----------------------------
EXTENDS RemoteEdits

CONSTANTS c1, c2, c3

Url(host, user, port, path) ==
  [host |-> host, user |-> user, port |-> port, path |-> path, relative |-> <<>>]

\* The same path below the homes of two accounts.
TwoHomes == {Url("web", "ann", Unset, <<"~", "f">>), Url("web", "bob", Unset, <<"~", "f">>)}

\* The user's ssh configuration has a User for the host.
HostNames == [h \in {"web"} |-> Unset]
Users == [h \in {"web"} |-> "ann"]
Ports == [h \in {"web"} |-> Unset]
==============================================================================
