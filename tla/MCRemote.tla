------------------------------ MODULE MCRemote ------------------------------
(***************************************************************************)
(* The session pool and the remote file tools side by side.  RemoteEdits   *)
(* assumes of a session that an operation succeeds or fails at any moment, *)
(* so they share no state; `part` says which of them moves.                *)
(***************************************************************************)
EXTENDS SftpPool, RemoteEdits, TLC

CONSTANTS c1, c2, c3
VARIABLE part

ASSUME RemoteEditsAssumption

\* Authentication: the key the agent offers is configured twice.
AgentOffers == <<"ed25519">>
Files == <<"id_work", "id_work">>

\* One file, spelled in two ways, the second in full and below a remote
\* working directory.  The user's ssh configuration has a User for the host.
Url(user, port, path, relative) ==
  [host |-> "web", user |-> user, port |-> port, path |-> path, relative |-> relative]
OneFile == {Url(Unset, Unset, <<"srv", "f">>, <<>>), Url("ann", 22, <<"srv">>, <<"f">>)}
HostNames == [h \in {"web"} |-> "web.lan"]
Users == [h \in {"web"} |-> "ann"]
Ports == [h \in {"web"} |-> Unset]

RemoteInit ==
  /\ part \in {"pool", "edits"}
  /\ Init /\ EditsInit
  /\ part = "pool" => \A p \in DOMAIN file : file[p] = Absent

RemoteNext ==
  /\ UNCHANGED part
  /\ \/ part = "pool" /\ Next /\ UNCHANGED editVars
     \/ part = "edits" /\ EditsNext /\ UNCHANGED vars

RemoteSpec == RemoteInit /\ [][RemoteNext]_<<part, vars, editVars>> /\ Fairness
=============================================================================
