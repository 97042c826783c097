------------------------------- MODULE MCEdits -------------------------------
(***************************************************************************)
(* The local file tools that take locks, for what they promise about files *)
(* and undo, and the undo store with its caps, side by side.  They share   *)
(* no state here: the tools keep every snapshot.  `part` says which of     *)
(* them moves.                                                             *)
(***************************************************************************)
EXTENDS AtomicEdits, UndoHistory, TLC

CONSTANTS c1, c2, c3
VARIABLE part

ThreeCalls == {c1, c2, c3}
Interchangeable == Permutations(ThreeCalls)
NoLinks == [n \in Names |-> n]

EditsInit == part \in {"tools", "store"} /\ Init /\ HistoryInit

EditsNext ==
  /\ UNCHANGED part
  /\ \/ part = "tools" /\ Next /\ UNCHANGED historyVars
     \/ part = "store" /\ HistoryNext /\ UNCHANGED vars

EditsSpec == EditsInit /\ [][EditsNext]_<<part, vars, historyVars>>
=============================================================================
