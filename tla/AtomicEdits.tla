----------------------------- MODULE AtomicEdits -----------------------------
(***************************************************************************)
(* What the locks, snapshots and rollbacks of FileEdits are for: seen from *)
(* outside, its tools do what AtomicFiles promises.                        *)
(***************************************************************************)
EXTENDS FileEdits

\* Every call takes effect at one instant on all its files, or not at all and
\* then says so, and undo gives back what the file held before the edit it
\* undoes.  The call's effect is its write; a transaction's is its Record: its
\* files are hidden behind its locks until then.
Midway(c) == tool[c] = "transaction" /\ pc[c] \in {"commit", "restore", "record"}
Saved(c) == pc[c] = "write" /\ TakesSnapshot(tool[c]) /\ Exists(Name(c))
Popped(c) == pc[c] = "write" /\ tool[c] = "undo"

ContentOf(n) ==
  IF \E c \in Calls : Midway(c) /\ n \in names[c]
  THEN before[CHOOSE c \in Calls : Midway(c) /\ n \in names[c]][n]
  ELSE file[n]

StackOf(n) ==
  IF \E c \in Calls : Saved(c) /\ n \in names[c] THEN Front(history[n])
  ELSE IF \E c \in Calls : Popped(c) /\ n \in names[c]
  THEN Append(history[n], before[CHOOSE c \in Calls : Popped(c) /\ n \in names[c]][n])
  ELSE history[n]

OutcomeOf(c) ==
  IF pc[c] = "note" THEN "ok" ELSE IF reply[c] = "none" THEN "pending" ELSE reply[c]

Atomic == INSTANCE AtomicFiles WITH
  content <- [n \in Names |-> ContentOf(n)],
  stack <- [n \in Names |-> StackOf(n)],
  outcome <- [c \in Calls |-> OutcomeOf(c)]
ImplementsAtomic == Atomic!AtomicSpec

\* undo_edit: "revert the last edit to `path`; ... delete included.  Powered
\* by FILE_HISTORY: a content snapshot is saved before every write"
\* (doc/tools.md).  Whatever fails, an undo that goes through restores what
\* the file held before the last write to it that has not been undone.
UndoRevertsLastEdit ==
  [][\A c \in Calls :
       tool[c] = "undo" /\ pc[c] = "write" /\ pc'[c] = "note" =>
         LET n == Name(c) IN past[n] # <<>> /\ file'[n] = Last(past[n])]_vars
==============================================================================
