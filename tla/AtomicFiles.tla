----------------------------- MODULE AtomicFiles -----------------------------
(***************************************************************************)
(* What the writing tools promise about files: every call takes effect on  *)
(* all its files at one instant or not at all, and undo brings back what a *)
(* file held before the last call that changed it.  FileEdits implements   *)
(* it with locks, snapshots taken ahead of the write, and rollback.        *)
(*                                                                         *)
(* A file's content is the set of calls whose text is in it.               *)
(***************************************************************************)
EXTENDS Sequences, SequencesExt

CONSTANTS Calls, Names, Absent

VARIABLES content,   \* content[n]: what file n holds, or Absent
          stack,     \* stack[n]: what n held before each edit, oldest first
          outcome    \* outcome[c]: "pending", "ok" or "error"

atomicVars == <<content, stack, outcome>>

AtomicInit ==
  /\ content \in [Names -> {{}, Absent}]
  /\ stack = [n \in Names |-> <<>>]
  /\ outcome = [c \in Calls |-> "pending"]

Settle(c, result) ==
  /\ outcome[c] = "pending"
  /\ outcome' = [outcome EXCEPT ![c] = result]

\* A call adds its text to every file of S.
Edit(c, S) ==
  /\ Settle(c, "ok")
  /\ \A n \in S : content[n] # Absent
  /\ content' = [n \in Names |-> IF n \in S THEN content[n] \cup {c} ELSE content[n]]
  /\ stack' = [n \in Names |-> IF n \in S THEN Append(stack[n], content[n]) ELSE stack[n]]

Delete(c, n) ==
  /\ Settle(c, "ok")
  /\ content[n] # Absent
  /\ content' = [content EXCEPT ![n] = Absent]
  /\ stack' = [stack EXCEPT ![n] = Append(@, content[n])]

Undo(c, n) ==
  /\ Settle(c, "ok")
  /\ stack[n] # <<>>
  /\ content' = [content EXCEPT ![n] = Last(stack[n])]
  /\ stack' = [stack EXCEPT ![n] = Front(@)]

\* A view, or a call that is refused or fails: nothing changes.
NoEffect(c, result) ==
  /\ Settle(c, result)
  /\ UNCHANGED <<content, stack>>

AtomicNext ==
  \E c \in Calls :
    \/ \E S \in (SUBSET Names) \ {{}} : Edit(c, S)
    \/ \E n \in Names : Delete(c, n) \/ Undo(c, n)
    \/ \E result \in {"ok", "error"} : NoEffect(c, result)

AtomicSpec == AtomicInit /\ [][AtomicNext]_atomicVars
==============================================================================
