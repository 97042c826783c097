----------------------------- MODULE CommandLife -----------------------------
(***************************************************************************)
(* What the shell tool promises about one command: its process is started  *)
(* at most once; the result goes to the client either in the reply or, for *)
(* a command that outlasts the foreground window, through a job that is    *)
(* first finished and then announced, once.  ShellJobs implements it.      *)
(***************************************************************************)
EXTENDS FiniteSets

CONSTANTS Calls

VARIABLES phase,   \* phase[c]: what the client can tell about call c
          life     \* life[c]: its process: "none", "running" or "over"

lifeVars == <<phase, life>>

LifeInit ==
  /\ phase = [c \in Calls |-> "new"]
  /\ life = [c \in Calls |-> "none"]

Move(c, from, to) ==
  /\ phase[c] = from
  /\ phase' = [phase EXCEPT ![c] = to]

Refuse(c) == life[c] = "none" /\ Move(c, "new", "refused") /\ UNCHANGED life

Start(c) ==
  /\ life[c] = "none"
  /\ Move(c, "new", "running")
  /\ life' = [life EXCEPT ![c] = "running"]

\* The reply carries the result of a process that is over.
Answer(c) == life[c] = "over" /\ Move(c, "running", "answered") /\ UNCHANGED life

\* The handoff leaves the process alone.
Promote(c) == Move(c, "running", "job") /\ UNCHANGED life

Finish(c) == life[c] = "over" /\ Move(c, "job", "finished") /\ UNCHANGED life

Announce(c) == Move(c, "finished", "announced") /\ UNCHANGED life

\* The client goes away before the handoff, and the process goes with it.
Abandon(c) ==
  /\ \E from \in {"new", "running"} : Move(c, from, "abandoned")
  /\ life' = [life EXCEPT ![c] = IF @ = "running" THEN "over" ELSE @]

\* Processes end by themselves or are killed, at any time.
End(S) ==
  /\ \A c \in S : life[c] = "running"
  /\ life' = [c \in Calls |-> IF c \in S THEN "over" ELSE life[c]]
  /\ UNCHANGED phase

LifeNext ==
  \/ \E c \in Calls :
       \/ Refuse(c) \/ Start(c) \/ Answer(c) \/ Promote(c)
       \/ Finish(c) \/ Announce(c) \/ Abandon(c)
  \/ \E S \in SUBSET Calls : End(S)

LifeSpec == LifeInit /\ [][LifeNext]_lifeVars
==============================================================================
