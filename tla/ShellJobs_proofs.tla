--------------------------- MODULE ShellJobs_proofs ---------------------------
(***************************************************************************)
(* ShellJobs for every set of calls and commands: what a job's record, its *)
(* capture files and its process agree on at every step of the foreground  *)
(* window and of the wait task, and from it the safety properties the run  *)
(* checks and the refinement of CommandLife.                               *)
(***************************************************************************)
EXTENDS ShellJobs, TLAPS

Unstarted  == {"idle", "prepare", "spawn"}
InWindow   == {"register", "wait", "collect"}
InWaitTask == {"bgwait", "keep", "record", "tell"}

TypeInv ==
  /\ pc \in [Calls -> Unstarted \cup InWindow \cup InWaitTask \cup {"end"}]
  /\ cmd \in [Calls -> Commands \cup {None}]
  /\ proc \in [Calls -> {"none", "running", "exited", "reaped"}]
  /\ tree \in [Calls -> BOOLEAN]
  /\ files \in [Calls -> BOOLEAN]
  /\ jobs \subseteq Calls
  /\ children \subseteq Calls
  /\ status \in [Calls -> {"running", "exited"}]
  /\ output \in [Calls -> {"none", "kept", "lost"}]
  /\ reply \in [Calls -> {"none", "result", "job", "error", "dropped"}]
  /\ told \in [Calls -> Nat]
  /\ cancel \in [Calls -> {"no", "seen", "sent"}]
  /\ server \in {"up", "closing", "killed", "cleaned", "exited"}

\* A call has no reply exactly as long as its code is in the window; the jobs
\* are the calls that were answered with one.
Answered(c) ==
  /\ reply[c] = "none" <=> pc[c] \in Unstarted \cup InWindow
  /\ reply[c] = "job" <=> c \in jobs
  /\ pc[c] \in InWaitTask => c \in jobs

\* Where the code of a call is says what has become of its process; a process
\* that runs has a task waiting for it.
Process(c) ==
  /\ pc[c] \in Unstarted => proc[c] = "none"
  /\ pc[c] \in {"register", "wait", "bgwait"} => proc[c] \in {"running", "exited"}
  /\ pc[c] \in {"collect", "keep", "record", "tell"} => proc[c] = "reaped"
  /\ pc[c] = "end" => proc[c] # "running"

\* The wait task's three records are made in its order: the output, the exit,
\* the announcement.
Recorded(c) ==
  /\ output[c] # "none" <=> c \in jobs /\ pc[c] \in {"record", "tell", "end"}
  /\ status[c] = "exited" <=> c \in jobs /\ pc[c] \in {"tell", "end"}
  /\ told[c] = IF c \in jobs /\ pc[c] = "end" THEN 1 ELSE 0

\* The capture files are there from prepare until they are read, unless
\* shutdown removes them; afterwards only a job's and a dropped call's stay.
Captured(c) ==
  /\ pc[c] \in {"idle", "prepare"} => ~files[c]
  /\ pc[c] \in {"spawn", "register", "wait", "collect", "bgwait", "keep"} =>
       files[c] \/ server \in {"cleaned", "exited"}
  /\ pc[c] = "end" /\ files[c] => reply[c] \in {"job", "dropped"}

\* What is waited for is tracked until the set is drained.
IsTracked(c) ==
  pc[c] \in {"wait", "bgwait"} /\ server \in {"up", "closing"} => c \in children

JobInv ==
  \A c \in Calls : Answered(c) /\ Process(c) /\ Recorded(c) /\ Captured(c) /\ IsTracked(c)

\* The types of the calls', the jobs' and the server's state.
LEMMA TypeInvCorrect == Spec => []TypeInv
<1> USE DEF TypeInv, Unstarted, InWindow, InWaitTask
<1>1. Init => TypeInv
  BY DEF Init
<1>2. TypeInv /\ [Next]_vars => TypeInv'
  <2> SUFFICES ASSUME TypeInv, [Next]_vars PROVE TypeInv'
    OBVIOUS
  <2> USE DEF Set, Step, Answer
  <2>1. ASSUME NEW c \in Calls, NEW command \in Commands, Begin(c, command) PROVE TypeInv'
    BY <2>1 DEF Begin
  <2>2. ASSUME NEW c \in Calls, Capture(c) PROVE TypeInv'
    BY <2>2 DEF Capture
  <2>3. ASSUME NEW c \in Calls, Spawn(c) PROVE TypeInv'
    <3>1. tree' \in [Calls -> BOOLEAN]
      BY <2>3, Zenon DEF Spawn
    <3> QED
      BY <2>3, <3>1 DEF Spawn, Discard
  <2>4. ASSUME NEW c \in Calls, Register(c) PROVE TypeInv'
    BY <2>4 DEF Register
  <2>5. ASSUME NEW c \in Calls, Reap(c) PROVE TypeInv'
    BY <2>5 DEF Reap
  <2>6. ASSUME NEW c \in Calls, Collect(c) PROVE TypeInv'
    BY <2>6 DEF Collect, Discard
  <2>7. ASSUME NEW c \in Calls, Promote(c) PROVE TypeInv'
    BY <2>7 DEF Promote
  <2>8. ASSUME NEW c \in Calls, Drop(c) PROVE TypeInv'
    BY <2>8 DEF Drop
  <2>9. ASSUME NEW c \in Calls, ReapJob(c) PROVE TypeInv'
    BY <2>9 DEF ReapJob, After
  <2>10. ASSUME NEW c \in Calls, KeepOutput(c) PROVE TypeInv'
    BY <2>10 DEF KeepOutput, After
  <2>11. ASSUME NEW c \in Calls, RecordExit(c) PROVE TypeInv'
    BY <2>11 DEF RecordExit, After
  <2>12. ASSUME NEW c \in Calls, Tell(c) PROVE TypeInv'
    BY <2>12 DEF Tell, After
  <2>13. ASSUME NEW c \in Calls, SeeRunning(c) PROVE TypeInv'
    BY <2>13 DEF SeeRunning
  <2>14. ASSUME NEW c \in Calls, SendStop(c) PROVE TypeInv'
    BY <2>14 DEF SendStop
  <2>15. ASSUME NEW c \in Calls, Exit(c) PROVE TypeInv'
    BY <2>15 DEF Exit
  <2>16. ASSUME NEW c \in Calls, HelpersEnd(c) PROVE TypeInv'
    BY <2>16 DEF HelpersEnd
  <2>17. CASE Close
    BY <2>17 DEF Close
  <2>18. CASE KillAll
    BY <2>18 DEF KillAll, Tracked
  <2>19. CASE Cleanup
    BY <2>19 DEF Cleanup
  <2>20. CASE ServerExit
    BY <2>20 DEF ServerExit
  <2>21. CASE UNCHANGED vars
    BY <2>21 DEF vars
  <2> QED
    BY <2>1, <2>2, <2>3, <2>4, <2>5, <2>6, <2>7, <2>8, <2>9, <2>10, <2>11,
       <2>12, <2>13, <2>14, <2>15, <2>16, <2>17, <2>18, <2>19, <2>20, <2>21
    DEF Next, Foreground, WaitTask
<1> QED
  BY <1>1, <1>2, PTL DEF Spec

\* The inductive invariant of the shell tool.
LEMMA JobInvCorrect == Spec => []JobInv
<1> USE DEF JobInv, Answered, Process, Recorded, Captured, IsTracked,
            Unstarted, InWindow, InWaitTask
<1>1. Init => JobInv
  BY DEF Init
<1>2. TypeInv /\ JobInv /\ [Next]_vars => JobInv'
  <2> SUFFICES ASSUME TypeInv, JobInv, [Next]_vars PROVE JobInv'
    OBVIOUS
  <2> USE DEF TypeInv, Set, Step, Answer
  <2>1. ASSUME NEW c \in Calls, NEW command \in Commands, Begin(c, command) PROVE JobInv'
    BY <2>1 DEF Begin
  <2>2. ASSUME NEW c \in Calls, Capture(c) PROVE JobInv'
    BY <2>2 DEF Capture
  <2>3. ASSUME NEW c \in Calls, Spawn(c) PROVE JobInv'
    BY <2>3 DEF Spawn, Discard
  <2>4. ASSUME NEW c \in Calls, Register(c) PROVE JobInv'
    BY <2>4 DEF Register
  <2>5. ASSUME NEW c \in Calls, Reap(c) PROVE JobInv'
    BY <2>5 DEF Reap
  <2>6. ASSUME NEW c \in Calls, Collect(c) PROVE JobInv'
    BY <2>6 DEF Collect, Discard
  <2>7. ASSUME NEW c \in Calls, Promote(c) PROVE JobInv'
    BY <2>7 DEF Promote
  <2>8. ASSUME NEW c \in Calls, Drop(c) PROVE JobInv'
    BY <2>8 DEF Drop
  <2>9. ASSUME NEW c \in Calls, ReapJob(c) PROVE JobInv'
    BY <2>9 DEF ReapJob, After
  <2>10. ASSUME NEW c \in Calls, KeepOutput(c) PROVE JobInv'
    BY <2>10 DEF KeepOutput, After
  <2>11. ASSUME NEW c \in Calls, RecordExit(c) PROVE JobInv'
    BY <2>11 DEF RecordExit, After
  <2>12. ASSUME NEW c \in Calls, Tell(c) PROVE JobInv'
    BY <2>12 DEF Tell, After
  <2>13. ASSUME NEW c \in Calls, SeeRunning(c) PROVE JobInv'
    BY <2>13 DEF SeeRunning
  <2>14. ASSUME NEW c \in Calls, SendStop(c) PROVE JobInv'
    BY <2>14 DEF SendStop
  <2>15. ASSUME NEW c \in Calls, Exit(c) PROVE JobInv'
    BY <2>15 DEF Exit
  <2>16. ASSUME NEW c \in Calls, HelpersEnd(c) PROVE JobInv'
    BY <2>16 DEF HelpersEnd
  <2>17. CASE Close
    BY <2>17 DEF Close
  <2>18. CASE KillAll
    BY <2>18 DEF KillAll, Tracked
  <2>19. CASE Cleanup
    BY <2>19 DEF Cleanup
  <2>20. CASE ServerExit
    BY <2>20 DEF ServerExit
  <2>21. CASE UNCHANGED vars
    BY <2>21 DEF vars
  <2> QED
    BY <2>1, <2>2, <2>3, <2>4, <2>5, <2>6, <2>7, <2>8, <2>9, <2>10, <2>11, <2>12, <2>13, <2>14, <2>15, <2>16, <2>17, <2>18, <2>19, <2>20, <2>21
    DEF Next, Foreground, WaitTask
<1> QED
  BY <1>1, <1>2, TypeInvCorrect, PTL DEF Spec

\* A client that is told a job has exited can read its result, whatever was
\* cancelled, dropped or shut down in between.
THEOREM FinishedIsReadableCorrect == Spec => []FinishedIsReadable
<1>1. TypeInv /\ JobInv => FinishedIsReadable
  BY DEF TypeInv, JobInv, Recorded, FinishedIsReadable
<1> QED
  BY <1>1, TypeInvCorrect, JobInvCorrect, PTL

\* The capture files are there until the result has been kept, across the
\* handoff to the wait task, and none is left by an answered command.
THEOREM CaptureLivesAsNeededCorrect == Spec => []CaptureLivesAsNeeded
<1>1. TypeInv /\ JobInv => CaptureLivesAsNeeded
  <2> SUFFICES ASSUME TypeInv, JobInv PROVE CaptureLivesAsNeeded
    OBVIOUS
  <2> USE DEF TypeInv, JobInv, Answered, Captured, Unstarted, InWindow, InWaitTask
  <2>1. CaptureSurvives
    BY DEF CaptureSurvives, Recorded
  <2>2. CaptureIsRemoved
    BY DEF CaptureIsRemoved
  <2> QED
    BY <2>1, <2>2 DEF CaptureLivesAsNeeded
<1> QED
  BY <1>1, TypeInvCorrect, JobInvCorrect, PTL

\* kill_all_shell_children takes down the process group of everything that is
\* waited for, promoted or not.
THEOREM InFlightIsKilledCorrect == Spec => InFlightIsKilled
<1> DEFINE Killed ==
      server = "closing" /\ server' = "killed" =>
        \A c \in Calls : pc[c] \in {"wait", "bgwait"} => proc'[c] # "running" /\ ~tree'[c]
<1>1. TypeInv /\ JobInv /\ [Next]_vars => [Killed]_vars
  <2> SUFFICES ASSUME JobInv, Next, server = "closing", server' = "killed"
               PROVE  \A c \in Calls :
                        pc[c] \in {"wait", "bgwait"} => proc'[c] # "running" /\ ~tree'[c]
    BY DEF vars
  <2>1. KillAll
    BY DEF Next, Begin, Foreground, Capture, Spawn, Register, Reap, Collect, Promote,
           WaitTask, ReapJob, KeepOutput, RecordExit, Tell, Drop, SeeRunning, SendStop,
           Exit, HelpersEnd, Close, Cleanup, ServerExit
  <2> QED
    BY <2>1 DEF KillAll, Tracked, JobInv, IsTracked
<1> QED
  BY <1>1, TypeInvCorrect, JobInvCorrect, PTL DEF Spec, InFlightIsKilled

\* What a client can tell about a call changes with the call only.
LEMMA PhaseMoves ==
  ASSUME NEW c \in Calls, NEW from, NEW to, PhaseOf(c) = from, PhaseOf(c)' = to,
         \A d \in Calls \ {c} : PhaseOf(d)' = PhaseOf(d)
  PROVE  Life!Move(c, from, to)
BY DEF Life!Move

\* Whether a process is over changes with that process only.
LEMMA LifeMoves ==
  ASSUME NEW c \in Calls, \A d \in Calls \ {c} : LifeOf(d)' = LifeOf(d)
  PROVE  [d \in Calls |-> LifeOf(d)]' =
           [[d \in Calls |-> LifeOf(d)] EXCEPT ![c] = LifeOf(c)']
OBVIOUS

\* The capture files, the wait task and the tracking of process groups
\* implement one process and one result per command.
THEOREM ImplementsCommandLifeCorrect == Spec => ImplementsCommandLife
<1>1. Init => Life!LifeInit
  BY DEF Init, Life!LifeInit, PhaseOf, LifeOf
<1>2. TypeInv /\ JobInv /\ [Next]_vars => [Life!LifeNext]_(Life!lifeVars)
  <2> SUFFICES ASSUME TypeInv, JobInv, [Next]_vars
               PROVE  [Life!LifeNext]_(Life!lifeVars)
    OBVIOUS
  <2> DEFINE Same(c)  == PhaseOf(c)' = PhaseOf(c) /\ LifeOf(c)' = LifeOf(c)
             Alone(c) == \A d \in Calls \ {c} : Same(d)
             Goes(c, from, to) == PhaseOf(c) = from /\ PhaseOf(c)' = to
  <2>0. (\A c \in Calls : Same(c)) => UNCHANGED Life!lifeVars
    BY DEF Life!lifeVars
  <2>1. ASSUME NEW c \in Calls, NEW from, NEW to, Alone(c), Goes(c, from, to),
               LifeOf(c)' = LifeOf(c)
        PROVE  Life!Move(c, from, to) /\ UNCHANGED [d \in Calls |-> LifeOf(d)]
    BY <2>1, PhaseMoves
  <2> USE DEF TypeInv, Set, Step, Answer, JobInv
  <2>2. ASSUME NEW c \in Calls, NEW command \in Commands, Begin(c, command)
        PROVE  [Life!LifeNext]_(Life!lifeVars)
    <3>1. Alone(c) /\ LifeOf(c) = "none" /\ LifeOf(c)' = "none"
      BY <2>2 DEF Begin, PhaseOf, LifeOf, Process, Unstarted
    <3>2. Goes(c, "new", "refused") \/ PhaseOf(c)' = PhaseOf(c)
      BY <2>2 DEF Begin, PhaseOf, Answered, Process, Unstarted
    <3> QED
      BY <2>0, <2>1, <3>1, <3>2 DEF Life!LifeNext, Life!Refuse
  <2>3. ASSUME NEW c \in Calls, Capture(c) PROVE [Life!LifeNext]_(Life!lifeVars)
    <3>1. Alone(c) /\ LifeOf(c) = "none" /\ LifeOf(c)' = "none"
      BY <2>3 DEF Capture, PhaseOf, LifeOf, Process, Unstarted
    <3>2. Goes(c, "new", "refused") \/ PhaseOf(c)' = PhaseOf(c)
      BY <2>3 DEF Capture, PhaseOf, Answered, Process, Unstarted
    <3> QED
      BY <2>0, <2>1, <3>1, <3>2 DEF Life!LifeNext, Life!Refuse
  <2>4. ASSUME NEW c \in Calls, Spawn(c) PROVE Life!Start(c) \/ Life!Refuse(c)
    <3>1. Alone(c) /\ LifeOf(c) = "none"
      BY <2>4 DEF Spawn, PhaseOf, LifeOf, Process, Unstarted
    <3>2. \/ Goes(c, "new", "running") /\ LifeOf(c)' = "running"
          \/ Goes(c, "new", "refused") /\ LifeOf(c)' = LifeOf(c)
      BY <2>4 DEF Spawn, PhaseOf, LifeOf, Answered, Process, Unstarted
    <3>3. CASE Goes(c, "new", "running") /\ LifeOf(c)' = "running"
      BY <3>1, <3>3, PhaseMoves, LifeMoves DEF Life!Start
    <3>4. CASE Goes(c, "new", "refused") /\ LifeOf(c)' = LifeOf(c)
      BY <2>1, <3>1, <3>4 DEF Life!Refuse
    <3> QED
      BY <3>2, <3>3, <3>4
  <2>5. ASSUME NEW c \in Calls, Collect(c) PROVE Life!Answer(c)
    <3>1. Alone(c) /\ LifeOf(c) = "over" /\ LifeOf(c)' = "over"
      BY <2>5 DEF Collect, PhaseOf, LifeOf, Process
    <3>2. Goes(c, "running", "answered")
      BY <2>5 DEF Collect, PhaseOf, Answered, Process, InWindow
    <3> QED
      BY <2>1, <3>1, <3>2 DEF Life!Answer
  <2>6. ASSUME NEW c \in Calls, Promote(c) PROVE Life!Promote(c)
    <3>1. Alone(c) /\ LifeOf(c)' = LifeOf(c)
      BY <2>6 DEF Promote, PhaseOf, LifeOf
    <3>2. Goes(c, "running", "job")
      BY <2>6 DEF Promote, PhaseOf, Answered, Process, Recorded, InWindow
    <3> QED
      BY <2>1, <3>1, <3>2 DEF Life!Promote
  <2>7. ASSUME NEW c \in Calls, Drop(c) PROVE Life!Abandon(c)
    <3>1. Alone(c) /\ LifeOf(c)' = IF LifeOf(c) = "running" THEN "over" ELSE LifeOf(c)
      BY <2>7 DEF Drop, PhaseOf, LifeOf
    <3>2. Goes(c, "new", "abandoned") \/ Goes(c, "running", "abandoned")
      BY <2>7 DEF Drop, PhaseOf, Answered, Process, Unstarted, InWindow
    <3> QED
      BY <3>1, <3>2, PhaseMoves, LifeMoves DEF Life!Abandon
  <2>8. ASSUME NEW c \in Calls, RecordExit(c) PROVE Life!Finish(c)
    <3>1. Alone(c) /\ LifeOf(c) = "over" /\ LifeOf(c)' = "over"
      BY <2>8 DEF RecordExit, PhaseOf, LifeOf, Process
    <3>2. Goes(c, "job", "finished")
      BY <2>8 DEF RecordExit, PhaseOf, Answered, Recorded, InWaitTask
    <3> QED
      BY <2>1, <3>1, <3>2 DEF Life!Finish
  <2>9. ASSUME NEW c \in Calls, Tell(c) PROVE Life!Announce(c)
    <3>1. Alone(c) /\ LifeOf(c)' = LifeOf(c)
      BY <2>9 DEF Tell, PhaseOf, LifeOf
    <3>2. Goes(c, "finished", "announced")
      BY <2>9 DEF Tell, PhaseOf, Answered, Recorded, InWaitTask
    <3> QED
      BY <2>1, <3>1, <3>2 DEF Life!Announce
  <2>10. ASSUME NEW c \in Calls, Exit(c) PROVE Life!End({c})
    <3>1. \A d \in Calls : PhaseOf(d)' = PhaseOf(d)
      BY <2>10 DEF Exit, PhaseOf
    <3>2. LifeOf(c) = "running" /\ LifeOf(c)' = "over" /\ Alone(c)
      BY <2>10 DEF Exit, LifeOf, PhaseOf
    <3> QED
      BY <3>1, <3>2 DEF Life!End
  <2>11. ASSUME NEW c \in Calls,
                \/ Register(c) \/ Reap(c) \/ ReapJob(c) \/ KeepOutput(c)
                \/ SeeRunning(c) \/ SendStop(c) \/ HelpersEnd(c)
         PROVE  UNCHANGED Life!lifeVars
    <3>1. CASE Reap(c) \/ ReapJob(c)
      BY <2>0, <3>1 DEF Reap, ReapJob, PhaseOf, LifeOf
    <3>2. CASE Register(c) \/ KeepOutput(c) \/ SeeRunning(c) \/ SendStop(c) \/ HelpersEnd(c)
      BY <2>0, <3>2 DEF Register, KeepOutput, SeeRunning, SendStop, HelpersEnd, PhaseOf, LifeOf
    <3> QED
      BY <2>11, <3>1, <3>2
  <2>12. ASSUME KillAll \/ ServerExit PROVE \E S \in SUBSET Calls : Life!End(S)
    <3> DEFINE Ended == {c \in Calls : proc[c] = "running" /\ proc'[c] = "exited"}
    <3>1. \A c \in Calls : PhaseOf(c)' = PhaseOf(c)
      BY <2>12 DEF KillAll, ServerExit, PhaseOf
    <3>2. \A c \in Calls : LifeOf(c)' = IF c \in Ended THEN "over" ELSE LifeOf(c)
      BY <2>12 DEF KillAll, ServerExit, LifeOf
    <3>3. \A c \in Ended : LifeOf(c) = "running"
      BY DEF LifeOf
    <3>4. Life!End(Ended)
      BY <3>1, <3>2, <3>3 DEF Life!End
    <3> QED
      BY <3>4
  <2>13. ASSUME Close \/ Cleanup \/ UNCHANGED vars PROVE UNCHANGED Life!lifeVars
    BY <2>0, <2>13 DEF Close, Cleanup, vars, PhaseOf, LifeOf
  <2> QED
    BY <2>2, <2>3, <2>4, <2>5, <2>6, <2>7, <2>8, <2>9, <2>10, <2>11, <2>12, <2>13
    DEF Next, Foreground, WaitTask, Life!LifeNext
<1> QED
  BY <1>1, <1>2, TypeInvCorrect, JobInvCorrect, PTL
  DEF Spec, ImplementsCommandLife, Life!LifeSpec
==============================================================================
