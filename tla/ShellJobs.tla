------------------------------ MODULE ShellJobs ------------------------------
(***************************************************************************)
(* The shell tool (shell.rs, background.rs) and the shutdown of the server *)
(* (main.rs).  A command starts in the foreground with its output captured *)
(* in files.  If it outlasts the foreground window the same process is     *)
(* promoted to a background job, whose wait task keeps the result, records *)
(* the exit and calls the completion callback.  A client may cancel a job; *)
(* shutdown kills the tracked process groups and removes the capture files.*)
(*                                                                         *)
(* The calls use one working directory.  A process is identified with the  *)
(* call that started it: process ids are not recycled.                     *)
(***************************************************************************)
EXTENDS Naturals, FiniteSets

CONSTANTS Calls, Commands, None

VARIABLES pc, cmd,
          proc,      \* proc[c]: "none", "running", "exited" (a zombie), "reaped"
          tree,      \* tree[c]: other members of its process group are alive
          files,     \* files[c]: the capture files exist
          jobs,      \* JOBS
          children,  \* SHELL_CHILDREN
          status,    \* status[c]: "running" or "exited", as the job records it
          output,    \* finished_output: "none", "kept", or "lost" when unreadable
          reply,     \* reply[c]: "none", "result", "job", "error", "dropped"
          told,      \* told[c]: how often the completion callback ran
          cancel,    \* cancel[c]: a client's tasks/cancel: "no", "seen", "sent"
          server     \* "up", "closing", "killed", "cleaned", "exited"

vars == <<pc, cmd, proc, tree, files, jobs, children, status, output, reply,
          told, cancel, server>>

Init ==
  /\ pc = [c \in Calls |-> "idle"]
  /\ cmd = [c \in Calls |-> None]
  /\ proc = [c \in Calls |-> "none"]
  /\ tree = [c \in Calls |-> FALSE]
  /\ files = [c \in Calls |-> FALSE]
  /\ jobs = {}
  /\ children = {}
  /\ status = [c \in Calls |-> "running"]
  /\ output = [c \in Calls |-> "none"]
  /\ reply = [c \in Calls |-> "none"]
  /\ told = [c \in Calls |-> 0]
  /\ cancel = [c \in Calls |-> "no"]
  /\ server = "up"

Set(f, c, v) == [f EXCEPT ![c] = v]

\* A step of the code of call c; nothing runs once the server has exited.
Step(c, from, to) ==
  /\ server # "exited"
  /\ pc[c] = from
  /\ pc' = Set(pc, c, to)

Answer(c, result) == reply' = Set(reply, c, result)

\* Seeded fault: capture files are named after the command, not the job id.
DiscardByCommand(c) == [d \in Calls |-> files[d] /\ cmd[d] # cmd[c]]

\* Seeded fault: the capture files of a finished command are left behind.
DiscardNothing(c) == files

Discard(c) == Set(files, c, FALSE)

------------------------------------------------------------------------------
\* The foreground window: execute_with_timeout.

\* prepare's guard looks at the registered jobs only.
Duplicate(command) ==
  \E d \in jobs : cmd[d] = command /\ status[d] = "running"

Begin(c, command) ==
  /\ server = "up"
  /\ cmd' = Set(cmd, c, command)
  /\ IF Duplicate(command)
     THEN Step(c, "idle", "end") /\ Answer(c, "error")
     ELSE Step(c, "idle", "prepare") /\ UNCHANGED reply
  /\ UNCHANGED <<proc, tree, files, jobs, children, status, output, told, cancel, server>>

\* prepare creates the capture files, both or none.
Capture(c) ==
  /\ \/ /\ Step(c, "prepare", "spawn")
        /\ files' = Set(files, c, TRUE)
        /\ UNCHANGED reply
     \/ /\ Step(c, "prepare", "end")
        /\ Answer(c, "error")
        /\ UNCHANGED files
  /\ UNCHANGED <<cmd, proc, tree, jobs, children, status, output, told, cancel, server>>

\* spawn, in a session and process group of its own; a failure discards the
\* capture files.
Spawn(c) ==
  /\ \/ /\ Step(c, "spawn", "register")
        /\ proc' = Set(proc, c, "running")
        /\ \E helpers \in BOOLEAN : tree' = Set(tree, c, helpers)
        /\ UNCHANGED <<files, reply>>
     \/ /\ Step(c, "spawn", "end")
        /\ files' = Discard(c)
        /\ Answer(c, "error")
        /\ UNCHANGED <<proc, tree>>
  /\ UNCHANGED <<cmd, jobs, children, status, output, told, cancel, server>>

Register(c) ==
  /\ Step(c, "register", "wait")
  /\ children' = children \cup {c}
  /\ UNCHANGED <<cmd, proc, tree, files, jobs, status, output, reply, told, cancel, server>>

\* child.wait() returns within the window, then unregister_child.
Reap(c) ==
  /\ Step(c, "wait", "collect")
  /\ proc[c] = "exited"
  /\ proc' = Set(proc, c, "reaped")
  /\ children' = children \ {c}
  /\ UNCHANGED <<cmd, tree, files, jobs, status, output, reply, told, cancel, server>>

\* Read the capture files, discard them, reply.
Collect(c) ==
  /\ Step(c, "collect", "end")
  /\ files' = Discard(c)
  /\ Answer(c, "result")
  /\ UNCHANGED <<cmd, proc, tree, jobs, children, status, output, told, cancel, server>>

\* Seeded fault: commands have no foreground limit.
NeverPromote(c) == FALSE

\* The deadline passes first: promote registers the job and moves the child
\* to a wait task; the reply names the job.
Promote(c) ==
  /\ Step(c, "wait", "bgwait")
  /\ jobs' = jobs \cup {c}
  /\ Answer(c, "job")
  /\ UNCHANGED <<cmd, proc, tree, files, children, status, output, told, cancel, server>>

\* The client's request is cancelled before promotion: the runtime drops the
\* call where it waits, and kill_on_drop kills the direct child.  The pid stays
\* tracked and the capture files stay until shutdown.
Drop(c) ==
  /\ server = "up"
  /\ \E at \in {"prepare", "wait", "collect"} : Step(c, at, "end")
  /\ proc' = Set(proc, c, IF proc[c] = "running" THEN "exited" ELSE proc[c])
  /\ Answer(c, "dropped")
  /\ UNCHANGED <<cmd, tree, files, jobs, children, status, output, told, cancel, server>>

------------------------------------------------------------------------------
\* The wait task of a promoted job.

\* Seeded fault: the exit is recorded before there is a result to read.
ExitBeforeOutput(step) ==
  CASE step = "bgwait" -> "record" [] step = "record" -> "keep"
    [] step = "keep" -> "tell" [] step = "tell" -> "end"

\* Seeded fault: the callback runs before the exit is recorded.
ToldBeforeExit(step) ==
  CASE step = "bgwait" -> "keep" [] step = "keep" -> "tell"
    [] step = "tell" -> "record" [] step = "record" -> "end"

\* Seeded fault: the callback does not run.
NeverTold(step) ==
  CASE step = "bgwait" -> "keep" [] step = "keep" -> "record"
    [] step = "record" -> "end" [] step = "tell" -> "end"

\* The order of the wait task's steps.
After(step) ==
  CASE step = "bgwait" -> "keep" [] step = "keep" -> "record"
    [] step = "record" -> "tell" [] step = "tell" -> "end"

\* child.wait() returns, then unregister_child.
ReapJob(c) ==
  /\ Step(c, "bgwait", After("bgwait"))
  /\ proc[c] = "exited"
  /\ proc' = Set(proc, c, "reaped")
  /\ children' = children \ {c}
  /\ UNCHANGED <<cmd, tree, files, jobs, status, output, reply, told, cancel, server>>

\* read_finished_output, then finished_output.get_or_init: the first value
\* stays.  Without the capture files it is an error message.
KeepOutput(c) ==
  /\ Step(c, "keep", After("keep"))
  /\ output' = Set(output, c, IF files[c] THEN "kept" ELSE "lost")
  /\ UNCHANGED <<cmd, proc, tree, files, jobs, children, status, reply, told, cancel, server>>

RecordExit(c) ==
  /\ Step(c, "record", After("record"))
  /\ status' = Set(status, c, "exited")
  /\ UNCHANGED <<cmd, proc, tree, files, jobs, children, output, reply, told, cancel, server>>

\* on_complete(uri)
Tell(c) ==
  /\ Step(c, "tell", After("tell"))
  /\ told' = Set(told, c, told[c] + 1)
  /\ UNCHANGED <<cmd, proc, tree, files, jobs, children, status, output, reply, cancel, server>>

------------------------------------------------------------------------------
\* tasks/cancel reads the job's status and, if that says running, ...
SeeRunning(c) ==
  /\ server = "up"
  /\ c \in jobs
  /\ status[c] = "running"
  /\ cancel[c] = "no"
  /\ cancel' = Set(cancel, c, "seen")
  /\ UNCHANGED <<pc, cmd, proc, tree, files, jobs, children, status, output, reply, told, server>>

\* ... sets cancel_requested and sends SIGTERM, which the processes may act on
\* (Exit, HelpersEnd) or not.
SendStop(c) ==
  /\ server # "exited"
  /\ cancel[c] = "seen"
  /\ cancel' = Set(cancel, c, "sent")
  /\ UNCHANGED <<pc, cmd, proc, tree, files, jobs, children, status, output, reply, told, server>>

\* A command ends, or is ended.
Exit(c) ==
  /\ proc[c] = "running"
  /\ proc' = Set(proc, c, "exited")
  /\ UNCHANGED <<pc, cmd, tree, files, jobs, children, status, output, reply, told, cancel, server>>

HelpersEnd(c) ==
  /\ tree[c]
  /\ tree' = Set(tree, c, FALSE)
  /\ UNCHANGED <<pc, cmd, proc, files, jobs, children, status, output, reply, told, cancel, server>>

------------------------------------------------------------------------------
\* Shutdown.

\* End of input, or SIGTERM: no further requests; calls under way go on.
Close ==
  /\ server = "up"
  /\ server' = "closing"
  /\ UNCHANGED <<pc, cmd, proc, tree, files, jobs, children, status, output, reply, told, cancel>>

\* Seeded fault: shutdown kills the foreground commands only.
ForegroundChildren == children \ jobs

Tracked == children

\* kill_all_shell_children: drain the set, SIGKILL every process group.
KillAll ==
  /\ server = "closing"
  /\ server' = "killed"
  /\ proc' = [c \in Calls |-> IF c \in Tracked /\ proc[c] = "running" THEN "exited" ELSE proc[c]]
  /\ tree' = [c \in Calls |-> tree[c] /\ c \notin Tracked]
  /\ children' = {}
  /\ UNCHANGED <<pc, cmd, files, jobs, status, output, reply, told, cancel>>

\* background::cleanup
Cleanup ==
  /\ server = "killed"
  /\ server' = "cleaned"
  /\ files' = [c \in Calls |-> FALSE]
  /\ UNCHANGED <<pc, cmd, proc, tree, jobs, children, status, output, reply, told, cancel>>

\* main returns: the runtime drops every task and with it, kill_on_drop, the
\* direct children.
ServerExit ==
  /\ server = "cleaned"
  /\ server' = "exited"
  /\ proc' = [c \in Calls |-> IF proc[c] = "running" THEN "exited" ELSE proc[c]]
  /\ UNCHANGED <<pc, cmd, tree, files, jobs, children, status, output, reply, told, cancel>>

Foreground(c) ==
  \/ Capture(c) \/ Spawn(c) \/ Register(c) \/ Reap(c) \/ Collect(c) \/ Promote(c)

WaitTask(c) == ReapJob(c) \/ KeepOutput(c) \/ RecordExit(c) \/ Tell(c)

Next ==
  \/ \E c \in Calls :
       \/ \E command \in Commands : Begin(c, command)
       \/ Foreground(c) \/ WaitTask(c)
       \/ Drop(c) \/ SeeRunning(c) \/ SendStop(c)
       \/ Exit(c) \/ HelpersEnd(c)
  \/ Close \/ KillAll \/ Cleanup \/ ServerExit

Spec == Init /\ [][Next]_vars

\* tokio runs every task that is ready and the deadline does pass; nothing says
\* that a command ever ends, that requests come or that the server shuts down.
FairSpec == Spec /\ \A c \in Calls : WF_vars(Foreground(c)) /\ WF_vars(WaitTask(c))

------------------------------------------------------------------------------
\* A client that sees a job as exited gets its result: read's `?` on
\* finished_output never turns a finished job into an unknown one.
FinishedIsReadable ==
  \A c \in jobs : status[c] = "exited" => output[c] # "none"

\* "Crossing the foreground deadline never loses output" (background.rs): a
\* job's capture files are there until the result has been kept.
CaptureSurvives ==
  \A c \in jobs : output[c] = "none" /\ server \in {"up", "closing", "killed"} => files[c]

\* A command answered within the window leaves no capture files behind,
\* whatever way it ended (discard).
CaptureIsRemoved ==
  \A c \in Calls : reply[c] \in {"result", "error"} => ~files[c]

\* Capture files live exactly as long as somebody needs them.
CaptureLivesAsNeeded == CaptureSurvives /\ CaptureIsRemoved

\* Whatever the server is waiting for when it shuts down, in the foreground
\* or in the background, dies with all of its process group.
InFlightIsKilled ==
  [][server = "closing" /\ server' = "killed" =>
       \A c \in Calls : pc[c] \in {"wait", "bgwait"} => proc'[c] # "running" /\ ~tree'[c]]_vars

\* The answer to a command comes within the foreground window whether or not
\* the command ends.
EveryCallIsAnswered == \A c \in Calls : pc[c] = "prepare" ~> reply[c] # "none" \/ server = "exited"

\* A job that ends is announced, unless the server exits first.
EveryExitIsTold ==
  \A c \in Calls : c \in jobs /\ proc[c] = "exited" ~> told[c] = 1 \/ server = "exited"

\* What the client can tell about call c, and whether its process is over.
PhaseOf(c) ==
  IF reply[c] = "none" THEN IF proc[c] = "none" THEN "new" ELSE "running"
  ELSE IF reply[c] = "error" THEN "refused"
  ELSE IF reply[c] = "result" THEN "answered"
  ELSE IF reply[c] = "dropped" THEN "abandoned"
  ELSE IF told[c] > 0 THEN "announced"
  ELSE IF status[c] = "exited" THEN "finished" ELSE "job"

LifeOf(c) == IF proc[c] \in {"exited", "reaped"} THEN "over" ELSE proc[c]

\* One process per command, one way for its result to reach the client.
Life == INSTANCE CommandLife WITH
  phase <- [c \in Calls |-> PhaseOf(c)], life <- [c \in Calls |-> LifeOf(c)]
ImplementsCommandLife == Life!LifeSpec
==============================================================================
