----------------------------- MODULE JobDelivery -----------------------------
(***************************************************************************)
(* How a client learns that a background job has exited (server.rs): the   *)
(* completion callback notifies the subscriptions/listen streams of the    *)
(* session that started the job and otherwise falls back to a push on the  *)
(* connection; a stream opened late replays an exit that has already been  *)
(* recorded.  ShellJobs shows that the callback runs once, after the exit  *)
(* is on record.                                                           *)
(*                                                                         *)
(* One job, and the streams whose filter names it: a stream for another    *)
(* job never meets this one.                                               *)
(***************************************************************************)
EXTENDS Naturals

CONSTANTS Streams,    \* subscriptions/listen requests
          Sessions,   \* OctofsServer instances, one per HTTP session
          Owner,      \* the session whose shell call started the job
          SessionOf   \* SessionOf[s]: the session of stream s

ASSUME JobDeliveryAssumption ==
  /\ Owner \in Sessions
  /\ SessionOf \in [Streams -> Sessions]

VARIABLES exited,     \* the job's recorded status
          callback,   \* "none", "snapshot", "send" or "done"
          pending,    \* streams the callback has still to notify
          delivered,  \* some of them took the notification
          asTask,     \* the client took the job as a task and polls for it
          sinks,      \* the SubscriptionRegistry, of all sessions
          stream,     \* stream[s]: where listen is: "new", "register", "check",
                      \* "replay", "wait" or "gone"
          open,       \* streams the client has not closed
          got,        \* got[s]: notifications client s received on its stream
          pushed      \* unsolicited notifications on the connection

jobVars == <<exited, callback, pending, delivered, asTask>>
vars == <<jobVars, sinks, stream, open, got, pushed>>

Init ==
  /\ exited = FALSE
  /\ callback = "none"
  /\ pending = {}
  /\ delivered = FALSE
  /\ asTask \in BOOLEAN
  /\ sinks = {}
  /\ stream = [s \in Streams |-> "new"]
  /\ open = Streams
  /\ got = [s \in Streams |-> 0]
  /\ pushed = 0

Receive(s) == got' = [got EXCEPT ![s] = @ + 1]
Push == pushed' = pushed + 1

------------------------------------------------------------------------------
\* The wait task records the exit and then runs the callback.
RecordExit ==
  /\ ~exited
  /\ exited' = TRUE
  /\ UNCHANGED <<callback, pending, delivered, asTask, sinks, stream, open, got, pushed>>

\* Seeded fault: the callback does not wait for the exit to be recorded.
CallableAtOnce == callback = "none"

Callable == callback = "none" /\ exited

Callback ==
  /\ Callable
  /\ callback' = "snapshot"
  /\ UNCHANGED <<exited, pending, delivered, asTask, sinks, stream, open, got, pushed>>

\* sinks_for: the streams are cloned out of the owner's registry.
Snapshot ==
  /\ callback = "snapshot"
  /\ callback' = "send"
  /\ pending' = {s \in sinks : SessionOf[s] = Owner}
  /\ UNCHANGED <<exited, delivered, asTask, sinks, stream, open, got, pushed>>

\* Seeded fault: a stream that is over stays in the registry.
StillListed(s) == sinks

\* SubscriptionRegistry::unregister
Without(s) == sinks \ {s}

\* Seeded fault: the callback goes over the registry again and again.
SentAgain(s) == pending

Unsent(s) == pending \ {s}

\* Seeded fault: a notification that could not be sent counts as delivered.
DeliveredAnyway(s) == TRUE

Delivered(s) == delivered \/ s \in open

\* notify_subscriptions, one stream: a stream that fails is unregistered.
Send(s) ==
  /\ callback = "send"
  /\ s \in pending
  /\ pending' = Unsent(s)
  /\ delivered' = Delivered(s)
  /\ IF s \in open
     THEN Receive(s) /\ UNCHANGED sinks
     ELSE sinks' = Without(s) /\ UNCHANGED got
  /\ UNCHANGED <<exited, callback, asTask, stream, open, pushed>>

\* The fallback: notify_peer_resource_updated.
FallBack ==
  /\ callback = "send"
  /\ pending = {}
  /\ callback' = "done"
  /\ IF delivered \/ asTask THEN UNCHANGED pushed ELSE Push
  /\ UNCHANGED <<exited, pending, delivered, asTask, sinks, stream, open, got>>

------------------------------------------------------------------------------
\* Seeded fault: listen looks at the job before it registers the stream.
CheckThenRegister == [new |-> "check", check |-> "register", register |-> "wait"]

\* The order of listen's steps.
ListenOrder == [new |-> "register", register |-> "check", check |-> "wait"]

Go(s, from) ==
  /\ stream[s] = from
  /\ stream' = [stream EXCEPT ![s] = ListenOrder[from]]

Listen(s) ==
  /\ Go(s, "new")
  /\ UNCHANGED <<jobVars, sinks, open, got, pushed>>

Register(s) ==
  /\ Go(s, "register")
  /\ sinks' = sinks \cup {s}
  /\ UNCHANGED <<jobVars, open, got, pushed>>

\* background_job_finished: an exit on record is replayed.
Check(s) ==
  /\ IF exited
     THEN stream[s] = "check" /\ stream' = [stream EXCEPT ![s] = "replay"]
     ELSE Go(s, "check")
  /\ UNCHANGED <<jobVars, sinks, open, got, pushed>>

Replay(s) ==
  /\ stream[s] = "replay"
  /\ stream' = [stream EXCEPT ![s] = ListenOrder["check"]]
  /\ IF s \in open
     THEN Receive(s) /\ UNCHANGED <<sinks, pushed>>
     ELSE sinks' = Without(s) /\ Push /\ UNCHANGED got
  /\ UNCHANGED <<jobVars, open>>

\* The client closes the stream or goes away ...
Close(s) ==
  /\ s \in open
  /\ open' = open \ {s}
  /\ UNCHANGED <<jobVars, sinks, stream, got, pushed>>

\* ... and listen returns.
Unregister(s) ==
  /\ stream[s] = "wait"
  /\ s \notin open
  /\ stream' = [stream EXCEPT ![s] = "gone"]
  /\ sinks' = Without(s)
  /\ UNCHANGED <<jobVars, open, got, pushed>>

Complete == Callback \/ Snapshot \/ (\E s \in Streams : Send(s)) \/ FallBack

Serve(s) == Register(s) \/ Check(s) \/ Replay(s) \/ Unregister(s)

Next ==
  \/ RecordExit
  \/ Complete
  \/ \E s \in Streams : Listen(s) \/ Close(s) \/ Serve(s)

Spec == Init /\ [][Next]_vars

\* The callback's task and every accepted listen request run to their end; a
\* job need not exit, and clients need not open or close streams.
FairSpec == Spec /\ WF_vars(Complete) /\ \A s \in Streams : WF_vars(Serve(s))

------------------------------------------------------------------------------
TypeOK ==
  /\ exited \in BOOLEAN
  /\ callback \in {"none", "snapshot", "send", "done"}
  /\ pending \subseteq Streams
  /\ delivered \in BOOLEAN
  /\ asTask \in BOOLEAN
  /\ sinks \subseteq Streams
  /\ stream \in [Streams -> {"new", "register", "check", "replay", "wait", "gone"}]
  /\ open \subseteq Streams
  /\ got \in [Streams -> 0..2]
  /\ pushed \in Nat

\* "If the job exits concurrently, either its completion path sees this sink
\* or this replay sees the exited state" (listen): once both are through, an
\* open stream of the job's own session has been notified.  (A stream of
\* another session hears only the replay: registries are per session, while
\* the job and its URI are shared by all.)
NoCompletionMissed ==
  \A s \in Streams :
    /\ callback = "done"
    /\ SessionOf[s] = Owner
    /\ stream[s] = "wait"
    /\ s \in open
    => got[s] > 0

\* A stream that failed does not suppress the fallback: a completion that was
\* neither pushed nor left to a polling client has reached some client.
FallbackNotSuppressed ==
  callback = "done" /\ pushed = 0 /\ ~asTask => \E s \in Streams : got[s] > 0

\* A registered stream is one that listen will still unregister: none is left
\* in the registry when its request is over.
NoSinkIsLeaked == \A s \in sinks : stream[s] \notin {"new", "gone"}

\* Every client of the job's session that keeps its stream open hears of the
\* exit.
EveryStreamIsTold ==
  \A s \in Streams :
    exited /\ SessionOf[s] = Owner /\ stream[s] # "new" ~> got[s] > 0 \/ s \notin open
==============================================================================
