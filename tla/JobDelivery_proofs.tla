-------------------------- MODULE JobDelivery_proofs --------------------------
(***************************************************************************)
(* JobDelivery for every set of streams and sessions: types, and the four  *)
(* safety properties its run checks.                                       *)
(***************************************************************************)
EXTENDS JobDelivery, TLAPS

Sent(s)     == callback \in {"send", "done"} /\ s \notin pending
Replayed(s) == stream[s] \in {"wait", "gone"}

\* A client gets at most one notification from the callback and one from the
\* replay.
AtMostTwice ==
  \A s \in Streams :
    got[s] <= (IF Sent(s) THEN 1 ELSE 0) + (IF Replayed(s) THEN 1 ELSE 0)

\* TypeOK with the unbounded form of the counters, and the counting argument
\* that bounds them.
TypeInv ==
  /\ exited \in BOOLEAN
  /\ callback \in {"none", "snapshot", "send", "done"}
  /\ pending \subseteq Streams
  /\ delivered \in BOOLEAN
  /\ asTask \in BOOLEAN
  /\ sinks \subseteq Streams
  /\ stream \in [Streams -> {"new", "register", "check", "replay", "wait", "gone"}]
  /\ open \subseteq Streams
  /\ got \in [Streams -> Nat]
  /\ pushed \in Nat
  /\ AtMostTwice

\* The callback starts after the exit is on record.
CalledAfterExit == callback # "none" => exited

\* A stream that has registered stays registered while its client is there.
OpenIsListed ==
  \A s \in Streams :
    s \in open /\ stream[s] \in {"check", "replay", "wait"} => s \in sinks

\* A stream of the job's session that was not told by the replay is still to
\* be told by the callback: it has not taken its snapshot of the registry, or
\* the stream is in it.
StillToBeTold ==
  \A s \in Streams :
    /\ SessionOf[s] = Owner
    /\ s \in open
    /\ stream[s] = "wait"
    /\ got[s] = 0
    => \/ callback \in {"none", "snapshot"}
       \/ callback = "send" /\ s \in pending

DeliveryInv == TypeInv /\ CalledAfterExit /\ OpenIsListed /\ StillToBeTold

\* What the fallback is decided on.
DeliveredIsReceived == delivered => \E s \in Streams : got[s] > 0

\* The types are preserved by every step.
LEMMA TypeInvCorrect == Spec => []TypeInv
<1>1. Init => TypeInv
  <2> SUFFICES ASSUME Init PROVE TypeInv
    OBVIOUS
  <2>1. AtMostTwice
    <3>1. \A s \in Streams : got[s] = 0
      BY DEF Init
    <3> QED
      BY <3>1, 0 <= 0 + 0, 0 <= 0 + 1, 0 <= 1 + 0, 0 <= 1 + 1 DEF AtMostTwice
  <2>2. exited \in BOOLEAN /\ delivered \in BOOLEAN /\ asTask \in BOOLEAN
    BY Zenon DEF Init
  <2>3. got \in [Streams -> Nat] /\ pushed \in Nat
    BY DEF Init
  <2>4. stream \in [Streams -> {"new", "register", "check", "replay", "wait", "gone"}]
    BY DEF Init
  <2>5. /\ callback \in {"none", "snapshot", "send", "done"}
        /\ pending \subseteq Streams /\ sinks \subseteq Streams /\ open \subseteq Streams
    BY DEF Init
  <2> QED
    BY <2>1, <2>2, <2>3, <2>4, <2>5 DEF TypeInv
<1>2. TypeInv /\ [Next]_vars => TypeInv'
  <2> SUFFICES ASSUME TypeInv, [Next]_vars PROVE TypeInv'
    OBVIOUS
  <2> USE DEF TypeInv, AtMostTwice, Sent, Replayed
  <2>1. CASE RecordExit
    BY <2>1 DEF RecordExit
  <2>2. CASE Callback
    BY <2>2 DEF Callback, Callable
  <2>3. CASE Snapshot
    BY <2>3 DEF Snapshot
  <2>4. ASSUME NEW s \in Streams, Send(s) PROVE TypeInv'
    BY <2>4 DEF Send, Unsent, Delivered, Receive, Without
  <2>5. CASE FallBack
    BY <2>5 DEF FallBack, Push
  <2>6. ASSUME NEW s \in Streams, Listen(s) PROVE TypeInv'
    BY <2>6 DEF Listen, Go, ListenOrder, jobVars
  <2>7. ASSUME NEW s \in Streams, Register(s) PROVE TypeInv'
    BY <2>7 DEF Register, Go, ListenOrder, jobVars
  <2>8. ASSUME NEW s \in Streams, Check(s) PROVE TypeInv'
    BY <2>8 DEF Check, Go, ListenOrder, jobVars
  <2>9. ASSUME NEW s \in Streams, Replay(s) PROVE TypeInv'
    BY <2>9 DEF Replay, ListenOrder, Receive, Push, Without, jobVars
  <2>10. ASSUME NEW s \in Streams, Close(s) PROVE TypeInv'
    BY <2>10 DEF Close, jobVars
  <2>11. ASSUME NEW s \in Streams, Unregister(s) PROVE TypeInv'
    BY <2>11 DEF Unregister, Without, jobVars
  <2>12. CASE UNCHANGED vars
    BY <2>12 DEF vars, jobVars
  <2> QED
    BY <2>1, <2>2, <2>3, <2>4, <2>5, <2>6, <2>7, <2>8, <2>9, <2>10, <2>11, <2>12
    DEF Next, Complete, Serve
<1> QED
  BY <1>1, <1>2, PTL DEF Spec

\* The types of the registry's, the callback's and the streams' state; no
\* client is told more than twice.
THEOREM TypeCorrect == Spec => []TypeOK
<1>1. TypeInv => TypeOK
  BY DEF TypeInv, TypeOK, AtMostTwice, Sent, Replayed
<1> QED
  BY <1>1, TypeInvCorrect, PTL

\* The inductive invariant holds: registration before the check is what makes
\* StillToBeTold survive a job that exits in between.
LEMMA DeliveryInvCorrect == Spec => []DeliveryInv
<1>1. Init /\ TypeInv => DeliveryInv
  BY DEF Init, DeliveryInv, CalledAfterExit, OpenIsListed, StillToBeTold
<1>2. DeliveryInv /\ TypeInv' /\ [Next]_vars => DeliveryInv'
  <2> SUFFICES ASSUME DeliveryInv, TypeInv', [Next]_vars PROVE DeliveryInv'
    OBVIOUS
  <2> USE DEF DeliveryInv, CalledAfterExit, OpenIsListed, StillToBeTold
  <2>1. CASE RecordExit
    BY <2>1 DEF RecordExit
  <2>2. CASE Callback
    BY <2>2 DEF Callback, Callable
  <2>3. CASE Snapshot
    BY <2>3 DEF Snapshot
  <2>4. ASSUME NEW s \in Streams, Send(s) PROVE DeliveryInv'
    BY <2>4 DEF Send, Unsent, Receive, Without, TypeInv
  <2>5. CASE FallBack
    BY <2>5 DEF FallBack
  <2>6. ASSUME NEW s \in Streams, Listen(s) PROVE DeliveryInv'
    BY <2>6 DEF Listen, Go, ListenOrder, jobVars, TypeInv
  <2>7. ASSUME NEW s \in Streams, Register(s) PROVE DeliveryInv'
    BY <2>7 DEF Register, Go, ListenOrder, jobVars, TypeInv
  <2>8. ASSUME NEW s \in Streams, Check(s) PROVE DeliveryInv'
    BY <2>8 DEF Check, Go, ListenOrder, jobVars, TypeInv
  <2>9. ASSUME NEW s \in Streams, Replay(s) PROVE DeliveryInv'
    BY <2>9 DEF Replay, ListenOrder, Receive, Without, jobVars, TypeInv
  <2>10. ASSUME NEW s \in Streams, Close(s) PROVE DeliveryInv'
    BY <2>10 DEF Close, jobVars
  <2>11. ASSUME NEW s \in Streams, Unregister(s) PROVE DeliveryInv'
    BY <2>11 DEF Unregister, Without, jobVars, TypeInv
  <2>12. CASE UNCHANGED vars
    BY <2>12 DEF vars, jobVars
  <2> QED
    BY <2>1, <2>2, <2>3, <2>4, <2>5, <2>6, <2>7, <2>8, <2>9, <2>10, <2>11, <2>12
    DEF Next, Complete, Serve
<1> QED
  BY <1>1, <1>2, TypeInvCorrect, PTL DEF Spec

\* A job's exit is never missed by an open stream of its session, however
\* listen, the exit and the completion callback interleave.
THEOREM NoCompletionMissedCorrect == Spec => []NoCompletionMissed
<1>1. DeliveryInv => NoCompletionMissed
  BY DEF DeliveryInv, TypeInv, StillToBeTold, NoCompletionMissed
<1> QED
  BY <1>1, DeliveryInvCorrect, PTL

\* A delivery that counts as one has reached a client, and otherwise the
\* connection is pushed to: streams that fail do not suppress the fallback.
THEOREM FallbackNotSuppressedCorrect == Spec => []FallbackNotSuppressed
<1> DEFINE FallbackInv == DeliveredIsReceived /\ FallbackNotSuppressed
<1>1. Init => FallbackInv
  BY DEF Init, DeliveredIsReceived, FallbackNotSuppressed
<1>2. FallbackInv /\ TypeInv /\ TypeInv' /\ [Next]_vars => FallbackInv'
  <2> SUFFICES ASSUME FallbackInv, TypeInv, TypeInv', [Next]_vars PROVE FallbackInv'
    OBVIOUS
  <2> USE DEF DeliveredIsReceived, FallbackNotSuppressed, TypeInv
  <2>1. CASE RecordExit \/ Callback \/ Snapshot
    BY <2>1 DEF RecordExit, Callback, Snapshot
  <2>2. ASSUME NEW s \in Streams, Send(s) PROVE FallbackInv'
    <3>1. \A r \in Streams : got[r] > 0 => got'[r] > 0
      BY <2>2 DEF Send, Receive
    <3>2. s \in open => got'[s] > 0
      BY <2>2 DEF Send, Receive
    <3> QED
      BY <2>2, <3>1, <3>2 DEF Send, Delivered
  <2>3. CASE FallBack
    BY <2>3 DEF FallBack, Push
  <2>4. ASSUME NEW s \in Streams, Replay(s) PROVE FallbackInv'
    <3>1. \A r \in Streams : got[r] > 0 => got'[r] > 0
      BY <2>4 DEF Replay, Receive
    <3> QED
      BY <2>4, <3>1 DEF Replay, Push, jobVars
  <2>5. ASSUME NEW s \in Streams,
               Listen(s) \/ Register(s) \/ Check(s) \/ Close(s) \/ Unregister(s)
        PROVE  FallbackInv'
    BY <2>5 DEF Listen, Register, Check, Close, Unregister, jobVars
  <2>6. CASE UNCHANGED vars
    BY <2>6 DEF vars, jobVars
  <2> QED
    BY <2>1, <2>2, <2>3, <2>4, <2>5, <2>6 DEF Next, Complete, Serve
<1> QED
  BY <1>1, <1>2, TypeInvCorrect, PTL DEF Spec

\* No stream is in the registry before listen has put it there or after listen
\* has returned.
THEOREM NoSinkIsLeakedCorrect == Spec => []NoSinkIsLeaked
<1>1. Init => NoSinkIsLeaked
  BY DEF Init, NoSinkIsLeaked
<1>2. NoSinkIsLeaked /\ TypeInv /\ [Next]_vars => NoSinkIsLeaked'
  <2> SUFFICES ASSUME NoSinkIsLeaked, TypeInv, [Next]_vars PROVE NoSinkIsLeaked'
    OBVIOUS
  <2> USE DEF NoSinkIsLeaked, TypeInv
  <2>1. CASE RecordExit \/ Callback \/ Snapshot \/ FallBack
    BY <2>1 DEF RecordExit, Callback, Snapshot, FallBack
  <2>2. ASSUME NEW s \in Streams, Send(s) PROVE NoSinkIsLeaked'
    BY <2>2 DEF Send, Without
  <2>3. ASSUME NEW s \in Streams, Listen(s) \/ Register(s) \/ Check(s) PROVE NoSinkIsLeaked'
    BY <2>3 DEF Listen, Register, Check, Go, ListenOrder
  <2>4. ASSUME NEW s \in Streams, Replay(s) PROVE NoSinkIsLeaked'
    BY <2>4 DEF Replay, ListenOrder, Without
  <2>5. ASSUME NEW s \in Streams, Close(s) \/ Unregister(s) PROVE NoSinkIsLeaked'
    BY <2>5 DEF Close, Unregister, Without
  <2>6. CASE UNCHANGED vars
    BY <2>6 DEF vars
  <2> QED
    BY <2>1, <2>2, <2>3, <2>4, <2>5, <2>6 DEF Next, Complete, Serve
<1> QED
  BY <1>1, <1>2, TypeInvCorrect, PTL DEF Spec
==============================================================================
