---------------------------- MODULE Remote_proofs ----------------------------
(***************************************************************************)
(* Files over SSH.                                                         *)
(*                                                                         *)
(* SftpPool for every set of calls, keys and credentials: types, that one  *)
(* session at a time is set up and only when none is pooled, and that a    *)
(* connection known to be dead is not handed out again.                    *)
(*                                                                         *)
(* RemoteEdits for every set of calls and URLs and every ssh configuration *)
(* under which URLs of one remote file have one lock key.                  *)
(***************************************************************************)
EXTENDS SftpPool, RemoteEdits, TLAPS

------------------------------------------------------------------------------
(* The pool.                                                               *)

\* A call past its first step has a key, and a call that uses a session has one.
HasKey == \A c \in Calls : pc[c] \notin {"idle", "end"} => key[c] \in Keys
HasSession == \A c \in Calls : pc[c] = "use" => session[c] # None

TypeInv == TypeOK /\ HasKey /\ HasSession

\* Whoever sets a session up has the pool's lock and has emptied its place.
SetupIsLocked ==
  \A c \in Calls : pc[c] \in Setup => holder = c /\ pool[key[c]] = None

PoolInv == TypeInv /\ SetupIsLocked

\* Call x[1] is through with the set-up of connection x, or never needed it.
PastSetup(x) ==
  \/ x[2] < op[x[1]]
  \/ x[2] = op[x[1]] /\ pc[x[1]] \in {"use", "end"}

\* The connections that have been given out are set up, and their transports
\* do not open again; the failed ones are closed.
GivenIsSetUp ==
  /\ \A x \in failed : PastSetup(x) /\ (target[x] = "closed" \/ jump[x] = "closed")
  /\ \A k \in Keys : pool[k] # None => PastSetup(pool[k]) /\ target[pool[k]] # "none"
  /\ \A c \in Calls : session[c] # None => PastSetup(session[c]) /\ target[session[c]] # "none"

\* The connection a call sets up.
LEMMA OwnIsConnection ==
  ASSUME TypeOK, NEW c \in Calls PROVE Own(c) \in Connections
BY DEF TypeOK, Own, Connections

LEMMA NextOperation ==
  ASSUME NEW n \in Nat, NEW i \in 1..n, i # n PROVE i + 1 \in 1..n
OBVIOUS

\* The types are preserved by every step.
LEMMA TypeInvCorrect == Spec => []TypeInv
<1>1. Init => TypeInv
  BY SftpPoolAssumption DEF Init, TypeInv, TypeOK, HasKey, HasSession, Connections, Setup, Route, Login
<1>2. TypeInv /\ [Next]_vars => TypeInv'
  <2> SUFFICES ASSUME TypeInv, [Next]_vars PROVE TypeInv'
    OBVIOUS
  <2>0. \A c \in Calls : Own(c) \in Connections
    BY OwnIsConnection DEF TypeInv
  <2> None \notin Calls \cup Keys \cup Connections
    BY SftpPoolAssumption DEF Connections
  <2> USE DEF TypeInv, TypeOK, HasKey, HasSession, Setup, Route, Login, Goto, transports
  <2>1. ASSUME NEW c \in Calls, NEW k \in Keys, Begin(c, k) PROVE TypeInv'
    BY <2>1 DEF Begin
  <2>2. ASSUME NEW c \in Calls, Hit(c) PROVE TypeInv'
    BY <2>2 DEF Hit
  <2>3. ASSUME NEW c \in Calls, Miss(c) PROVE TypeInv'
    BY <2>3 DEF Miss, Keep
  <2>4. ASSUME NEW c \in Calls, Leave(c), failed' = failed PROVE TypeInv'
    <3>1. pc' \in [Calls -> {"idle", "wait", "use", "end"} \cup Setup] /\ HasKey' /\ HasSession'
      BY <2>4 DEF Leave
    <3>2. /\ target' \in [Connections -> {"none", "open", "closed"}]
          /\ jump' \in [Connections -> {"none", "open", "closed"}]
      <4>1. CASE pc[c] \in Setup
        <5> Own(c) \in Connections
          BY <2>0
        <5>1. PICK x \in Connections :
                /\ target' = [target EXCEPT ![x] = IF @ = "open" THEN "closed" ELSE @]
                /\ jump' = [jump EXCEPT ![x] = IF @ = "open" THEN "closed" ELSE @]
          BY <2>4, <4>1 DEF Leave
        <5> QED BY <5>1
      <4>2. CASE pc[c] \notin Setup
        BY <2>4, <4>2 DEF Leave
      <4> QED BY <4>1, <4>2
    <3>3. /\ holder' \in Calls \cup {None}
          /\ session' \in [Calls -> Connections \cup {None}]
      BY <2>4 DEF Leave
    <3> QED BY <2>4, <3>1, <3>2, <3>3 DEF Leave
  <2>5. ASSUME NEW c \in Calls, Resolve(c) PROVE TypeInv'
    BY <2>4, <2>5 DEF Resolve
  <2>6. ASSUME NEW c \in Calls, ReachJump(c) PROVE TypeInv'
    BY <2>0, <2>6 DEF ReachJump
  <2>7. ASSUME NEW c \in Calls, Connect(c) PROVE TypeInv'
    BY <2>0, <2>7 DEF Connect
  <2>8. ASSUME NEW c \in Calls, Accept(c) PROVE TypeInv'
    BY <2>8 DEF Accept
  <2>9. ASSUME NEW c \in Calls, Reject(c) PROVE TypeInv'
    BY <2>4, <2>9 DEF Reject
  <2>10. ASSUME NEW c \in Calls, Handshake(c) PROVE TypeInv'
    BY <2>0, <2>10 DEF Handshake
  <2>11. ASSUME NEW c \in Calls, PeerFails(c) \/ Timeout(c) \/ Drop(c) PROVE TypeInv'
    BY <2>4, <2>11 DEF PeerFails, Timeout, Drop
  <2>12. ASSUME NEW c \in Calls, Succeed(c) PROVE TypeInv'
    <3>1. CASE op[c] = Operations
      BY <2>4, <2>12, <3>1 DEF Succeed
    <3>2. CASE op[c] # Operations
      <4>1. op[c] \in 1..Operations /\ Operations \in Nat
        BY SftpPoolAssumption
      <4>2. op[c] + 1 \in 1..Operations
        BY <4>1, <3>2, NextOperation
      <4>3. /\ op' = [op EXCEPT ![c] = @ + 1]
            /\ session' = [session EXCEPT ![c] = None]
            /\ pc' = [pc EXCEPT ![c] = "wait"]
            /\ pc[c] = "use"
            /\ UNCHANGED <<holder, pool, target, jump, key, left, failed>>
        BY <2>12, <3>2 DEF Succeed
      <4>4. op' \in [Calls -> 1..Operations]
        BY <4>2, <4>3
      <4> QED BY <4>3, <4>4
    <3> QED BY <3>1, <3>2
  <2>13. ASSUME NEW c \in Calls, FailRequest(c) PROVE TypeInv'
    BY <2>0, <2>13 DEF FailRequest, Leave
  <2>14. ASSUME NEW x \in Connections, CloseTarget(x) \/ CloseJump(x) PROVE TypeInv'
    BY <2>14 DEF CloseTarget, CloseJump
  <2>15. CASE Terminated \/ UNCHANGED vars
    BY <2>15 DEF Terminated, vars
  <2> QED
    BY <2>1, <2>2, <2>3, <2>5, <2>6, <2>7, <2>8, <2>9, <2>10, <2>11, <2>12, <2>13, <2>14,
       <2>15 DEF Next
<1> QED
  BY <1>1, <1>2, PTL DEF Spec

\* Types of the pool's state.
THEOREM TypeCorrect == Spec => []TypeOK
<1>1. TypeInv => TypeOK
  BY DEF TypeInv
<1> QED
  BY <1>1, TypeInvCorrect, PTL

\* A step moves a call within its set-up only if it has the lock, and nobody
\* fills the place of a key but the call that has the lock.
LEMMA PoolInvCorrect == Spec => []PoolInv
<1>1. Init => SetupIsLocked
  BY DEF Init, SetupIsLocked, Setup, Route, Login
<1>2. TypeInv /\ TypeInv' /\ SetupIsLocked /\ [Next]_vars => SetupIsLocked'
  <2> SUFFICES ASSUME TypeInv, TypeInv', SetupIsLocked, [Next]_vars PROVE SetupIsLocked'
    OBVIOUS
  <2>0. None \notin Calls
    BY SftpPoolAssumption
  <2> USE <2>0 DEF TypeInv, TypeOK, HasKey, SetupIsLocked, Setup, Route, Login, Goto, transports
  <2>1. ASSUME NEW c \in Calls, NEW k \in Keys, Begin(c, k) PROVE SetupIsLocked'
    BY <2>1 DEF Begin
  <2>2. ASSUME NEW c \in Calls, Hit(c) PROVE SetupIsLocked'
    BY <2>2 DEF Hit
  <2>3. ASSUME NEW c \in Calls, Miss(c) PROVE SetupIsLocked'
    BY <2>3 DEF Miss, Keep
  <2>4. ASSUME NEW c \in Calls, Leave(c) PROVE SetupIsLocked'
    BY <2>4 DEF Leave
  <2>5. ASSUME NEW c \in Calls, Resolve(c) PROVE SetupIsLocked'
    BY <2>4, <2>5 DEF Resolve
  <2>6. ASSUME NEW c \in Calls, ReachJump(c) \/ Connect(c) \/ Accept(c) PROVE SetupIsLocked'
    <3>1. CASE ReachJump(c)
      BY <3>1 DEF ReachJump
    <3>2. CASE Connect(c)
      BY <3>2 DEF Connect
    <3>3. CASE Accept(c)
      BY <3>3 DEF Accept
    <3> QED BY <2>6, <3>1, <3>2, <3>3
  <2>7. ASSUME NEW c \in Calls, Reject(c) PROVE SetupIsLocked'
    BY <2>4, <2>7 DEF Reject
  <2>8. ASSUME NEW c \in Calls, Handshake(c) PROVE SetupIsLocked'
    BY <2>8 DEF Handshake
  <2>9. ASSUME NEW c \in Calls, PeerFails(c) \/ Timeout(c) \/ Drop(c) \/ FailRequest(c)
        PROVE SetupIsLocked'
    BY <2>4, <2>9 DEF PeerFails, Timeout, Drop, FailRequest
  <2>10. ASSUME NEW c \in Calls, Succeed(c) PROVE SetupIsLocked'
    BY <2>4, <2>10 DEF Succeed
  <2>11. ASSUME NEW x \in Connections, CloseTarget(x) \/ CloseJump(x) PROVE SetupIsLocked'
    BY <2>11 DEF CloseTarget, CloseJump
  <2>12. CASE Terminated \/ UNCHANGED vars
    BY <2>12 DEF Terminated, vars
  <2> QED
    BY <2>1, <2>2, <2>3, <2>5, <2>6, <2>7, <2>8, <2>9, <2>10, <2>11, <2>12 DEF Next
<1> QED
  BY <1>1, <1>2, TypeInvCorrect, PTL DEF Spec, PoolInv

\* One set-up at a time, and none for a key that has a pooled session.
THEOREM OnePromptCorrect == Spec => []OnePrompt
<1>1. PoolInv => OnePrompt
  BY DEF PoolInv, SetupIsLocked, OnePrompt
<1> QED
  BY <1>1, PoolInvCorrect, PTL

\* What is past its set-up stays so.
LEMMA PastSetupStays ==
  ASSUME TypeInv, SetupIsLocked, [Next]_vars, NEW x \in Connections, PastSetup(x)
  PROVE  PastSetup(x)'
<1> USE SftpPoolAssumption DEF PastSetup, Connections, Goto
<1>0. /\ x[1] \in Calls /\ x[2] \in 1..Operations
      /\ op \in [Calls -> 1..Operations] /\ pc \in [Calls -> {"idle", "wait", "use", "end"} \cup Setup]
  BY DEF TypeInv, TypeOK
<1>1. ASSUME NEW c \in Calls, NEW k \in Keys, Begin(c, k) PROVE PastSetup(x)'
  BY <1>0, <1>1 DEF Begin
<1>2. ASSUME NEW c \in Calls, Leave(c) PROVE PastSetup(x)'
  BY <1>0, <1>2 DEF Leave
<1>3. ASSUME NEW c \in Calls, Hit(c) \/ Miss(c) \/ ReachJump(c) \/ Connect(c) \/ Accept(c) \/ Handshake(c)
      PROVE PastSetup(x)'
  BY <1>0, <1>3 DEF Hit, Miss, ReachJump, Connect, Accept, Handshake
<1>4. ASSUME NEW c \in Calls, Resolve(c) \/ Reject(c) PROVE PastSetup(x)'
  BY <1>0, <1>2, <1>4 DEF Resolve, Reject
<1>5. ASSUME NEW c \in Calls, PeerFails(c) \/ Timeout(c) \/ Drop(c) \/ FailRequest(c)
      PROVE PastSetup(x)'
  BY <1>2, <1>5 DEF PeerFails, Timeout, Drop, FailRequest
<1>6. ASSUME NEW c \in Calls, Succeed(c) PROVE PastSetup(x)'
  BY <1>0, <1>2, <1>6 DEF Succeed
<1>7. ASSUME NEW y \in Connections, CloseTarget(y) \/ CloseJump(y) PROVE PastSetup(x)'
  BY <1>7 DEF CloseTarget, CloseJump
<1>8. CASE Terminated \/ UNCHANGED vars
  BY <1>8 DEF Terminated, vars
<1> QED
  BY <1>1, <1>3, <1>4, <1>5, <1>6, <1>7, <1>8 DEF Next
\* A call opens no transports but those of the connection it sets up.
LEMMA TransportsStep ==
  ASSUME TypeOK, [Next]_vars, NEW x \in Connections,
         \A c \in Calls : pc[c] \in Setup => x # Own(c)
  PROVE  target'[x] \in {target[x], "closed"} /\ jump'[x] \in {jump[x], "closed"}
<1> USE DEF transports
<1>1. ASSUME NEW c \in Calls, Leave(c)
      PROVE  target'[x] \in {target[x], "closed"} /\ jump'[x] \in {jump[x], "closed"}
  <2>1. CASE pc[c] \in Setup
    <3>1. x # Own(c)
      BY <2>1
    <3> QED BY <1>1, <2>1, <3>1 DEF Leave, TypeOK
  <2>2. CASE pc[c] \notin Setup
    BY <1>1, <2>2 DEF Leave
  <2> QED BY <2>1, <2>2
<1>2. ASSUME NEW c \in Calls, ReachJump(c) \/ Connect(c)
      PROVE  target'[x] \in {target[x], "closed"} /\ jump'[x] \in {jump[x], "closed"}
  <2>1. x # Own(c)
    BY <1>2 DEF ReachJump, Connect, Setup, Route, Login
  <2> QED BY <1>2, <2>1 DEF ReachJump, Connect, TypeOK
<1>3. ASSUME NEW c \in Calls,
             Hit(c) \/ Miss(c) \/ Accept(c) \/ Handshake(c) \/ \E k \in Keys : Begin(c, k)
      PROVE  target' = target /\ jump' = jump
  BY <1>3 DEF Hit, Miss, Accept, Handshake, Begin
<1>4. ASSUME NEW c \in Calls,
             \/ Resolve(c) \/ Reject(c) \/ PeerFails(c) \/ Timeout(c)
             \/ Drop(c) \/ FailRequest(c) \/ Succeed(c)
      PROVE  Leave(c) \/ (target' = target /\ jump' = jump)
  BY <1>4 DEF Resolve, Reject, PeerFails, Timeout, Drop, FailRequest, Succeed
<1>5. ASSUME NEW y \in Connections, CloseTarget(y) \/ CloseJump(y)
      PROVE  target'[x] \in {target[x], "closed"} /\ jump'[x] \in {jump[x], "closed"}
  BY <1>5 DEF CloseTarget, CloseJump, TypeOK
<1>6. CASE Terminated \/ UNCHANGED vars
  BY <1>6 DEF Terminated, vars
<1> QED
  BY <1>1, <1>2, <1>3, <1>4, <1>5, <1>6 DEF Next

\* A call gets a session from the pool or by setting one up.
LEMMA NewSession ==
  ASSUME TypeOK, HasKey, [Next]_vars, NEW c \in Calls, session'[c] # None, session'[c] # session[c]
  PROVE  \/ /\ Hit(c) /\ session'[c] = pool[key[c]] /\ pool[key[c]] # None /\ key[c] \in Keys
         \/ Handshake(c) /\ session'[c] = Own(c)
<1>1. ASSUME NEW d \in Calls, Leave(d) PROVE FALSE
  BY <1>1 DEF Leave, TypeOK
<1>2. PICK d \in Calls : Hit(d) \/ Handshake(d)
  BY <1>1 DEF Next, Begin, Miss, Resolve, ReachJump, Connect, Accept, Reject, PeerFails, Timeout,
       Succeed, FailRequest, Drop, CloseTarget, CloseJump, Terminated, vars, TypeOK
<1>3. CASE Hit(d)
  BY <1>3 DEF Hit, HasKey, TypeOK
<1>4. CASE Handshake(d)
  BY <1>4 DEF Handshake, TypeOK
<1> QED BY <1>2, <1>3, <1>4

\* The session a call has set up is given out as it is.
LEMMA OwnGiven ==
  ASSUME TypeOK, NEW c \in Calls, Handshake(c)
  PROVE  \A x \in Connections : x = Own(c) => PastSetup(x)' /\ target'[x] # "none"
<1>1. Own(c)[1] = c /\ Own(c)[2] = op[c]
  BY DEF Own
<1>2. pc'[c] = "use" /\ op' = op /\ target' = target /\ target[Own(c)] = "open"
  BY DEF Handshake, Goto, TypeOK, transports
<1> QED BY <1>1, <1>2 DEF PastSetup, Own

\* Every step keeps what is said of the connections that have been given out.
LEMMA GivenIsSetUpCorrect == Spec => []GivenIsSetUp
<1>1. Init => GivenIsSetUp
  BY DEF Init, GivenIsSetUp
<1>2. PoolInv /\ PoolInv' /\ GivenIsSetUp /\ [Next]_vars => GivenIsSetUp'
  <2> SUFFICES ASSUME PoolInv, PoolInv', GivenIsSetUp, [Next]_vars PROVE GivenIsSetUp'
    OBVIOUS
  <2>0. /\ TypeOK /\ TypeOK' /\ HasKey /\ HasSession
        /\ \A c \in Calls : Own(c) \in Connections
        /\ \A x \in Connections : PastSetup(x) => PastSetup(x)'
        /\ None \notin Connections
    BY PastSetupStays, OwnIsConnection, SftpPoolAssumption DEF PoolInv, TypeInv, Connections
  <2>a. ASSUME NEW c \in Calls, pc[c] \in Setup PROVE ~PastSetup(Own(c))
    <3>1. pc[c] \notin {"use", "end"}
      BY <2>a DEF Setup, Route, Login
    <3>2. Own(c)[1] = c /\ Own(c)[2] = op[c] /\ op[c] \in Int
      BY <2>0 DEF Own, TypeOK
    <3> QED BY <3>1, <3>2 DEF PastSetup
  <2> USE <2>0
  \* What is given out or dead stays so.
  <2>1. ASSUME NEW x \in Connections, PastSetup(x)
        PROVE  /\ PastSetup(x)'
               /\ target'[x] \in {target[x], "closed"}
               /\ jump'[x] \in {jump[x], "closed"}
    BY <2>0, <2>1, <2>a, TransportsStep
  <2>2. ASSUME NEW x \in failed'
        PROVE PastSetup(x)' /\ (target'[x] = "closed" \/ jump'[x] = "closed")
    <3>1. CASE x \in failed
      BY <2>1, <3>1 DEF GivenIsSetUp, TypeOK
    <3>2. CASE x \notin failed
      <4>1. PICK c \in Calls : FailRequest(c)
        BY <3>2 DEF Next, Begin, Hit, Miss, Resolve, ReachJump, Connect, Accept, Reject, Handshake,
             PeerFails, Timeout, Succeed, Drop, CloseTarget, CloseJump, Terminated, vars
      <4>2. x = session[c] /\ Broken(x) /\ session[c] # None
        BY <3>2, <4>1 DEF FailRequest, HasSession
      <4>3. x \in Connections /\ PastSetup(x) /\ target[x] # "none"
        BY <4>2 DEF GivenIsSetUp, TypeOK
      <4>4. target[x] = "closed" \/ jump[x] = "closed"
        BY <4>2 DEF Broken
      <4> QED BY <2>1, <4>3, <4>4
    <3> QED BY <3>1, <3>2
  <2>3. ASSUME NEW k \in Keys, pool'[k] # None
        PROVE PastSetup(pool[k])' /\ target'[pool'[k]] # "none"
    <3>1. CASE pool'[k] = pool[k]
      BY <2>1, <2>3, <3>1 DEF GivenIsSetUp, TypeOK
    <3>2. CASE pool'[k] # pool[k]
      <4>1. PICK c \in Calls : Handshake(c) /\ pool'[k] = Own(c)
        BY <2>3, <3>2 DEF Next, Begin, Hit, Miss, Resolve, ReachJump, Connect, Accept, Reject, Handshake,
             PeerFails, Timeout, Succeed, FailRequest, Drop, CloseTarget, CloseJump, Terminated,
             vars, Leave, TypeOK
      <4> QED BY <4>1, OwnGiven
    <3> QED BY <3>1, <3>2
  <2>4. ASSUME NEW c \in Calls, session'[c] # None
        PROVE PastSetup(session[c])' /\ target'[session'[c]] # "none"
    <3>1. CASE session'[c] = session[c]
      BY <2>1, <2>4, <3>1 DEF GivenIsSetUp, TypeOK
    <3>2. CASE session'[c] # session[c]
      <4>1. (Hit(c) /\ session'[c] = pool[key[c]] /\ pool[key[c]] # None /\ key[c] \in Keys)
            \/ (Handshake(c) /\ session'[c] = Own(c))
        BY <2>4, <3>2, NewSession
      <4>2. CASE Handshake(c) /\ session'[c] = Own(c)
        BY <4>2, OwnGiven
      <4>3. CASE Hit(c) /\ session'[c] = pool[key[c]] /\ pool[key[c]] # None /\ key[c] \in Keys
        BY <2>1, <4>3 DEF GivenIsSetUp, TypeOK
      <4> QED BY <4>1, <4>2, <4>3
    <3> QED BY <3>1, <3>2
  <2> QED
    BY <2>2, <2>3, <2>4 DEF GivenIsSetUp
<1> QED
  BY <1>1, <1>2, PoolInvCorrect, PTL DEF Spec

\* A connection that has failed a call is never given to another call, for any
\* number of calls and of operations per call.
THEOREM FailedIsNotServedAgainCorrect == Spec => FailedIsNotServedAgain
<1>1. PoolInv /\ GivenIsSetUp /\ [Next]_vars =>
        [\A c \in Calls :
           session'[c] # session[c] /\ session'[c] # None => session'[c] \notin failed]_vars
  <2> SUFFICES ASSUME PoolInv, GivenIsSetUp, [Next]_vars, NEW c \in Calls,
                      session'[c] # session[c], session'[c] # None
               PROVE  session'[c] \notin failed
    OBVIOUS
  <2>0. TypeOK /\ HasKey
    BY DEF PoolInv, TypeInv
  <2>1. CASE Hit(c) /\ session'[c] = pool[key[c]]
    BY <2>1 DEF Hit, Live, GivenIsSetUp
  <2>2. CASE Handshake(c) /\ session'[c] = Own(c)
    <3>1. pc[c] = "handshake" /\ op[c] \in Int
      BY <2>0, <2>2 DEF Handshake, TypeOK
    <3>2. Own(c)[1] = c /\ Own(c)[2] = op[c]
      BY DEF Own
    <3>3. ~PastSetup(Own(c))
      BY <3>1, <3>2 DEF PastSetup
    <3> QED BY <2>2, <3>3 DEF GivenIsSetUp
  <2> QED
    BY <2>0, <2>1, <2>2, NewSession
<1> QED
  BY <1>1, PoolInvCorrect, GivenIsSetUpCorrect, PTL DEF Spec, FailedIsNotServedAgain

------------------------------------------------------------------------------
(* The file tools.                                                         *)

\* What makes the lock key of a URL good enough: no file has two.
OneKeyPerFile == \A p, q \in URLs : Place(p) = Place(q) => LockKey(p) = LockKey(q)

\* The configurations of which the code's key, made before the configuration is
\* applied, is enough: no host goes by two names and none has a port of its
\* own; and no URL spells out the directory that another calls "~".
PlainConfiguration ==
  /\ \A p, q \in URLs : Resolved(p).host = Resolved(q).host => p.host = q.host
  /\ \A p \in URLs : p.portExplicit \/ ConfigPort[p.host] \in {Unset, DefaultPort}
  /\ \A p \in URLs : p.path[1] # "home"
  /\ \A p \in URLs : p.path \in Seq(STRING) /\ p.path # <<>>

\* The steps at which a call that locks has its lock.
Inside == {"load", "save", "pop", "truncate", "send", "remove"}

EditsTypeInv ==
  /\ file \in [Places -> Seq(Writers) \cup {Absent}]
  /\ history \in [Locks -> Seq(Seq(Writers))]
  /\ lockHolder \in [Locks -> SUBSET Writers]
  /\ step \in [Writers -> Inside \cup {"start", "lock", "end"}]
  /\ DOMAIN tool = Writers /\ DOMAIN source = Writers /\ DOMAIN text = Writers
  /\ \A c \in Writers :
       /\ step[c] \in Inside \cup {"lock"} =>
            source[c] \in URLs /\ tool[c] \in {"edit", "delete", "undo", "create"}
       /\ step[c] \in {"lock", "load", "save", "pop", "remove"} => tool[c] # "create"
       /\ step[c] = "load" => tool[c] = "edit"
       /\ step[c] = "pop" => tool[c] = "undo"
       /\ step[c] = "save" => tool[c] \in {"edit", "delete"}
       /\ tool[c] = "edit" /\ step[c] \in {"save", "truncate", "send"} => text[c] \in Seq(Writers)
       /\ step[c] \in {"truncate", "send"} => tool[c] # "delete"
       /\ tool[c] = "undo" /\ step[c] \in {"truncate", "send"} => text[c] \in Seq(Writers)

\* A call that locks has its key from there to its end.
LockInv ==
  \A c \in Writers : step[c] \in Inside /\ tool[c] # "create" => lockHolder[Key(c)] = {c}

\* A create has been asked for on the file of call c.
Created(c) ==
  \E d \in Writers : tool[d] = "create" /\ step[d] # "start" /\ At(d) = At(c)

\* What an edit read is what it saves, unless a create comes in between.
SavedAt(c) ==
  tool[c] = "edit" =>
    /\ step[c] = "save" =>
         /\ file[At(c)] # Absent
         /\ file[At(c)] = text[c] \/ Created(c)
    /\ step[c] \in {"truncate", "send"} =>
         /\ history[Key(c)] # <<>>
         /\ Last(history[Key(c)]) = text[c] \/ Created(c)

SavedInv == \A c \in Writers : SavedAt(c)

------------------------------------------------------------------------------
\* Under a plain configuration URLs of one file have one key.
LEMMA PlainIsEnough == PlainConfiguration => OneKeyPerFile
<1> SUFFICES ASSUME PlainConfiguration, NEW p \in URLs, NEW q \in URLs, Place(p) = Place(q)
             PROVE  LockKey(p) = LockKey(q)
  BY DEF OneKeyPerFile
<1> DEFINE Seen(u) == IF u.path[1] = "~" THEN <<"home", Resolved(u).user>> \o Tail(u.path)
                      ELSE u.path
<1>1. /\ Resolved(p).host = Resolved(q).host /\ Resolved(p).port = Resolved(q).port
      /\ Seen(p) = Seen(q)
  BY DEF Place
<1>2. p.host = q.host
  BY <1>1 DEF PlainConfiguration
<1>3. \A u \in URLs : u.portExplicit \/ u.port = DefaultPort
  <2> SUFFICES ASSUME NEW s \in Sources
               PROVE  Parsed(s).portExplicit \/ Parsed(s).port = DefaultPort
    BY DEF URLs
  <2>1. /\ Parsed(s).portExplicit = (s.port # Unset)
        /\ Parsed(s).port = IF s.port = Unset THEN DefaultPort ELSE s.port
    BY DEF Parsed
  <2> QED
    BY <2>1
<1>4. \A u \in URLs : Resolved(u).port = u.port
  <2> SUFFICES ASSUME NEW u \in URLs PROVE Resolved(u).port = u.port
    OBVIOUS
  <2>1. u.portExplicit \/ ConfigPort[u.host] \in {Unset, DefaultPort}
    BY DEF PlainConfiguration
  <2>2. Resolved(u).port = IF u.portExplicit THEN u.port
                           ELSE IF ConfigPort[u.host] = Unset THEN u.port ELSE ConfigPort[u.host]
    BY DEF Resolved
  <2> QED
    BY <1>3, <2>1, <2>2
<1>5. p.port = q.port
  BY <1>1, <1>4
<1>6. p.path = q.path
  <2>1. /\ p.path \in Seq(STRING) /\ p.path # <<>> /\ p.path[1] # "home"
        /\ q.path \in Seq(STRING) /\ q.path # <<>> /\ q.path[1] # "home"
    BY DEF PlainConfiguration
  <2>2. ASSUME NEW u, NEW s \in Seq(STRING), s # <<>>
        PROVE  LET t == <<"home", u>> \o Tail(s)
               IN  /\ Len(t) = Len(s) + 1 /\ t[1] = "home"
                   /\ \A i \in 2..Len(s) : t[i + 1] = s[i]
    <3> DEFINE t == <<"home", u>> \o Tail(s)
    <3>1. Len(Tail(s)) = Len(s) - 1 /\ Len(s) \in Nat /\ Len(s) > 0
      BY <2>2
    <3>2. Len(t) = Len(s) + 1 /\ t[1] = "home"
      BY <2>2, <3>1
    <3>3. ASSUME NEW i \in 2..Len(s) PROVE t[i + 1] = s[i]
      <4>1. Tail(s) \in Seq(STRING) /\ Tail(s)[i - 1] = s[i] /\ i - 1 \in 1..Len(Tail(s))
        BY <2>2, <3>1, <3>3
      <4>2. t[2 + (i - 1)] = Tail(s)[i - 1]
        BY <4>1
      <4> QED
        BY <4>1, <4>2
    <3> QED
      BY <3>2, <3>3
  <2>3. CASE p.path[1] = "~" /\ q.path[1] = "~"
    <3>1. Len(p.path) = Len(q.path)
      BY <1>1, <2>1, <2>2, <2>3
    <3>2. ASSUME NEW i \in 2..Len(p.path) PROVE p.path[i] = q.path[i]
      <4>1. Seen(p)[i + 1] = p.path[i] /\ Seen(q)[i + 1] = q.path[i]
        BY <2>1, <2>2, <2>3, <3>1, <3>2
      <4> HIDE DEF Seen
      <4> QED
        BY <1>1, <4>1
    <3>3. \A i \in 1..Len(p.path) : p.path[i] = q.path[i]
      BY <2>1, <2>3, <3>2
    <3> QED
      BY <2>1, <3>1, <3>3
  <2>4. CASE p.path[1] # "~" /\ q.path[1] # "~"
    BY <1>1, <2>4
  <2>5. CASE p.path[1] = "~" /\ q.path[1] # "~"
    BY <1>1, <2>1, <2>2, <2>5
  <2>6. CASE p.path[1] # "~" /\ q.path[1] = "~"
    BY <1>1, <2>1, <2>2, <2>6
  <2> QED
    BY <2>3, <2>4, <2>5, <2>6
<1> QED
  BY <1>2, <1>5, <1>6 DEF LockKey

\* The places and keys of calls under way.
LEMMA Where ==
  ASSUME EditsTypeInv, NEW c \in Writers, step[c] \in Inside \cup {"lock"}
  PROVE  At(c) \in Places /\ Key(c) \in Locks
BY DEF EditsTypeInv, At, Key, Places, Locks

\* What a call writes is a text.
LEMMA WrittenIsText ==
  ASSUME EditsTypeInv, NEW c \in Writers, step[c] \in {"truncate", "send"}
  PROVE  /\ Written(c) \in Seq(Writers)
         /\ \A n \in 0..Len(Written(c)) : SubSeq(Written(c), 1, n) \in Seq(Writers)
<1>1. tool[c] \in {"edit", "undo", "create"}
  BY DEF EditsTypeInv, Inside
<1>2. Written(c) \in Seq(Writers)
  <2>1. CASE tool[c] = "edit"
    BY <2>1 DEF Written, EditsTypeInv
  <2>2. CASE tool[c] = "undo"
    BY <2>2 DEF Written, EditsTypeInv
  <2>3. CASE tool[c] = "create"
    BY <2>3 DEF Written
  <2> QED
    BY <1>1, <2>1, <2>2, <2>3
<1> HIDE DEF Written
<1> QED
  BY <1>2

\* A call that returns leaves the types.
LEMMA ReturnTypes ==
  ASSUME EditsTypeInv, NEW c \in Writers, Return(c),
         file' \in [Places -> Seq(Writers) \cup {Absent}], history' \in [Locks -> Seq(Seq(Writers))],
         UNCHANGED source, text' = text
  PROVE  EditsTypeInv'
BY DEF EditsTypeInv, Return, Advance, Inside

\* The types of files, histories, locks and calls.
LEMMA EditsTypeCorrect == RemoteEditsAssumption => (EditsSpec => []EditsTypeInv)
<1> SUFFICES ASSUME RemoteEditsAssumption PROVE EditsSpec => []EditsTypeInv
  OBVIOUS
<1>0. <<>> \in Seq(Writers) /\ <<>> \in Seq(Seq(Writers))
  OBVIOUS
<1>1. EditsInit => EditsTypeInv
  <2> SUFFICES ASSUME EditsInit PROVE EditsTypeInv
    OBVIOUS
  <2>1. file \in [Places -> Seq(Writers) \cup {Absent}]
    BY <1>0 DEF EditsInit
  <2>2. history \in [Locks -> Seq(Seq(Writers))] /\ lockHolder \in [Locks -> SUBSET Writers]
    BY <1>0 DEF EditsInit, Mutex!MutexInit
  <2>3. step = [c \in Writers |-> "start"] /\ DOMAIN tool = Writers /\ DOMAIN source = Writers /\ DOMAIN text = Writers
    BY DEF EditsInit
  <2> QED
    BY <2>1, <2>2, <2>3 DEF EditsTypeInv, Inside
<1>2. EditsTypeInv /\ [EditsNext]_editVars => EditsTypeInv'
  <2> SUFFICES ASSUME EditsTypeInv, [EditsNext]_editVars PROVE EditsTypeInv'
    OBVIOUS
  <2>1. ASSUME NEW c \in Writers, NEW kind \in Tools, NEW p \in URLs, Check(c, kind, p)
        PROVE  EditsTypeInv'
    <3>1. /\ step' \in {[step EXCEPT ![c] = FirstStep(kind)], [step EXCEPT ![c] = "end"]}
          /\ step'[c] # "end" => kind \in {"edit", "delete", "undo", "create"}
      BY <2>1 DEF Check, Advance, EditsTypeInv
    <3>2. /\ step'[c] \in {"truncate", "lock", "end"}
          /\ step'[c] = "truncate" => kind = "create"
          /\ step'[c] = "lock" => kind # "create"
          /\ \A d \in Writers \ {c} : step'[d] = step[d]
      BY <3>1 DEF FirstStep, EditsTypeInv
    <3>3. /\ step' \in [Writers -> Inside \cup {"start", "lock", "end"}]
          /\ tool' = [tool EXCEPT ![c] = kind] /\ source' = [source EXCEPT ![c] = p]
          /\ UNCHANGED <<file, history, lockHolder, text>>
      BY <2>1, <3>1, <3>2 DEF Check, EditsTypeInv, Inside
    <3> QED
      BY <3>1, <3>2, <3>3 DEF EditsTypeInv, Inside
  <2>2. ASSUME NEW c \in Writers, TakeLock(c) PROVE EditsTypeInv'
    <3>1. Key(c) \in Locks /\ tool[c] \in {"edit", "delete", "undo"}
      BY <2>2, Where DEF TakeLock, EditsTypeInv, Inside
    <3>2. /\ lockHolder' \in [Locks -> SUBSET Writers]
          /\ UNCHANGED <<file, history, tool, source, text>>
      BY <2>2, <3>1 DEF TakeLock, EditsTypeInv, Mutex!Lock
    <3>3. /\ step[c] = "lock"
          /\ step' = [step EXCEPT ![c] = IF tool[c] = "edit" THEN "load"
                                     ELSE IF tool[c] = "delete" THEN "save" ELSE "pop"]
      BY <2>2, <3>1 DEF TakeLock, Advance
    <3> QED
      BY <3>1, <3>2, <3>3 DEF EditsTypeInv, Inside
  <2>3. ASSUME NEW c \in Writers, Load(c) PROVE EditsTypeInv'
    <3>1. CASE /\ file[At(c)] # Absent
               /\ text' = [text EXCEPT ![c] = file[At(c)]]
               /\ Advance(c, "save")
               /\ UNCHANGED <<lockHolder, tool>>
      <4>1. file[At(c)] \in Seq(Writers)
        BY <2>3, <3>1, Where DEF Load, Inside, EditsTypeInv
      <4> QED
        BY <2>3, <3>1, <4>1 DEF Load, Advance, EditsTypeInv, Inside
    <3>2. CASE Return(c) /\ UNCHANGED text
      BY <2>3, <3>2, ReturnTypes DEF Load, EditsTypeInv
    <3> QED
      BY <2>3, <3>1, <3>2 DEF Load
  <2>4. ASSUME NEW c \in Writers, Save(c) PROVE EditsTypeInv'
    <3>1. history' \in [Locks -> Seq(Seq(Writers))]
      <4>1. CASE file[At(c)] = Absent
        BY <2>4, <4>1 DEF Save, EditsTypeInv
      <4>2. CASE file[At(c)] # Absent
        <5>1. file[At(c)] \in Seq(Writers) /\ Key(c) \in Locks
          BY <2>4, <4>2, Where DEF Save, Inside, EditsTypeInv
        <5> QED
          BY <2>4, <4>2, <5>1 DEF Save, EditsTypeInv
      <4> QED
        BY <4>1, <4>2
    <3> QED
      BY <2>4, <3>1 DEF Save, Advance, EditsTypeInv, Inside
  <2>5. ASSUME NEW c \in Writers, Pop(c) PROVE EditsTypeInv'
    <3> DEFINE stack == history[Key(c)]
    <3>1. stack \in Seq(Seq(Writers)) /\ Key(c) \in Locks
      BY <2>5, Where DEF Pop, Inside, EditsTypeInv
    <3>2. CASE stack = <<>>
      BY <2>5, <3>2, ReturnTypes DEF Pop, EditsTypeInv
    <3>3. CASE stack # <<>>
      <4>1. Last(stack) \in Seq(Writers) /\ Front(stack) \in Seq(Seq(Writers))
        BY <3>1, <3>3 DEF Last, Front
      <4>2. history' = [history EXCEPT ![Key(c)] = Front(stack)]
        BY <2>5, <3>3 DEF Pop
      <4>3. history' \in [Locks -> Seq(Seq(Writers))]
        BY <3>1, <4>1, <4>2 DEF EditsTypeInv
      <4>4. /\ step' = [step EXCEPT ![c] = "truncate"]
            /\ text' = [text EXCEPT ![c] = Last(stack)]
            /\ UNCHANGED <<file, source, lockHolder, tool>>
        BY <2>5, <3>3 DEF Pop, Advance
      <4>5. step[c] = "pop"
        BY <2>5 DEF Pop
      <4> HIDE DEF stack
      <4> QED
        BY <4>1, <4>3, <4>4, <4>5 DEF EditsTypeInv, Inside
    <3> QED
      BY <3>2, <3>3
  <2>6. ASSUME NEW c \in Writers, Truncate(c) PROVE EditsTypeInv'
    <3>1. file' \in [Places -> Seq(Writers) \cup {Absent}]
      BY <1>0, <2>6 DEF Truncate, EditsTypeInv
    <3>2. /\ step[c] = "truncate" /\ step' = [step EXCEPT ![c] = "send"]
          /\ UNCHANGED <<history, lockHolder, tool, source, text>>
      BY <2>6 DEF Truncate, Advance
    <3> QED
      BY <3>1, <3>2 DEF EditsTypeInv, Inside
  <2>7. ASSUME NEW c \in Writers, Send(c) PROVE EditsTypeInv'
    <3>1. /\ \E t \in Seq(Writers) : file' = [file EXCEPT ![At(c)] = t]
      BY <2>7, WrittenIsText DEF Send
    <3>2. file' \in [Places -> Seq(Writers) \cup {Absent}]
      BY <3>1 DEF EditsTypeInv
    <3> QED
      BY <2>7, <3>2, ReturnTypes DEF Send, EditsTypeInv
  <2>8. ASSUME NEW c \in Writers, RemoveFile(c) PROVE EditsTypeInv'
    <3>1. file' \in [Places -> Seq(Writers) \cup {Absent}]
      BY <2>8 DEF RemoveFile, EditsTypeInv
    <3> QED
      BY <2>8, <3>1, ReturnTypes DEF RemoveFile, EditsTypeInv
  <2>9. ASSUME NEW c \in Writers, Fail(c) PROVE EditsTypeInv'
    BY <2>9, ReturnTypes DEF Fail, EditsTypeInv
  <2>10. CASE UNCHANGED editVars
    BY <2>10 DEF EditsTypeInv, editVars
  <2> QED
    BY <2>1, <2>2, <2>3, <2>4, <2>5, <2>6, <2>7, <2>8, <2>9, <2>10 DEF EditsNext, AllEnded
<1> QED
  BY <1>1, <1>2, PTL DEF EditsSpec

------------------------------------------------------------------------------
\* A call that returns lets go of its own lock only.
LEMMA ReturnKeepsLocks ==
  ASSUME EditsTypeInv, LockInv, NEW c \in Writers, Return(c), UNCHANGED source
  PROVE  LockInv'
<1> SUFFICES ASSUME NEW d \in Writers, step'[d] \in Inside, tool'[d] # "create"
             PROVE  lockHolder'[Key(d)'] = {d}
  BY DEF LockInv
<1>1. d # c /\ step[d] \in Inside /\ tool[d] # "create" /\ Key(d)' = Key(d)
  BY DEF Return, Advance, EditsTypeInv, Inside, Key
<1>2. lockHolder[Key(d)] = {d} /\ Key(d) \in Locks
  BY <1>1, Where DEF LockInv
<1> QED
  BY <1>1, <1>2 DEF Return

\* A step that leaves the locks and what calls hold them for.
LEMMA SameLocks ==
  ASSUME LockInv, UNCHANGED <<lockHolder, source, tool>>,
         \A d \in Writers : step'[d] \in Inside => step[d] \in Inside
  PROVE  LockInv'
BY DEF LockInv, Key

\* Every call that locks is alone inside its key.
LEMMA LockInvCorrect == RemoteEditsAssumption => (EditsSpec => []LockInv)
<1> SUFFICES ASSUME RemoteEditsAssumption PROVE EditsSpec => []LockInv
  OBVIOUS
<1>1. EditsInit => LockInv
  BY DEF EditsInit, LockInv, Inside
<1>2. EditsTypeInv /\ LockInv /\ [EditsNext]_editVars => LockInv'
  <2> SUFFICES ASSUME EditsTypeInv, LockInv, [EditsNext]_editVars PROVE LockInv'
    OBVIOUS
  <2>1. ASSUME NEW c \in Writers, NEW kind \in Tools, NEW p \in URLs, Check(c, kind, p)
        PROVE  LockInv'
    <3>1. step'[c] \in Inside => kind = "create"
      BY <2>1 DEF Check, Advance, FirstStep, EditsTypeInv, Inside
    <3>2. /\ \A d \in Writers \ {c} : step'[d] = step[d] /\ tool'[d] = tool[d] /\ source'[d] = source[d]
          /\ tool'[c] = kind /\ UNCHANGED lockHolder
      BY <2>1 DEF Check, Advance, EditsTypeInv
    <3> QED
      BY <3>1, <3>2 DEF LockInv, Key
  <2>2. ASSUME NEW c \in Writers, TakeLock(c) PROVE LockInv'
    <3>1. /\ Key(c) \in Locks /\ lockHolder[Key(c)] = {}
          /\ lockHolder' = [lockHolder EXCEPT ![Key(c)] = {c}]
          /\ \A d \in Writers \ {c} : step'[d] = step[d]
          /\ UNCHANGED <<tool, source>>
      BY <2>2, Where DEF TakeLock, Advance, Mutex!Lock, EditsTypeInv
    <3> SUFFICES ASSUME NEW d \in Writers, step'[d] \in Inside, tool[d] # "create"
                 PROVE  lockHolder'[Key(d)] = {d}
      BY <3>1 DEF LockInv, Key
    <3>2. CASE d = c
      BY <3>1, <3>2 DEF EditsTypeInv
    <3>3. CASE d # c
      <4>1. step[d] \in Inside /\ Key(d) \in Locks /\ lockHolder[Key(d)] = {d}
        BY <3>1, <3>3, Where DEF LockInv
      <4> QED
        BY <3>1, <4>1 DEF EditsTypeInv
    <3> QED
      BY <3>2, <3>3
  <2>3. ASSUME NEW c \in Writers, Load(c) PROVE LockInv'
    BY <2>3, ReturnKeepsLocks, SameLocks DEF Load, Advance, EditsTypeInv, Inside
  <2>4. ASSUME NEW c \in Writers, Save(c) PROVE LockInv'
    BY <2>4, SameLocks DEF Save, Advance, EditsTypeInv, Inside
  <2>5. ASSUME NEW c \in Writers, Pop(c) PROVE LockInv'
    BY <2>5, ReturnKeepsLocks, SameLocks DEF Pop, Advance, EditsTypeInv, Inside
  <2>6. ASSUME NEW c \in Writers, Truncate(c) PROVE LockInv'
    BY <2>6, SameLocks DEF Truncate, Advance, EditsTypeInv, Inside
  <2>7. ASSUME NEW c \in Writers, Send(c) PROVE LockInv'
    BY <2>7, ReturnKeepsLocks DEF Send
  <2>8. ASSUME NEW c \in Writers, RemoveFile(c) PROVE LockInv'
    BY <2>8, ReturnKeepsLocks DEF RemoveFile
  <2>9. ASSUME NEW c \in Writers, Fail(c) PROVE LockInv'
    BY <2>9, ReturnKeepsLocks DEF Fail
  <2>10. CASE UNCHANGED editVars
    BY <2>10, SameLocks DEF editVars
  <2> QED
    BY <2>1, <2>2, <2>3, <2>4, <2>5, <2>6, <2>7, <2>8, <2>9, <2>10 DEF EditsNext, AllEnded
<1> QED
  BY <1>1, <1>2, EditsTypeCorrect, PTL DEF EditsSpec

\* Tools that lock never work on one remote file together, for any calls, URLs
\* and configurations that give a file one key.
THEOREM WritersSerializeCorrect ==
  RemoteEditsAssumption /\ OneKeyPerFile => (EditsSpec => []WritersSerialize)
<1> SUFFICES ASSUME RemoteEditsAssumption, OneKeyPerFile PROVE EditsSpec => []WritersSerialize
  OBVIOUS
<1>1. EditsTypeInv /\ LockInv => WritersSerialize
  BY DEF EditsTypeInv, LockInv, WritersSerialize, OneKeyPerFile, Writing, Inside, At, Key
<1>2. EditsSpec => [](EditsTypeInv /\ LockInv)
  BY EditsTypeCorrect, LockInvCorrect, PTL
<1> QED
  BY <1>1, <1>2, PTL

------------------------------------------------------------------------------
\* What a step of call c may do to files, histories and the other calls.
StepOf(c) ==
  /\ \A e \in Writers : step[e] # "start" =>
       step'[e] # "start" /\ tool'[e] = tool[e] /\ source'[e] = source[e]
  /\ \A d \in Writers \ {c} :
       step'[d] = step[d] /\ tool'[d] = tool[d] /\ source'[d] = source[d] /\ text'[d] = text[d]
  /\ \/ UNCHANGED file
     \/ /\ step[c] \in Inside
        /\ \A f \in Places : f # At(c) => file'[f] = file[f]
        /\ tool[c] = "create" => file'[At(c)] # Absent
  /\ \/ UNCHANGED history
     \/ /\ step[c] \in Inside /\ tool[c] # "create"
        /\ \A k \in Locks : k # Key(c) => history'[k] = history[k]

\* A create stays on record.
LEMMA CreatedStays ==
  ASSUME NEW c \in Writers, StepOf(c), NEW d \in Writers, step[d] # "start", Created(d)
  PROVE  Created(d)'
BY DEF StepOf, Created, At

\* What an edit has saved is out of the reach of every other call.
LEMMA OthersSaved ==
  ASSUME EditsTypeInv, LockInv, SavedInv, OneKeyPerFile,
         NEW c \in Writers, StepOf(c), NEW d \in Writers \ {c}
  PROVE  SavedAt(d)'
<1> SUFFICES ASSUME tool[d] = "edit", step[d] \in {"save", "truncate", "send"}
             PROVE  SavedAt(d)'
  BY DEF SavedAt, StepOf
<1>1. /\ step'[d] = step[d] /\ tool'[d] = tool[d] /\ text'[d] = text[d]
      /\ At(d)' = At(d) /\ Key(d)' = Key(d)
  BY DEF StepOf, At, Key
<1>2. At(d) \in Places /\ Key(d) \in Locks /\ lockHolder[Key(d)] = {d}
  BY Where DEF Inside, LockInv
<1>3. ASSUME step[c] \in Inside, tool[c] # "create" PROVE Key(c) # Key(d) /\ At(c) # At(d)
  <2>1. Key(c) # Key(d)
    BY <1>2, <1>3 DEF LockInv
  <2> QED
    BY <1>3, <2>1 DEF OneKeyPerFile, EditsTypeInv, At, Key, Inside
<1>4. Created(d) => Created(d)'
  BY CreatedStays
<1>5. CASE step[d] = "save"
  <2>1. file[At(d)] # Absent /\ (file[At(d)] = text[d] \/ Created(d))
    BY <1>5 DEF SavedInv, SavedAt
  <2>2. CASE file'[At(d)] = file[At(d)]
    BY <1>1, <1>4, <1>5, <2>1, <2>2 DEF SavedAt
  <2>3. CASE file'[At(d)] # file[At(d)]
    <3>1. step[c] \in Inside /\ tool[c] = "create" /\ At(c) = At(d) /\ file'[At(c)] # Absent
      BY <1>2, <1>3, <2>3 DEF StepOf
    <3>2. Created(d)
      BY <3>1 DEF Created, Inside
    <3> QED
      BY <1>1, <1>4, <1>5, <3>1, <3>2 DEF SavedAt
  <2> QED
    BY <2>2, <2>3
<1>6. CASE step[d] \in {"truncate", "send"}
  <2>1. history[Key(d)] # <<>> /\ (Last(history[Key(d)]) = text[d] \/ Created(d))
    BY <1>6 DEF SavedInv, SavedAt
  <2>2. history'[Key(d)] = history[Key(d)]
    BY <1>2, <1>3 DEF StepOf
  <2> QED
    BY <1>1, <1>4, <1>6, <2>1, <2>2 DEF SavedAt
<1> QED
  BY <1>5, <1>6

\* What an edit will destroy is on the stack.
LEMMA SavedInvCorrect == RemoteEditsAssumption /\ OneKeyPerFile => (EditsSpec => []SavedInv)
<1> SUFFICES ASSUME RemoteEditsAssumption, OneKeyPerFile PROVE EditsSpec => []SavedInv
  OBVIOUS
<1>1. EditsInit => SavedInv
  BY DEF EditsInit, SavedInv, SavedAt
<1>2. EditsTypeInv /\ LockInv /\ SavedInv /\ [EditsNext]_editVars => SavedInv'
  <2> SUFFICES ASSUME EditsTypeInv, LockInv, SavedInv, [EditsNext]_editVars PROVE SavedInv'
    OBVIOUS
  <2>a. ASSUME NEW c \in Writers, StepOf(c), SavedAt(c)' PROVE SavedInv'
    BY <2>a, OthersSaved DEF SavedInv
  <2>b. ASSUME NEW c \in Writers, step'[c] \notin {"save", "truncate", "send"} \/ tool'[c] # "edit"
        PROVE  SavedAt(c)'
    BY <2>b DEF SavedAt
  <2>1. ASSUME NEW c \in Writers, NEW kind \in Tools, NEW p \in URLs, Check(c, kind, p)
        PROVE  SavedInv'
    <3>1. StepOf(c)
      BY <2>1 DEF StepOf, Check, Advance, FirstStep, EditsTypeInv
    <3>2. step'[c] \notin {"save", "truncate", "send"} \/ tool'[c] # "edit"
      BY <2>1 DEF Check, Advance, FirstStep, EditsTypeInv
    <3> QED
      BY <2>a, <2>b, <3>1, <3>2
  <2>2. ASSUME NEW c \in Writers, TakeLock(c) PROVE SavedInv'
    <3>1. StepOf(c)
      BY <2>2 DEF StepOf, TakeLock, Advance, EditsTypeInv
    <3>2. step'[c] \notin {"save", "truncate", "send"} \/ tool'[c] # "edit"
      BY <2>2 DEF TakeLock, Advance, EditsTypeInv
    <3> QED
      BY <2>a, <2>b, <3>1, <3>2
  <2>3. ASSUME NEW c \in Writers, Load(c) PROVE SavedInv'
    <3>1. StepOf(c)
      BY <2>3 DEF StepOf, Load, Return, Advance, EditsTypeInv
    <3>2. CASE /\ file[At(c)] # Absent
               /\ text' = [text EXCEPT ![c] = file[At(c)]]
               /\ Advance(c, "save")
               /\ UNCHANGED <<lockHolder, tool>>
      <4>1. /\ step'[c] = "save" /\ text'[c] = file[At(c)] /\ file'[At(c)] = file[At(c)]
            /\ At(c)' = At(c)
        BY <2>3, <3>2 DEF Load, Advance, EditsTypeInv, At
      <4>2. SavedAt(c)'
        BY <3>2, <4>1 DEF SavedAt
      <4> QED
        BY <2>a, <3>1, <4>2
    <3>3. CASE Return(c)
      BY <2>a, <2>b, <3>1, <3>3 DEF Return, Advance, EditsTypeInv
    <3> QED
      BY <2>3, <3>2, <3>3 DEF Load
  <2>4. ASSUME NEW c \in Writers, Save(c) PROVE SavedInv'
    <3>1. StepOf(c)
      <4>1. \A k \in Locks : k # Key(c) => history'[k] = history[k]
        BY <2>4 DEF Save, EditsTypeInv
      <4> QED
        BY <2>4, <4>1 DEF StepOf, Save, Advance, EditsTypeInv, Inside
    <3>2. CASE tool[c] = "edit"
      <4>1. /\ file[At(c)] # Absent /\ (file[At(c)] = text[c] \/ Created(c))
            /\ step[c] = "save" /\ Key(c) \in Locks /\ At(c) \in Places
        BY <2>4, <3>2, Where DEF Save, SavedInv, SavedAt, Inside
      <4>2. history' = [history EXCEPT ![Key(c)] = Append(history[Key(c)], file[At(c)])]
        BY <2>4, <4>1 DEF Save
      <4>3. history[Key(c)] \in Seq(Seq(Writers)) /\ file[At(c)] \in Seq(Writers)
        BY <4>1 DEF EditsTypeInv
      <4>4. history'[Key(c)] = Append(history[Key(c)], file[At(c)])
        BY <4>1, <4>2 DEF EditsTypeInv
      <4>5. history'[Key(c)] # <<>> /\ Last(history'[Key(c)]) = file[At(c)]
        BY <4>3, <4>4 DEF Last
      <4>6. /\ step'[c] = "truncate" /\ UNCHANGED <<tool, source, text>>
            /\ At(c)' = At(c) /\ Key(c)' = Key(c)
        BY <2>4, <3>2 DEF Save, Advance, EditsTypeInv, At, Key
      <4>7. Created(c) => Created(c)'
        BY <3>1, <4>1, CreatedStays
      <4>8. SavedAt(c)'
        BY <4>1, <4>5, <4>6, <4>7 DEF SavedAt
      <4> QED
        BY <2>a, <3>1, <4>8
    <3>3. CASE tool[c] # "edit"
      BY <2>4, <2>a, <2>b, <3>1, <3>3 DEF Save
    <3> QED
      BY <3>2, <3>3
  <2>5. ASSUME NEW c \in Writers, Pop(c) PROVE SavedInv'
    <3>1. /\ tool[c] = "undo" /\ step[c] \in Inside /\ tool'[c] = "undo"
      BY <2>5 DEF Pop, Return, EditsTypeInv, Inside
    <3>2. StepOf(c)
      <4>1. \A k \in Locks : k # Key(c) => history'[k] = history[k]
        BY <2>5 DEF Pop, EditsTypeInv
      <4>2. /\ \A d \in Writers \ {c} : step'[d] = step[d] /\ text'[d] = text[d]
            /\ step'[c] # "start" /\ UNCHANGED <<file, tool, source>>
        BY <2>5 DEF Pop, Return, Advance, EditsTypeInv
      <4> QED
        BY <3>1, <4>1, <4>2 DEF StepOf
    <3> QED
      BY <2>a, <2>b, <3>1, <3>2
  <2>6. ASSUME NEW c \in Writers, Truncate(c) PROVE SavedInv'
    <3>1. StepOf(c)
      <4>1. /\ \A f \in Places : f # At(c) => file'[f] = file[f]
            /\ file'[At(c)] # Absent
        BY <2>6, Where DEF Truncate, EditsTypeInv, Inside, RemoteEditsAssumption
      <4> QED
        BY <2>6, <4>1 DEF StepOf, Truncate, Advance, EditsTypeInv, Inside
    <3>2. /\ step[c] = "truncate" /\ step'[c] = "send" /\ UNCHANGED <<history, tool, source, text>>
          /\ Key(c)' = Key(c)
      BY <2>6 DEF Truncate, Advance, EditsTypeInv, Key
    <3>3. Created(c) => Created(c)'
      BY <3>1, <3>2, CreatedStays
    <3>4. SavedAt(c)'
      BY <3>2, <3>3 DEF SavedInv, SavedAt
    <3> QED
      BY <2>a, <3>1, <3>4
  <2>7. ASSUME NEW c \in Writers, Send(c) PROVE SavedInv'
    <3>1. /\ step[c] = "send" /\ step[c] \in Inside /\ At(c) \in Places
          /\ UNCHANGED <<history, tool, source, text>>
          /\ step' = [step EXCEPT ![c] = "end"]
      BY <2>7, Where DEF Send, Return, Advance, Inside
    <3>2. PICK t : /\ file' = [file EXCEPT ![At(c)] = t]
                   /\ t = Written(c) \/ \E n \in 0..Len(Written(c)) : t = SubSeq(Written(c), 1, n)
      BY <2>7 DEF Send
    <3>3. tool[c] = "create" => t # Absent
      <4> SUFFICES ASSUME tool[c] = "create" PROVE t # Absent
        OBVIOUS
      <4>1. Written(c) = <<c>>
        BY DEF Written
      <4>2. \A n \in 0..Len(<<c>>) : SubSeq(<<c>>, 1, n) \in {<<>>, <<c>>}
        <5> DEFINE s == <<c>>
        <5>1. s \in Seq(Writers) /\ Len(s) = 1
          OBVIOUS
        <5> HIDE DEF s
        <5>2. SubSeq(s, 1, 0) = <<>> /\ SubSeq(s, 1, 1) = s
          BY <5>1
        <5> QED
          BY <5>1, <5>2 DEF s
      <4>3. t \in {<<>>, <<c>>}
        BY <3>2, <4>1, <4>2
      <4> QED
        BY <4>3 DEF RemoteEditsAssumption
    <3>4. StepOf(c)
      BY <3>1, <3>2, <3>3 DEF StepOf, EditsTypeInv
    <3> QED
      BY <2>a, <2>b, <3>1, <3>4 DEF EditsTypeInv
  <2>8. ASSUME NEW c \in Writers, RemoveFile(c) PROVE SavedInv'
    <3>1. StepOf(c)
      BY <2>8 DEF StepOf, RemoveFile, Return, Advance, EditsTypeInv, Inside
    <3> QED
      BY <2>8, <2>a, <2>b, <3>1 DEF RemoveFile, Return, Advance, EditsTypeInv
  <2>9. ASSUME NEW c \in Writers, Fail(c) PROVE SavedInv'
    <3>1. StepOf(c)
      BY <2>9 DEF StepOf, Fail, Return, Advance, EditsTypeInv
    <3> QED
      BY <2>9, <2>a, <2>b, <3>1 DEF Fail, Return, Advance, EditsTypeInv
  <2>10. CASE UNCHANGED editVars
    BY <2>10 DEF editVars, SavedInv, SavedAt, Created, At, Key
  <2> QED
    BY <2>1, <2>2, <2>3, <2>4, <2>5, <2>6, <2>7, <2>8, <2>9, <2>10 DEF EditsNext, AllEnded
<1> QED
  BY <1>1, <1>2, EditsTypeCorrect, LockInvCorrect, PTL DEF EditsSpec

\* What an edit destroys is the newest snapshot of its file until it returns,
\* however writes fail, for any calls, URLs and configurations that give a file
\* one key.
THEOREM DestroyedIsSavedCorrect ==
  RemoteEditsAssumption /\ OneKeyPerFile => (EditsSpec => []DestroyedIsSaved)
<1> SUFFICES ASSUME RemoteEditsAssumption, OneKeyPerFile PROVE EditsSpec => []DestroyedIsSaved
  OBVIOUS
<1>1. SavedInv => DestroyedIsSaved
  BY DEF SavedInv, SavedAt, DestroyedIsSaved, Created
<1> QED
  BY <1>1, SavedInvCorrect, PTL

------------------------------------------------------------------------------
\* What undo needs besides: no key has two files, which it has where two
\* logins of a host name paths below their homes (run remote_homes).
OnePlacePerKey == \A p, q \in URLs : LockKey(p) = LockKey(q) => Place(p) = Place(q)

\* Paths below the home are named for one login of each host.
OneLoginPerHost ==
  \A p, q \in URLs : p.host = q.host /\ p.path[1] = "~" /\ q.path[1] = "~"
                       => Resolved(p).user = Resolved(q).user

\* Under a plain configuration with one login for each host a key is of one
\* file.
LEMMA PlainHasOnePlace == PlainConfiguration /\ OneLoginPerHost => OnePlacePerKey
<1> SUFFICES ASSUME PlainConfiguration, OneLoginPerHost, NEW p \in URLs, NEW q \in URLs,
                    LockKey(p) = LockKey(q)
             PROVE  Place(p) = Place(q)
  BY DEF OnePlacePerKey
<1>1. p.host = q.host /\ p.port = q.port /\ p.path = q.path
  BY DEF LockKey
<1>2. Resolved(p).host = Resolved(q).host
  BY <1>1 DEF Resolved
<1>3. \A u \in URLs : Resolved(u).port = u.port
  <2> SUFFICES ASSUME NEW u \in URLs PROVE Resolved(u).port = u.port
    OBVIOUS
  <2>1. u.portExplicit \/ ConfigPort[u.host] \in {Unset, DefaultPort}
    BY DEF PlainConfiguration
  <2>2. Resolved(u).port = IF u.portExplicit THEN u.port
                           ELSE IF ConfigPort[u.host] = Unset THEN u.port ELSE ConfigPort[u.host]
    BY DEF Resolved
  <2>3. u.portExplicit \/ u.port = DefaultPort
    <3>1. PICK s \in Sources : u = Parsed(s)
      BY DEF URLs
    <3>2. /\ Parsed(s).portExplicit = (s.port # Unset)
          /\ Parsed(s).port = IF s.port = Unset THEN DefaultPort ELSE s.port
      BY DEF Parsed
    <3> QED
      BY <3>1, <3>2
  <2> QED
    BY <2>1, <2>2, <2>3
<1>4. p.path[1] = "~" => Resolved(p).user = Resolved(q).user
  BY <1>1 DEF OneLoginPerHost
<1> QED
  BY <1>1, <1>2, <1>3, <1>4 DEF Place

\* No operation fails and no create writes: an edit that fails after its
\* snapshot leaves it, an undo that fails has lost it, and a create takes none.
Undisturbed == ~Faulty /\ "create" \notin Tools

\* Between the snapshot of a change and the change, or the other way round.
Midway(c) == step[c] \in {"truncate", "remove"}

\* How far snapshots and changes of a file are apart there.
Balanced(c, k, f) ==
  /\ tool[c] = "edit" =>
       step[c] = "truncate" /\ file[f] # Absent /\ history[k] = Append(past[f], file[f])
  /\ tool[c] = "delete" =>
       /\ step[c] = "remove"
       /\ history[k] = IF file[f] = Absent THEN past[f] ELSE Append(past[f], file[f])
  /\ tool[c] = "undo" => step[c] = "truncate" /\ past[f] = Append(history[k], text[c])

KeptOf(p) ==
  /\ (\A c \in Writers : Midway(c) => Key(c) # LockKey(p)) => history[LockKey(p)] = past[Place(p)]
  /\ \A c \in Writers : Midway(c) /\ Key(c) = LockKey(p) => Balanced(c, LockKey(p), Place(p))

StackInv ==
  /\ past \in [Places -> Seq(Seq(Writers))]
  /\ \A c \in Writers : step[c] # "start" => tool[c] # "create"
  /\ \A p \in URLs : KeptOf(p)

\* A call with its lock knows how its file and its snapshots stand.
LEMMA OwnStack ==
  ASSUME EditsTypeInv, LockInv, StackInv, NEW c \in Writers, step[c] \in Inside
  PROVE  /\ source[c] \in URLs /\ Key(c) \in Locks /\ At(c) \in Places
         /\ tool[c] \in {"edit", "delete", "undo"}
         /\ \A d \in Writers : Midway(d) /\ Key(d) = Key(c) => d = c
         /\ ~Midway(c) => history[Key(c)] = past[At(c)]
         /\ Midway(c) => Balanced(c, Key(c), At(c))
<1>1. source[c] \in URLs /\ tool[c] \in {"edit", "delete", "undo"}
  BY DEF EditsTypeInv, StackInv, Inside
<1>2. \A d \in Writers : Midway(d) /\ Key(d) = Key(c) => d = c
  BY DEF LockInv, StackInv, Midway, Inside
<1>3. KeptOf(source[c]) /\ Key(c) = LockKey(source[c]) /\ At(c) = Place(source[c])
  BY <1>1 DEF StackInv, Key, At
<1> QED
  BY <1>1, <1>2, <1>3, Where DEF KeptOf

\* A step of a call with its lock that leaves its own stack in order, and
\* touches no other, keeps all in order.
LEMMA OwnStep ==
  ASSUME OneKeyPerFile, OnePlacePerKey, EditsTypeInv, LockInv, StackInv,
         NEW c \in Writers, step[c] \in Inside,
         UNCHANGED <<tool, source>>,
         \A d \in Writers \ {c} : step'[d] = step[d] /\ text'[d] = text[d],
         \A k \in Locks : k # Key(c) => history'[k] = history[k],
         \A f \in Places : f # At(c) => file'[f] = file[f] /\ past'[f] = past[f],
         past' \in [Places -> Seq(Seq(Writers))],
         ~Midway(c)' => history'[Key(c)] = past'[At(c)],
         Midway(c)' => Balanced(c, Key(c), At(c))'
  PROVE  StackInv'
<1>1. /\ source[c] \in URLs /\ Key(c) \in Locks /\ At(c) \in Places
      /\ tool[c] \in {"edit", "delete", "undo"}
      /\ \A d \in Writers : Midway(d) /\ Key(d) = Key(c) => d = c
  BY OwnStack
<1>2. \A d \in Writers : Key(d)' = Key(d) /\ At(d)' = At(d)
  BY DEF Key, At
<1>3. \A d \in Writers \ {c} : Midway(d)' <=> Midway(d)
  BY DEF Midway
<1>4. \A d \in Writers : step'[d] # "start" => tool'[d] # "create"
  BY <1>1 DEF StackInv
<1>5. ASSUME NEW p \in URLs PROVE KeptOf(p)'
  <2>1. LockKey(p) \in Locks /\ Place(p) \in Places
    BY DEF Locks, Places
  <2>2. CASE LockKey(p) = Key(c)
    <3>1. Place(p) = At(c)
      BY <1>1, <2>2 DEF OnePlacePerKey, Key, At
    <3>2. \A d \in Writers : Midway(d)' /\ Key(d)' = LockKey(p) => d = c
      BY <1>1, <1>2, <1>3, <2>2
    <3> QED
      BY <1>2, <2>2, <3>1, <3>2 DEF KeptOf
  <2>3. CASE LockKey(p) # Key(c)
    <3>1. Place(p) # At(c)
      BY <1>1, <2>3 DEF OneKeyPerFile, Key, At
    <3>2. /\ history'[LockKey(p)] = history[LockKey(p)]
          /\ file'[Place(p)] = file[Place(p)] /\ past'[Place(p)] = past[Place(p)]
      BY <2>1, <2>3, <3>1
    <3>3. KeptOf(p)
      BY DEF StackInv
    <3>4. \A d \in Writers : Midway(d)' /\ Key(d)' = LockKey(p) => d # c /\ Midway(d) /\ Key(d) = LockKey(p)
      BY <1>2, <1>3, <2>3
    <3>5. \A d \in Writers : Midway(d) /\ Key(d) = LockKey(p) => d # c /\ Midway(d)' /\ Key(d)' = LockKey(p)
      BY <1>2, <1>3, <2>3
    <3>6. ASSUME NEW d \in Writers, Midway(d)', Key(d)' = LockKey(p)
          PROVE  Balanced(d, LockKey(p), Place(p))'
      <4>1. d # c /\ Balanced(d, LockKey(p), Place(p))
        BY <3>3, <3>4, <3>6 DEF KeptOf
      <4> QED
        BY <3>2, <4>1 DEF Balanced
    <3> QED
      BY <3>2, <3>3, <3>5, <3>6 DEF KeptOf
  <2> QED
    BY <2>2, <2>3
<1> QED
  BY <1>4, <1>5 DEF StackInv

\* A step ahead of the lock, or none.
LEMMA NoStep ==
  ASSUME StackInv, UNCHANGED <<file, history, past>>,
         \A d \in Writers : step'[d] # "start" => tool'[d] # "create",
         \A d \in Writers : Midway(d) \/ Midway(d)' =>
           step'[d] = step[d] /\ tool'[d] = tool[d] /\ source'[d] = source[d] /\ text'[d] = text[d]
  PROVE  StackInv'
<1>1. \A d \in Writers : /\ Midway(d)' <=> Midway(d)
                         /\ Midway(d) => Key(d)' = Key(d)
  BY DEF Midway, Key
<1>2. ASSUME NEW p \in URLs PROVE KeptOf(p)'
  <2>1. KeptOf(p)
    BY DEF StackInv
  <2>2. ASSUME NEW d \in Writers, Midway(d)', Key(d)' = LockKey(p)
        PROVE  Balanced(d, LockKey(p), Place(p))'
    <3>1. Balanced(d, LockKey(p), Place(p))
      BY <1>1, <2>1, <2>2 DEF KeptOf
    <3> QED
      BY <2>2, <3>1 DEF Balanced
  <2> QED
    BY <1>1, <2>1, <2>2 DEF KeptOf
<1> QED
  BY <1>2 DEF StackInv

\* What was appended comes off again.
LEMMA FrontAndLast ==
  ASSUME NEW S, NEW q \in Seq(S), NEW e \in S
  PROVE  /\ Append(q, e) \in Seq(S) /\ Append(q, e) # <<>>
         /\ Last(Append(q, e)) = e /\ Front(Append(q, e)) = q
<1>1. /\ Append(q, e) \in Seq(S) /\ Len(Append(q, e)) = Len(q) + 1 /\ Len(q) \in Nat
      /\ Append(q, e)[Len(q) + 1] = e /\ \A i \in 1..Len(q) : Append(q, e)[i] = q[i]
  OBVIOUS
<1>2. Front(Append(q, e)) = [i \in 1..Len(q) |-> Append(q, e)[i]]
  BY <1>1 DEF Front
<1>3. q = [i \in 1..Len(q) |-> q[i]]
  OBVIOUS
<1> QED
  BY <1>1, <1>2, <1>3 DEF Last

\* The newest element and the others make up the sequence.
LEMMA LastAndFront ==
  ASSUME NEW S, NEW q \in Seq(S), q # <<>>
  PROVE  /\ Front(q) \in Seq(S) /\ Last(q) \in S /\ q = Append(Front(q), Last(q))
<1>1. Len(q) \in Nat /\ Len(q) - 1 \in Nat /\ q[Len(q)] \in S
  OBVIOUS
<1>2. Front(q) \in Seq(S) /\ Len(Front(q)) = Len(q) - 1 /\ \A i \in 1..(Len(q) - 1) : Front(q)[i] = q[i]
  <2>1. Front(q) = [i \in 1..(Len(q) - 1) |-> q[i]]
    BY <1>1 DEF Front
  <2>2. \A i \in 1..(Len(q) - 1) : q[i] \in S
    BY <1>1
  <2> QED
    BY <1>1, <2>1, <2>2
<1>3. /\ Append(Front(q), Last(q)) \in Seq(S) /\ Len(Append(Front(q), Last(q))) = Len(q)
      /\ \A i \in 1..Len(q) : Append(Front(q), Last(q))[i] = q[i]
  BY <1>1, <1>2 DEF Last
<1> QED
  BY <1>1, <1>2, <1>3 DEF Last

\* Without faults and creates, snapshots and changes keep in step.
LEMMA StackInvCorrect ==
  RemoteEditsAssumption /\ OneKeyPerFile /\ OnePlacePerKey /\ Undisturbed => (EditsSpec => []StackInv)
<1> SUFFICES ASSUME RemoteEditsAssumption, OneKeyPerFile, OnePlacePerKey, Undisturbed
             PROVE  EditsSpec => []StackInv
  OBVIOUS
<1>1. EditsInit => StackInv
  <2> SUFFICES ASSUME EditsInit PROVE StackInv
    OBVIOUS
  <2>1. <<>> \in Seq(Seq(Writers))
    OBVIOUS
  <2>2. /\ past = [f \in Places |-> <<>>] /\ history = [k \in Locks |-> <<>>]
        /\ \A c \in Writers : step[c] = "start"
    BY DEF EditsInit
  <2>3. \A c \in Writers : ~Midway(c)
    BY <2>2 DEF Midway
  <2>4. \A p \in URLs : LockKey(p) \in Locks /\ Place(p) \in Places
    BY DEF Locks, Places
  <2> QED
    BY <2>1, <2>2, <2>3, <2>4 DEF StackInv, KeptOf
<1>2. EditsTypeInv /\ LockInv /\ SavedInv /\ StackInv /\ [EditsNext]_editVars => StackInv'
  <2> SUFFICES ASSUME EditsTypeInv, LockInv, SavedInv, StackInv, [EditsNext]_editVars PROVE StackInv'
    OBVIOUS
  <2>0. past \in [Places -> Seq(Seq(Writers))]
    BY DEF StackInv
  <2>1. ASSUME NEW c \in Writers, NEW kind \in Tools, NEW p \in URLs, Check(c, kind, p)
        PROVE  StackInv'
    <3>1. /\ step[c] = "start" /\ step'[c] \in {"lock", "end"} /\ tool'[c] # "create"
          /\ UNCHANGED <<file, history, text, past>>
          /\ \A d \in Writers \ {c} : step'[d] = step[d] /\ tool'[d] = tool[d] /\ source'[d] = source[d]
      BY <2>1 DEF Check, Advance, FirstStep, EditsTypeInv, Undisturbed
    <3>2. \A d \in Writers : step'[d] # "start" => tool'[d] # "create"
      BY <3>1 DEF StackInv
    <3>3. \A d \in Writers : Midway(d) \/ Midway(d)' => d # c
      BY <3>1 DEF Midway
    <3> QED
      BY <3>1, <3>2, <3>3, NoStep
  <2>2. ASSUME NEW c \in Writers, TakeLock(c) PROVE StackInv'
    <3>1. /\ step[c] = "lock" /\ tool[c] \in {"edit", "delete", "undo"}
          /\ UNCHANGED <<file, history, tool, source, text, past>>
          /\ \A d \in Writers \ {c} : step'[d] = step[d]
      BY <2>2 DEF TakeLock, Advance, EditsTypeInv, Inside
    <3>2. step'[c] \in {"load", "save", "pop"}
      BY <2>2, <3>1 DEF TakeLock, Advance, EditsTypeInv
    <3>3. \A d \in Writers : step'[d] # "start" => tool'[d] # "create"
      BY <3>1 DEF StackInv
    <3>4. \A d \in Writers : Midway(d) \/ Midway(d)' => d # c
      BY <3>1, <3>2 DEF Midway
    <3> QED
      BY <3>1, <3>3, <3>4, NoStep
  <2>3. ASSUME NEW c \in Writers, Load(c) PROVE StackInv'
    <3>1. /\ step[c] = "load" /\ step'[c] \in {"save", "end"}
          /\ UNCHANGED <<file, history, tool, source, past>>
          /\ \A d \in Writers \ {c} : step'[d] = step[d] /\ text'[d] = text[d]
      BY <2>3 DEF Load, Return, Advance, EditsTypeInv
    <3>2. /\ step[c] \in Inside /\ ~Midway(c) /\ ~Midway(c)'
      BY <3>1 DEF Midway, Inside
    <3>3. history[Key(c)] = past[At(c)]
      BY <3>2, OwnStack
    <3>4. Key(c)' = Key(c) /\ At(c)' = At(c)
      BY <3>1 DEF Key, At
    <3> QED
      BY <2>0, <3>1, <3>2, <3>3, OwnStep
  <2>4. ASSUME NEW c \in Writers, Save(c) PROVE StackInv'
    <3>1. /\ step[c] = "save" /\ tool[c] \in {"edit", "delete"}
          /\ UNCHANGED <<file, lockHolder, tool, source, text, past>>
          /\ step' = [step EXCEPT ![c] = IF tool[c] = "delete" THEN "remove" ELSE "truncate"]
      BY <2>4 DEF Save, Advance, EditsTypeInv
    <3>2. step[c] \in Inside /\ ~Midway(c)
      BY <3>1 DEF Inside, Midway
    <3>3. /\ Key(c) \in Locks /\ At(c) \in Places /\ history[Key(c)] = past[At(c)]
      BY <3>2, OwnStack
    <3>4. /\ \A k \in Locks : k # Key(c) => history'[k] = history[k]
          /\ history'[Key(c)] = IF file[At(c)] = Absent THEN past[At(c)] ELSE Append(past[At(c)], file[At(c)])
      BY <2>4, <3>3 DEF Save, EditsTypeInv
    <3>5. tool[c] = "edit" => file[At(c)] # Absent
      BY <3>1 DEF SavedInv, SavedAt
    <3>6. /\ tool[c] = "edit" => step'[c] = "truncate"
          /\ tool[c] = "delete" => step'[c] = "remove"
          /\ \A d \in Writers \ {c} : step'[d] = step[d]
      BY <3>1 DEF EditsTypeInv
    <3>7. Key(c)' = Key(c) /\ At(c)' = At(c)
      BY <3>1 DEF Key, At
    <3>8. Balanced(c, Key(c), At(c))'
      BY <3>1, <3>4, <3>5, <3>6, <3>7 DEF Balanced
    <3>9. Midway(c)'
      BY <3>1, <3>6 DEF Midway
    <3> QED
      BY <2>0, <3>1, <3>2, <3>4, <3>6, <3>8, <3>9, OwnStep
  <2>5. ASSUME NEW c \in Writers, Pop(c) PROVE StackInv'
    <3> DEFINE stack == history[Key(c)]
    <3>1. step[c] = "pop" /\ tool[c] = "undo" /\ UNCHANGED <<file, tool, source, past>>
      BY <2>5 DEF Pop, Return, EditsTypeInv
    <3>2. step[c] \in Inside /\ ~Midway(c)
      BY <3>1 DEF Inside, Midway
    <3>3. /\ Key(c) \in Locks /\ At(c) \in Places /\ stack = past[At(c)]
      BY <3>2, OwnStack
    <3>4. Key(c)' = Key(c) /\ At(c)' = At(c)
      BY <3>1 DEF Key, At
    <3>5. CASE stack = <<>>
      <4>1. /\ UNCHANGED <<history, text>> /\ step'[c] = "end"
            /\ \A d \in Writers \ {c} : step'[d] = step[d]
        BY <2>5, <3>5 DEF Pop, Return, Advance, EditsTypeInv
      <4>2. ~Midway(c)'
        BY <4>1 DEF Midway
      <4> QED
        BY <2>0, <3>1, <3>2, <3>3, <4>1, <4>2, OwnStep
    <3>6. CASE stack # <<>>
      <4>1. /\ history' = [history EXCEPT ![Key(c)] = Front(stack)]
            /\ text' = [text EXCEPT ![c] = Last(stack)]
            /\ step' = [step EXCEPT ![c] = "truncate"]
        BY <2>5, <3>6 DEF Pop, Advance
      <4>2. stack \in Seq(Seq(Writers))
        BY <3>3 DEF EditsTypeInv
      <4>3. stack = Append(Front(stack), Last(stack))
        BY <3>6, <4>2, LastAndFront
      <4> HIDE DEF stack
      <4>4. /\ history'[Key(c)] = Front(stack) /\ text'[c] = Last(stack) /\ step'[c] = "truncate"
            /\ \A k \in Locks : k # Key(c) => history'[k] = history[k]
            /\ \A d \in Writers \ {c} : step'[d] = step[d] /\ text'[d] = text[d]
        BY <3>3, <4>1 DEF EditsTypeInv
      <4>5. past'[At(c)] = Append(history'[Key(c)], text'[c])
        BY <3>1, <3>3, <4>3, <4>4
      <4>6. Balanced(c, Key(c), At(c))'
        BY <3>1, <3>4, <4>4, <4>5 DEF Balanced
      <4>7. Midway(c)'
        BY <4>4 DEF Midway
      <4> QED
        BY <2>0, <3>1, <3>2, <4>4, <4>6, <4>7, OwnStep
    <3> QED
      BY <3>5, <3>6
  <2>6. ASSUME NEW c \in Writers, Truncate(c) PROVE StackInv'
    <3>1. /\ step[c] = "truncate" /\ UNCHANGED <<history, lockHolder, tool, source, text>>
          /\ step' = [step EXCEPT ![c] = "send"]
      BY <2>6 DEF Truncate, Advance
    <3>2. step[c] \in Inside /\ Midway(c)
      BY <3>1 DEF Inside, Midway
    <3>3. /\ Key(c) \in Locks /\ At(c) \in Places /\ Balanced(c, Key(c), At(c))
          /\ tool[c] \in {"edit", "undo"}
      BY <3>1, <3>2, OwnStack DEF Balanced
    <3>4. step'[c] = "send" /\ \A d \in Writers \ {c} : step'[d] = step[d]
      BY <3>1 DEF EditsTypeInv
    <3>5. ~Midway(c)'
      BY <3>4 DEF Midway
    <3>6. \A f \in Places : f # At(c) => file'[f] = file[f] /\ past'[f] = past[f]
      BY <2>0, <2>6, <3>3 DEF Truncate, EditsTypeInv
    <3>7. history[Key(c)] \in Seq(Seq(Writers)) /\ past[At(c)] \in Seq(Seq(Writers))
      BY <2>0, <3>3 DEF EditsTypeInv
    <3>8. past' \in [Places -> Seq(Seq(Writers))] /\ past'[At(c)] = history[Key(c)]
      <4>1. CASE tool[c] = "edit"
        <5>1. past' = [past EXCEPT ![At(c)] = Append(past[At(c)], file[At(c)])]
          BY <2>6, <4>1 DEF Truncate
        <5>2. history[Key(c)] = Append(past[At(c)], file[At(c)])
          BY <3>3, <4>1 DEF Balanced
        <5> QED
          BY <2>0, <3>3, <3>7, <5>1, <5>2
      <4>2. CASE tool[c] = "undo"
        <5>1. past[At(c)] = Append(history[Key(c)], text[c]) /\ text[c] \in Seq(Writers)
          BY <3>1, <3>3, <4>2 DEF Balanced, EditsTypeInv
        <5>2. past[At(c)] # <<>> /\ Front(past[At(c)]) = history[Key(c)]
          BY <3>7, <5>1, FrontAndLast
        <5>3. past' = [past EXCEPT ![At(c)] = history[Key(c)]]
          BY <2>6, <4>2, <5>2 DEF Truncate
        <5> QED
          BY <2>0, <3>3, <3>7, <5>3
      <4> QED
        BY <3>3, <4>1, <4>2
    <3> QED
      BY <3>1, <3>2, <3>4, <3>5, <3>6, <3>8, OwnStep
  <2>7. ASSUME NEW c \in Writers, Send(c) PROVE StackInv'
    <3>1. /\ step[c] = "send" /\ step'[c] = "end" /\ UNCHANGED <<history, tool, source, text, past>>
          /\ \A d \in Writers \ {c} : step'[d] = step[d]
      BY <2>7 DEF Send, Return, Advance, EditsTypeInv
    <3>2. step[c] \in Inside /\ ~Midway(c) /\ ~Midway(c)'
      BY <3>1 DEF Inside, Midway
    <3>3. \A f \in Places : f # At(c) => file'[f] = file[f]
      BY <2>7 DEF Send, EditsTypeInv
    <3>4. history[Key(c)] = past[At(c)]
      BY <3>2, OwnStack
    <3> QED
      BY <2>0, <3>1, <3>2, <3>3, <3>4, OwnStep
  <2>8. ASSUME NEW c \in Writers, RemoveFile(c) PROVE StackInv'
    <3>1. /\ step[c] = "remove" /\ step'[c] = "end" /\ UNCHANGED <<history, tool, source, text>>
          /\ \A d \in Writers \ {c} : step'[d] = step[d]
      BY <2>8 DEF RemoveFile, Return, Advance, EditsTypeInv
    <3>2. step[c] \in Inside /\ Midway(c) /\ ~Midway(c)'
      BY <3>1 DEF Inside, Midway
    <3>3. /\ Key(c) \in Locks /\ At(c) \in Places
          /\ history[Key(c)] = IF file[At(c)] = Absent THEN past[At(c)] ELSE Append(past[At(c)], file[At(c)])
      BY <3>1, <3>2, OwnStack DEF Balanced
    <3>4. history[Key(c)] \in Seq(Seq(Writers))
      BY <3>3 DEF EditsTypeInv
    <3>5. /\ \A f \in Places : f # At(c) => file'[f] = file[f] /\ past'[f] = past[f]
          /\ past' \in [Places -> Seq(Seq(Writers))] /\ past'[At(c)] = history[Key(c)]
      <4>1. CASE file[At(c)] = Absent
        BY <2>0, <2>8, <3>3, <4>1 DEF RemoveFile
      <4>2. CASE file[At(c)] # Absent
        <5>1. /\ past' = [past EXCEPT ![At(c)] = history[Key(c)]]
              /\ file' = [file EXCEPT ![At(c)] = Absent]
          BY <2>8, <3>3, <4>2 DEF RemoveFile
        <5> QED
          BY <2>0, <3>3, <3>4, <5>1 DEF EditsTypeInv
      <4> QED
        BY <4>1, <4>2
    <3> QED
      BY <3>1, <3>2, <3>5, OwnStep
  <2>9. ASSUME NEW c \in Writers, Fail(c) PROVE StackInv'
    BY <2>9 DEF Fail, Undisturbed
  <2>10. CASE UNCHANGED editVars
    <3>1. \A d \in Writers : step'[d] # "start" => tool'[d] # "create"
      BY <2>10 DEF editVars, StackInv
    <3> QED
      BY <2>10, <3>1, NoStep DEF editVars
  <2> QED
    BY <2>1, <2>2, <2>3, <2>4, <2>5, <2>6, <2>7, <2>8, <2>9, <2>10 DEF EditsNext, AllEnded
<1> QED
  BY <1>1, <1>2, EditsTypeCorrect, LockInvCorrect, SavedInvCorrect, PTL DEF EditsSpec

\* What undo writes is what its file held before the last change to it that was
\* not undone: of any calls none of which fails or creates, and any URLs and
\* configurations that give a file one key and a key one file.
THEOREM UndoRevertsItsFileCorrect ==
  RemoteEditsAssumption /\ OneKeyPerFile /\ OnePlacePerKey /\ Undisturbed
    => (EditsSpec => UndoRevertsItsFile)
<1> SUFFICES ASSUME RemoteEditsAssumption, OneKeyPerFile, OnePlacePerKey, Undisturbed
             PROVE  EditsSpec => UndoRevertsItsFile
  OBVIOUS
<1>1. ASSUME EditsTypeInv, LockInv, StackInv,
             NEW c \in Writers, tool[c] = "undo", step[c] = "truncate"
      PROVE  past[At(c)] # <<>> /\ text[c] = Last(past[At(c)])
  <2>1. step[c] \in Inside /\ Midway(c)
    BY <1>1 DEF Inside, Midway
  <2>2. Key(c) \in Locks /\ Balanced(c, Key(c), At(c))
    BY <1>1, <2>1, OwnStack
  <2>3. /\ past[At(c)] = Append(history[Key(c)], text[c])
        /\ history[Key(c)] \in Seq(Seq(Writers)) /\ text[c] \in Seq(Writers)
    BY <1>1, <2>2 DEF Balanced, EditsTypeInv
  <2> QED
    BY <2>3, FrontAndLast
<1>2. EditsTypeInv /\ LockInv /\ StackInv /\ [EditsNext]_editVars =>
        [\A c \in Writers :
           tool[c] = "undo" /\ step[c] = "truncate" /\ step'[c] = "send" =>
             past[At(c)] # <<>> /\ text[c] = Last(past[At(c)])]_editVars
  BY <1>1
<1> QED
  BY <1>2, EditsTypeCorrect, LockInvCorrect, StackInvCorrect, PTL DEF EditsSpec, UndoRevertsItsFile

==============================================================================
