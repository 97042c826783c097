------------------------------- MODULE SftpPool -------------------------------
(***************************************************************************)
(* The pool of SSH connections behind ssh:// paths: get_or_connect with    *)
(* its lock, the set-up of a session (ssh -G, the route with at most one   *)
(* jump host, authentication, the SFTP handshake) under its two timeouts,  *)
(* and the requests that tool calls send over the sessions they were given.*)
(*                                                                         *)
(* A tool call performs several remote operations and asks the pool for a  *)
(* session before each.  A connection is named after the call and the      *)
(* operation it was set up for.  Peers, agents and servers answer when     *)
(* they like or never; a transport may close at any time.                  *)
(***************************************************************************)
EXTENDS Integers, Sequences, SequencesExt

CONSTANTS Calls,
          Keys,        \* pool keys: user@host:port and which of them were explicit
          Jumped,      \* keys whose ssh configuration names a ProxyJump
          Refused,     \* keys whose configuration is not supported: ProxyCommand,
                       \* several or nested jumps
          Agent,       \* the identities the agent offers
          KeyFiles,    \* --ssh-key, IdentityFile entries and defaults that exist
          Operations,  \* bound: remote operations of one call
          None

ASSUME SftpPoolAssumption ==
  /\ Jumped \subseteq Keys
  /\ Operations \in Nat \ {0}
  /\ None \notin Calls \cup Keys \cup (Calls \X (1..Operations))

VARIABLES holder,   \* the call that has the pool's lock
          pool,     \* SftpPool.sessions: the connection of each key
          target, jump, \* transports of a connection: "none", "open" or "closed"
          pc, key,
          op,       \* the operation a call is at
          left,     \* what try_auth has left to offer
          session,  \* the connection a call was given
          failed    \* history: connections that failed a request by being closed

transports == <<target, jump>>
vars == <<holder, pool, transports, pc, key, op, left, session, failed>>

Connections == Calls \X (1..Operations)

Init ==
  /\ holder = None
  /\ pool = [k \in Keys |-> None]
  /\ target = [x \in Connections |-> "none"]
  /\ jump = [x \in Connections |-> "none"]
  /\ pc = [c \in Calls |-> "idle"]
  /\ key = [c \in Calls |-> None]
  /\ op = [c \in Calls |-> 1]
  /\ left = [c \in Calls |-> <<>>]
  /\ session = [c \in Calls |-> None]
  /\ failed = {}

------------------------------------------------------------------------------
\* Helpers.

Goto(c, where) == pc' = [pc EXCEPT ![c] = where]

\* The connection call c sets up for the operation it is at.
Own(c) == <<c, op[c]>>

Route == {"jump", "jump auth", "connect"}   \* connect_transport
Login == {"auth", "handshake"}              \* the set-up after it
Setup == {"resolve"} \cup Route \cup Login

\* Seeded fault: only the target's transport is tested.
TargetIsLive(x) == target[x] = "open"

\* Neither transport is_closed; a direct connection has no proxy handle.
Live(x) == target[x] = "open" /\ jump[x] # "closed"

\* A closed transport fails the requests sent over it.
Broken(x) == target[x] = "closed" \/ jump[x] = "closed"

\* Seeded fault: the lock is released before the session is set up.
Release(c) == None

\* The pool's lock stays with the call that misses, for the whole set-up.
Keep(c) == c

\* Seeded fault: only the route is bounded.
RouteIsBounded == Route

\* The points the two timeouts of connect_sftp cover.
Bounded == Route \cup Login

\* What try_auth offers, in order: the agent's identities, then each key file
\* once, however often it is configured.
Candidates ==
  Agent \o FoldLeft(LAMBDA seen, file : IF Contains(seen, file) THEN seen ELSE Append(seen, file),
                    <<>>, KeyFiles)

\* The call returns, with an error or a result, and drops what it holds: the
\* guard of the pool's lock and the handles it has not put into the pool.
Leave(c) ==
  /\ Goto(c, "end")
  /\ holder' = IF holder = c THEN None ELSE holder
  /\ session' = [session EXCEPT ![c] = None]
  /\ IF pc[c] \in Setup
     THEN /\ target' = [target EXCEPT ![Own(c)] = IF @ = "open" THEN "closed" ELSE @]
          /\ jump' = [jump EXCEPT ![Own(c)] = IF @ = "open" THEN "closed" ELSE @]
     ELSE UNCHANGED transports
  /\ UNCHANGED <<pool, key, op, left>>

------------------------------------------------------------------------------
\* get_or_connect.

Begin(c, k) ==
  /\ pc[c] = "idle"
  /\ key' = [key EXCEPT ![c] = k]
  /\ Goto(c, "wait")
  /\ UNCHANGED <<holder, pool, transports, op, left, session, failed>>

\* The lock is free and the pooled session is alive: share it.
Hit(c) ==
  /\ pc[c] = "wait"
  /\ holder = None
  /\ pool[key[c]] # None
  /\ Live(pool[key[c]])
  /\ session' = [session EXCEPT ![c] = pool[key[c]]]
  /\ Goto(c, "use")
  /\ UNCHANGED <<holder, pool, transports, key, op, left, failed>>

\* No session, or a dead one, which is evicted: set one up.
Miss(c) ==
  /\ pc[c] = "wait"
  /\ holder = None
  /\ pool[key[c]] # None => ~Live(pool[key[c]])
  /\ holder' = Keep(c)
  /\ pool' = [pool EXCEPT ![key[c]] = None]
  /\ Goto(c, "resolve")
  /\ UNCHANGED <<transports, key, op, left, session, failed>>

\* resolve_ssh_target: `ssh -G`, or after 5 s the user's own config file, which
\* may not know of the jump host; then the checks of connect_transport.
Resolve(c) ==
  /\ pc[c] = "resolve"
  /\ \/ /\ key[c] \in Refused
        /\ Leave(c)
     \/ /\ \/ key[c] \in Jumped /\ Goto(c, "jump")
           \/ Goto(c, "connect")
        /\ UNCHANGED <<holder, pool, transports, key, op, left, session>>
  /\ UNCHANGED failed

\* connect_transport: the jump host first, with an authentication of its own.
ReachJump(c) ==
  /\ pc[c] = "jump"
  /\ jump' = [jump EXCEPT ![Own(c)] = "open"]
  /\ left' = [left EXCEPT ![c] = Candidates]
  /\ Goto(c, "jump auth")
  /\ UNCHANGED <<holder, pool, target, key, op, session, failed>>

\* The target, directly or over the jump host's channel.
Connect(c) ==
  /\ pc[c] = "connect"
  /\ jump[Own(c)] # "closed"
  /\ target' = [target EXCEPT ![Own(c)] = "open"]
  /\ left' = [left EXCEPT ![c] = Candidates]
  /\ Goto(c, "auth")
  /\ UNCHANGED <<holder, pool, jump, key, op, session, failed>>

\* try_auth offers the next identity or key; the last one refused ends it.
Accept(c) ==
  /\ pc[c] \in {"auth", "jump auth"}
  /\ left[c] # <<>>
  /\ (IF pc[c] = "auth" THEN target ELSE jump)[Own(c)] = "open"
  /\ Goto(c, IF pc[c] = "auth" THEN "handshake" ELSE "connect")
  /\ UNCHANGED <<holder, pool, transports, key, op, left, session, failed>>

Reject(c) ==
  /\ pc[c] \in {"auth", "jump auth"}
  /\ IF left[c] = <<>>
     THEN Leave(c)
     ELSE /\ left' = [left EXCEPT ![c] = Tail(@)]
          /\ UNCHANGED <<holder, pool, transports, pc, key, op, session>>
  /\ UNCHANGED failed

\* The channel, the subsystem and the SFTP handshake; the session is pooled and
\* the lock released.
Handshake(c) ==
  /\ pc[c] = "handshake"
  /\ target[Own(c)] = "open"
  /\ pool' = [pool EXCEPT ![key[c]] = Own(c)]
  /\ session' = [session EXCEPT ![c] = Own(c)]
  /\ holder' = IF holder = c THEN None ELSE holder
  /\ Goto(c, "use")
  /\ UNCHANGED <<transports, key, op, left, failed>>

\* A peer refuses or breaks off: connecting, opening a channel, the handshake.
PeerFails(c) ==
  /\ pc[c] \in {"jump", "connect", "handshake"}
  /\ Leave(c)
  /\ UNCHANGED failed

\* config.timeout expires: a timeout of its own for the route and for what
\* comes after.
Timeout(c) ==
  /\ pc[c] \in Bounded
  /\ Leave(c)
  /\ UNCHANGED failed

------------------------------------------------------------------------------
\* One remote operation (remote_read, remote_write, remote_metadata, ...) over
\* the session: it succeeds, and the call goes on to its next operation ...
Succeed(c) ==
  /\ pc[c] = "use"
  /\ ~Broken(session[c])
  /\ IF op[c] = Operations
     THEN Leave(c)
     ELSE /\ op' = [op EXCEPT ![c] = @ + 1]
          /\ session' = [session EXCEPT ![c] = None]
          /\ Goto(c, "wait")
          /\ UNCHANGED <<holder, pool, transports, key, left>>
  /\ UNCHANGED failed

\* ... or it fails, or is not answered in time.
FailRequest(c) ==
  /\ pc[c] = "use"
  /\ failed' = IF Broken(session[c]) THEN failed \cup {session[c]} ELSE failed
  /\ Leave(c)

\* The client cancels the call, wherever it is.
Drop(c) ==
  /\ pc[c] \notin {"idle", "end"}
  /\ Leave(c)
  /\ UNCHANGED failed

\* A transport closes: the network, the server, missed keepalives.
CloseTarget(x) ==
  /\ target[x] = "open"
  /\ target' = [target EXCEPT ![x] = "closed"]
  /\ UNCHANGED <<holder, pool, jump, pc, key, op, left, session, failed>>

CloseJump(x) ==
  /\ jump[x] = "open"
  /\ jump' = [jump EXCEPT ![x] = "closed"]
  /\ UNCHANGED <<holder, pool, target, pc, key, op, left, session, failed>>

Terminated == (\A c \in Calls : pc[c] = "end") /\ UNCHANGED vars

Next ==
  \/ \E c \in Calls :
       \/ \E k \in Keys : Begin(c, k)
       \/ Hit(c) \/ Miss(c) \/ Resolve(c) \/ ReachJump(c) \/ Connect(c)
       \/ Accept(c) \/ Reject(c) \/ Handshake(c) \/ PeerFails(c) \/ Timeout(c)
       \/ Succeed(c) \/ FailRequest(c) \/ Drop(c)
  \/ \E x \in Connections : CloseTarget(x) \/ CloseJump(x)
  \/ Terminated

\* The timers fire and the code's own steps are taken.  Nothing is assumed of
\* jump hosts, servers and agents.  The pool's lock is a queue.
Fairness ==
  \A c \in Calls :
    /\ SF_vars(Hit(c) \/ Miss(c))
    /\ WF_vars(Resolve(c))
    /\ WF_vars(Timeout(c))
    /\ WF_vars(Succeed(c) \/ FailRequest(c))

Spec == Init /\ [][Next]_vars /\ Fairness

------------------------------------------------------------------------------
TypeOK ==
  /\ holder \in Calls \cup {None}
  /\ pool \in [Keys -> Connections \cup {None}]
  /\ target \in [Connections -> {"none", "open", "closed"}]
  /\ jump \in [Connections -> {"none", "open", "closed"}]
  /\ pc \in [Calls -> {"idle", "wait", "use", "end"} \cup Setup]
  /\ key \in [Calls -> Keys \cup {None}]
  /\ op \in [Calls -> 1..Operations]
  /\ session \in [Calls -> Connections \cup {None}]
  /\ failed \subseteq Connections

\* "Concurrent calls to the same host would otherwise each open a connection
\* and each trigger an agent approval prompt" (get_or_connect): sessions are
\* set up one at a time, and only for a key without a pooled session.
OnePrompt ==
  \A c \in Calls :
    pc[c] \in Setup =>
      /\ pool[key[c]] = None
      /\ \A d \in Calls : pc[d] \in Setup => d = c

\* "A cached dead session would fail every call to that host forever"
\* otherwise: a connection that has failed one call by being closed, at the
\* target or at the jump host, is given to no call that comes after.
FailedIsNotServedAgain ==
  [][\A c \in Calls :
       session'[c] # session[c] /\ session'[c] # None => session'[c] \notin failed]_vars

\* Every call ends, whatever jump hosts, servers and agents do ("without
\* bounded auth, an unanswered agent prompt hangs the tool call forever"), and
\* however many calls to other hosts stand before it at the pool's lock.
EveryCallEnds == \A c \in Calls : pc[c] = "wait" ~> pc[c] = "end"
==============================================================================
