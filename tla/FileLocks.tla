------------------------------ MODULE FileLocks ------------------------------
(***************************************************************************)
(* The lock table FILE_LOCKS of text_editing.rs: a map from lock key to a  *)
(* reference-counted async mutex, swept of idle entries once it outgrows a *)
(* threshold.  A call clones the entry of a key (Acquire), waits for the   *)
(* mutex (Lock), works, and drops the guard and then its clone.  The       *)
(* single-file tools want one key; the transactional edit of multi_edit.rs *)
(* wants several and takes them in ascending order while holding the ones  *)
(* it has.                                                                 *)
(***************************************************************************)
EXTENDS Integers, FiniteSets

CONSTANTS Calls,           \* requests that write files
          Keys,            \* lock keys, ordered as the BTreeMap orders them
          Locks,           \* identities an Arc<AsyncMutex<()>> can have
          SweepThreshold,  \* LOCK_MAP_SWEEP_THRESHOLD, 1024 in the code
          None

ASSUME FileLocksAssumption ==
  /\ Keys \subseteq Int
  /\ SweepThreshold \in Nat
  /\ None \notin Calls
  /\ None \notin Locks

VARIABLES table,   \* FILE_LOCKS: key -> lock, None where there is no entry
          owner,   \* the call whose guard holds a lock, or None
          handle,  \* handle[c][k]: the Arc clone call c has for key k, or None
          wants,   \* the keys a call has still to lock
          pc       \* where a call is

vars == <<table, owner, handle, wants, pc>>

Init ==
  /\ table  = [k \in Keys |-> None]
  /\ owner  = [l \in Locks |-> None]
  /\ handle = [c \in Calls |-> [k \in Keys |-> None]]
  /\ wants  = [c \in Calls |-> {}]
  /\ pc     = [c \in Calls |-> "idle"]

------------------------------------------------------------------------------
Least(k, S) == k \in S /\ \A j \in S : k <= j

\* Arc::strong_count(lock) > 1: somebody besides the table has a clone.
InUse(l) == \E c \in Calls, k \in Keys : handle[c][k] = l

Entries == {k \in Keys : table[k] # None}

\* Seeded fault: the sweep keeps only locks that are locked right now and
\* forgets the calls that hold a clone and have not got the guard yet.
SweepUnlocked ==
  IF Cardinality(Entries) > SweepThreshold
  THEN [k \in Keys |-> IF table[k] # None /\ owner[table[k]] # None
                       THEN table[k] ELSE None]
  ELSE table

\* Seeded fault: the table is never swept.
SweepNothing == table

Sweep ==
  IF Cardinality(Entries) > SweepThreshold
  THEN [k \in Keys |-> IF table[k] # None /\ InUse(table[k])
                       THEN table[k] ELSE None]
  ELSE table

\* Seeded fault: the keys of a transaction are locked in request order.
AnyOrder(k, S) == k \in S

NextKey(k, S) == Least(k, S)

\* Seeded fault: a new entry may share the mutex of another key.
FreshOrShared(l) == TRUE

\* Arc::new: a mutex that is neither in the table nor cloned by anybody.
Fresh(l) == ~InUse(l) /\ \A j \in Keys : Sweep[j] # l

\* Seeded fault: the loop over the keys takes one turn too many.
OneMoreTurn(c, k) == "acquire"

\* Where the call goes once it has locked k.
AfterLock(c, k) == IF wants[c] = {k} THEN "work" ELSE "acquire"

\* A write request arrives; it needs the locks of the files in K.
Begin(c, K) ==
  /\ pc[c] = "idle"
  /\ wants' = [wants EXCEPT ![c] = K]
  /\ pc' = [pc EXCEPT ![c] = "acquire"]
  /\ UNCHANGED <<table, owner, handle>>

\* acquire_file_lock: under the map's mutex, sweep and then find or insert
\* the entry, and clone it.
Acquire(c) ==
  /\ pc[c] = "acquire"
  /\ \E k \in Keys, l \in Locks :
       /\ NextKey(k, wants[c])
       /\ IF Sweep[k] = None
          THEN Fresh(l)
          ELSE l = Sweep[k]
       /\ table' = [Sweep EXCEPT ![k] = l]
       /\ handle' = [handle EXCEPT ![c][k] = l]
  /\ pc' = [pc EXCEPT ![c] = "lock"]
  /\ UNCHANGED <<owner, wants>>

\* lock().await returns once the mutex is free.
Lock(c) ==
  /\ pc[c] = "lock"
  /\ \E k \in Keys, l \in Locks :
       /\ k \in wants[c]
       /\ handle[c][k] = l
       /\ owner[l] = None
       /\ owner' = [owner EXCEPT ![l] = c]
       /\ wants' = [wants EXCEPT ![c] = @ \ {k}]
       /\ pc' = [pc EXCEPT ![c] = AfterLock(c, k)]
  /\ UNCHANGED <<table, handle>>

\* The call is over, with a result or an error, and drops what it holds; a
\* caller that goes away while the call waits for a mutex does the same.
Finish(c) ==
  /\ pc[c] \in {"work", "lock"}
  /\ wants' = [wants EXCEPT ![c] = {}]
  /\ pc' = [pc EXCEPT ![c] = "drop"]
  /\ UNCHANGED <<table, owner, handle>>

\* Dropping a guard unlocks the mutex; the clone is still counted.
Unlock(c) ==
  /\ pc[c] = "drop"
  /\ \E k \in Keys, l \in Locks :
       /\ handle[c][k] = l
       /\ owner[l] = c
       /\ owner' = [owner EXCEPT ![l] = None]
  /\ UNCHANGED <<table, handle, wants, pc>>

\* Dropping the clone of a mutex the call does not hold.
DropHandle(c) ==
  /\ pc[c] = "drop"
  /\ \E k \in Keys, l \in Locks :
       /\ handle[c][k] = l
       /\ owner[l] # c
       /\ handle' = [handle EXCEPT ![c][k] = None]
  /\ UNCHANGED <<table, owner, wants, pc>>

Done(c) ==
  /\ pc[c] = "drop"
  /\ \A k \in Keys : handle[c][k] = None
  /\ pc' = [pc EXCEPT ![c] = "idle"]
  /\ UNCHANGED <<table, owner, handle, wants>>

Next ==
  \E c \in Calls :
    \/ \E K \in (SUBSET Keys) \ {{}} : Begin(c, K)
    \/ Acquire(c)
    \/ Lock(c)
    \/ Finish(c)
    \/ Unlock(c)
    \/ DropHandle(c)
    \/ Done(c)

Spec == Init /\ [][Next]_vars

\* tokio schedules every task that is ready, a call's own I/O ends, and the
\* async mutex hands itself to its waiters in arrival order, so a waiter the
\* mutex keeps becoming free for is not passed over for ever.
Fairness ==
  \A c \in Calls :
    /\ WF_vars(Acquire(c))
    /\ SF_vars(Lock(c))
    /\ WF_vars(pc[c] = "work" /\ Finish(c))
    /\ WF_vars(Unlock(c))
    /\ WF_vars(DropHandle(c))
    /\ WF_vars(Done(c))

FairSpec == Spec /\ Fairness

------------------------------------------------------------------------------
TypeOK ==
  /\ table \in [Keys -> Locks \cup {None}]
  /\ owner \in [Locks -> Calls \cup {None}]
  /\ handle \in [Calls -> [Keys -> Locks \cup {None}]]
  /\ wants \in [Calls -> SUBSET Keys]
  /\ pc \in [Calls -> {"idle", "acquire", "lock", "work", "drop"}]
  /\ \A c \in Calls : wants[c] # {} <=> pc[c] \in {"acquire", "lock"}

Holds(c, k) == handle[c][k] # None /\ owner[handle[c][k]] = c

\* No two calls are ever inside the same file's critical section, whatever
\* the sweep removed while they were waiting (acquire_file_lock).
MutualExclusion ==
  \A c, d \in Calls, k \in Keys : Holds(c, k) /\ Holds(d, k) => c = d

\* Beyond the threshold the table grows only by entries that are in use: it
\* never holds more than one idle entry above the threshold's worth.
GrowthIsSwept ==
  [][Cardinality(Entries') > Cardinality(Entries) =>
       \/ Cardinality(Entries') <= SweepThreshold + 1
       \/ Cardinality(Entries') <=
            Cardinality({k \in Keys : \E c \in Calls : handle[c][k] # None}) + 1]_vars

\* Calls over overlapping sets of files never wait for one another in a
\* circle: each call that asks for locks gets them all or gives up.
EveryCallProceeds ==
  \A c \in Calls : pc[c] = "acquire" ~> pc[c] \in {"work", "drop"}

\* The table with its reference counts and sweep behaves as one mutex per key.
Mutex == INSTANCE FileMutex
           WITH holder <- [k \in Keys |-> {c \in Calls : Holds(c, k)}]
ImplementsMutex == Mutex!MutexSpec
==============================================================================
