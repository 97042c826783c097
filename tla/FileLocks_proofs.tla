--------------------------- MODULE FileLocks_proofs ---------------------------
(***************************************************************************)
(* FileLocks for every set of calls, keys and lock identities and every    *)
(* threshold: types, mutual exclusion across the sweep, and the refinement *)
(* of FileMutex.                                                           *)
(***************************************************************************)
EXTENDS FileLocks, FiniteSetTheorems, TLAPS

\* A lock that some call has a clone of is the one the table gives to the
\* next call for that key: the sweep's strong_count test drops only locks
\* nobody owns or awaits.
ClonesAreCurrent ==
  \A c \in Calls, k \in Keys : handle[c][k] # None => handle[c][k] = table[k]

\* Two files never share a lock: a transaction over both would wait for
\* itself.
KeysHaveOwnLocks ==
  \A j, k \in Keys : table[j] # None /\ table[j] = table[k] => j = k

\* A guard belongs to a call that still has the clone it was taken from.
GuardsAreCloned ==
  \A c \in Calls, l \in Locks :
    owner[l] = c => \E k \in Keys : handle[c][k] = l

\* The inductive invariant behind mutual exclusion.
LockInv == TypeOK /\ ClonesAreCurrent /\ KeysHaveOwnLocks /\ GuardsAreCloned

\* The sweep removes entries and never changes one.
LEMMA SweepShrinks ==
  ASSUME TypeOK
  PROVE  /\ Sweep \in [Keys -> Locks \cup {None}]
         /\ \A k \in Keys : Sweep[k] = None \/ Sweep[k] = table[k]
  BY DEF Sweep, TypeOK

\* The sweep keeps the entry of every lock that a call has a clone of.
LEMMA SweepKeepsClones ==
  ASSUME TypeOK, ClonesAreCurrent,
         NEW c \in Calls, NEW k \in Keys, handle[c][k] # None
  PROVE  Sweep[k] = handle[c][k]
<1>1. handle[c][k] = table[k] /\ InUse(table[k]) /\ table[k] # None
  BY DEF ClonesAreCurrent, InUse
<1> QED
  BY <1>1 DEF Sweep, TypeOK

\* Every step of a call (acquire_file_lock, lock, drop) keeps the types, and a
\* call has keys to lock exactly while it is acquiring.
THEOREM TypeCorrect == Spec => []TypeOK
<1>1. Init => TypeOK
  BY FileLocksAssumption DEF Init, TypeOK
<1>2. TypeOK /\ [Next]_vars => TypeOK'
  <2> SUFFICES ASSUME TypeOK, [Next]_vars PROVE TypeOK'
    OBVIOUS
  <2>1. ASSUME NEW c \in Calls, NEW K \in (SUBSET Keys) \ {{}}, Begin(c, K)
        PROVE  TypeOK'
    BY <2>1 DEF TypeOK, Begin
  <2>2. ASSUME NEW c \in Calls, Acquire(c) PROVE TypeOK'
    BY <2>2, SweepShrinks DEF TypeOK, Acquire
  <2>3. ASSUME NEW c \in Calls, Lock(c) PROVE TypeOK'
    BY <2>3 DEF TypeOK, Lock, AfterLock
  <2>4. ASSUME NEW c \in Calls, Finish(c) PROVE TypeOK'
    BY <2>4 DEF TypeOK, Finish
  <2>5. ASSUME NEW c \in Calls, Unlock(c) PROVE TypeOK'
    BY <2>5 DEF TypeOK, Unlock
  <2>6. ASSUME NEW c \in Calls, DropHandle(c) PROVE TypeOK'
    BY <2>6 DEF TypeOK, DropHandle
  <2>7. ASSUME NEW c \in Calls, Done(c) PROVE TypeOK'
    BY <2>7 DEF TypeOK, Done
  <2>8. CASE UNCHANGED vars
    BY <2>8 DEF TypeOK, vars
  <2> QED
    BY <2>1, <2>2, <2>3, <2>4, <2>5, <2>6, <2>7, <2>8 DEF Next
<1> QED
  BY <1>1, <1>2, PTL DEF Spec

\* Acquire is the step that sweeps and inserts; the other steps leave the
\* table alone.
LEMMA AcquireKeepsLockInv ==
  ASSUME LockInv, TypeOK', NEW c \in Calls, Acquire(c)
  PROVE  LockInv'
<1> USE DEF LockInv
<1>1. PICK k \in Keys, l \in Locks :
        /\ IF Sweep[k] = None
           THEN Fresh(l)
           ELSE l = Sweep[k]
        /\ table' = [Sweep EXCEPT ![k] = l]
        /\ handle' = [handle EXCEPT ![c][k] = l]
        /\ owner' = owner
  BY DEF Acquire
<1>2. l # None
  BY FileLocksAssumption
<1>3. \A d \in Calls, j \in Keys : handle[d][j] # None => handle'[d][j] = handle[d][j]
  BY <1>1, SweepKeepsClones DEF TypeOK
<1>4. ClonesAreCurrent'
  <2> SUFFICES ASSUME NEW d \in Calls, NEW j \in Keys, handle'[d][j] # None
               PROVE  handle'[d][j] = table'[j]
    BY DEF ClonesAreCurrent
  <2>1. CASE d = c /\ j = k
    BY <2>1, <1>1, SweepShrinks DEF TypeOK
  <2>2. CASE ~(d = c /\ j = k)
    <3>1. handle'[d][j] = handle[d][j]
      BY <2>2, <1>1 DEF TypeOK
    <3>2. Sweep[j] = handle[d][j]
      BY <3>1, SweepKeepsClones
    <3> QED
      BY <3>1, <3>2, <1>1, SweepShrinks
  <2> QED
    BY <2>1, <2>2
<1>5. KeysHaveOwnLocks'
  BY <1>1, SweepShrinks DEF KeysHaveOwnLocks, Fresh
<1>6. GuardsAreCloned'
  BY <1>1, <1>3, FileLocksAssumption DEF GuardsAreCloned, TypeOK
<1> QED
  BY <1>4, <1>5, <1>6

\* The inductive invariant holds in every reachable state; the clones, and not
\* the sweep's threshold, are what the argument rests on.
LEMMA LockInvCorrect == Spec => []LockInv
<1>1. Init => LockInv
  BY FileLocksAssumption
  DEF Init, LockInv, TypeOK, ClonesAreCurrent, KeysHaveOwnLocks, GuardsAreCloned
<1>2. LockInv /\ TypeOK' /\ [Next]_vars => LockInv'
  <2> SUFFICES ASSUME LockInv, TypeOK', [Next]_vars PROVE LockInv'
    OBVIOUS
  <2> USE DEF LockInv, ClonesAreCurrent, KeysHaveOwnLocks, GuardsAreCloned
  <2>1. ASSUME NEW c \in Calls, NEW K \in (SUBSET Keys) \ {{}}, Begin(c, K)
        PROVE  LockInv'
    BY <2>1 DEF Begin
  <2>2. ASSUME NEW c \in Calls, Acquire(c) PROVE LockInv'
    BY <2>2, AcquireKeepsLockInv
  <2>3. ASSUME NEW c \in Calls, Lock(c) PROVE LockInv'
    BY <2>3, FileLocksAssumption DEF Lock, TypeOK
  <2>4. ASSUME NEW c \in Calls, Finish(c) PROVE LockInv'
    BY <2>4 DEF Finish
  <2>5. ASSUME NEW c \in Calls, Unlock(c) PROVE LockInv'
    BY <2>5, FileLocksAssumption DEF Unlock, TypeOK
  <2>6. ASSUME NEW c \in Calls, DropHandle(c) PROVE LockInv'
    BY <2>6, FileLocksAssumption DEF DropHandle, TypeOK
  <2>7. ASSUME NEW c \in Calls, Done(c) PROVE LockInv'
    BY <2>7 DEF Done
  <2>8. CASE UNCHANGED vars
    BY <2>8 DEF vars
  <2> QED
    BY <2>1, <2>2, <2>3, <2>4, <2>5, <2>6, <2>7, <2>8 DEF Next
<1> QED
  BY <1>1, <1>2, TypeCorrect, PTL DEF Spec

\* The sweep of acquire_file_lock never drops a lock that a call holds or
\* waits for.
THEOREM ClonesAreCurrentCorrect == Spec => []ClonesAreCurrent
  BY LockInvCorrect, PTL DEF LockInv

\* acquire_file_lock never gives the same lock to two keys.
THEOREM KeysHaveOwnLocksCorrect == Spec => []KeysHaveOwnLocks
  BY LockInvCorrect, PTL DEF LockInv

\* Per-file mutual exclusion of the writing tools, across any number of sweeps
\* of the table.
THEOREM MutualExclusionCorrect == Spec => []MutualExclusion
<1>1. LockInv => MutualExclusion
  BY DEF LockInv, TypeOK, ClonesAreCurrent, MutualExclusion, Holds
<1> QED
  BY <1>1, LockInvCorrect, PTL

------------------------------------------------------------------------------
\* The keys that calls have clones for.
Used == {k \in Keys : \E c \in Calls : handle[c][k] # None}

\* Acquire adds an entry for one key, to a table in which, beyond the
\* threshold, the sweep has left only entries in use.
LEMMA AcquireGrows ==
  ASSUME LockInv, IsFiniteSet(Entries), NEW c \in Calls, Acquire(c)
  PROVE  /\ IsFiniteSet(Entries')
         /\ \/ Cardinality(Entries') <= SweepThreshold + 1
            \/ Cardinality(Entries') <= Cardinality(Used) + 1
<1>1. PICK k \in Keys : \E l \in Locks : table' = [Sweep EXCEPT ![k] = l]
  BY DEF Acquire
<1>2. Sweep \in [Keys -> Locks \cup {None}]
  BY SweepShrinks DEF LockInv
<1>3. \A j \in Entries' : j = k \/ Sweep[j] # None
  BY <1>1, <1>2 DEF Entries
<1>4. \A j \in Keys : Sweep[j] # None => j \in Entries
  BY SweepShrinks DEF Entries, LockInv
<1>5. IsFiniteSet(Entries \cup {k}) /\ Entries' \in SUBSET (Entries \cup {k})
  <2>1. Entries' \in SUBSET (Entries \cup {k})
    BY <1>3, <1>4 DEF Entries
  <2> QED
    BY <2>1, FS_AddElement
<1>6. IsFiniteSet(Entries')
  BY <1>5, FS_Subset
<1>7. CASE ~(Cardinality(Entries) > SweepThreshold)
  <2>1. /\ Cardinality(Entries') <= Cardinality(Entries \cup {k})
        /\ Cardinality(Entries') \in Nat /\ Cardinality(Entries) \in Nat
    BY <1>5, <1>6, FS_Subset, FS_CardinalityType
  <2>2. Cardinality(Entries \cup {k}) \in {Cardinality(Entries), Cardinality(Entries) + 1}
    BY FS_AddElement
  <2>3. Cardinality(Entries') <= SweepThreshold + 1
    BY <1>7, <2>1, <2>2, FileLocksAssumption
  <2> QED
    BY <1>6, <2>3
<1>8. CASE Cardinality(Entries) > SweepThreshold
  <2>1. \A j \in Keys : Sweep[j] # None => j \in Used
    <3> SUFFICES ASSUME NEW j \in Keys, Sweep[j] # None PROVE j \in Used
      OBVIOUS
    <3>1. table[j] # None /\ InUse(table[j])
      BY <1>8 DEF Sweep
    <3>2. PICK d \in Calls, i \in Keys : handle[d][i] = table[j]
      BY <3>1 DEF InUse
    <3>3. i = j
      BY <3>1, <3>2 DEF LockInv, ClonesAreCurrent, KeysHaveOwnLocks
    <3> QED
      BY <3>1, <3>2, <3>3 DEF Used
  <2>2. Used \in SUBSET Entries
    BY DEF Used, Entries, LockInv, ClonesAreCurrent
  <2>3. IsFiniteSet(Used) /\ Cardinality(Used) \in Nat
    BY <2>2, FS_Subset, FS_CardinalityType
  <2>4. Entries' \in SUBSET (Used \cup {k})
    BY <1>3, <2>1 DEF Entries
  <2>5. /\ IsFiniteSet(Used \cup {k})
        /\ Cardinality(Used \cup {k}) \in {Cardinality(Used), Cardinality(Used) + 1}
    BY <2>3, FS_AddElement
  <2>6. /\ Cardinality(Entries') <= Cardinality(Used \cup {k})
        /\ Cardinality(Entries') \in Nat
    BY <1>6, <2>4, <2>5, FS_Subset, FS_CardinalityType
  <2>7. Cardinality(Entries') <= Cardinality(Used) + 1
    BY <2>3, <2>5, <2>6
  <2> QED
    BY <1>6, <2>7
<1> QED
  BY <1>7, <1>8

\* The sweep bounds the lock table: past the threshold, an entry is added only
\* when all the others are in use (acquire_file_lock).
THEOREM GrowthIsSweptCorrect == Spec => GrowthIsSwept
<1> DEFINE Bounded ==
      Cardinality(Entries') > Cardinality(Entries) =>
        \/ Cardinality(Entries') <= SweepThreshold + 1
        \/ Cardinality(Entries') <= Cardinality(Used) + 1
<1>1. Init => IsFiniteSet(Entries)
  <2>1. Init => Entries = {}
    BY DEF Init, Entries
  <2> QED
    BY <2>1, FS_EmptySet
<1>2. LockInv /\ IsFiniteSet(Entries) /\ [Next]_vars => IsFiniteSet(Entries)' /\ [Bounded]_vars
  <2> SUFFICES ASSUME LockInv, IsFiniteSet(Entries), [Next]_vars
               PROVE  IsFiniteSet(Entries)' /\ [Bounded]_vars
    OBVIOUS
  <2>1. ASSUME NEW c \in Calls, Acquire(c) PROVE IsFiniteSet(Entries)' /\ Bounded
    BY <2>1, AcquireGrows
  <2>2. ASSUME UNCHANGED table PROVE IsFiniteSet(Entries)' /\ Bounded
    <3>1. Entries' = Entries
      BY <2>2 DEF Entries
    <3>2. Cardinality(Entries) \in Nat
      BY FS_CardinalityType
    <3> QED
      BY <3>1, <3>2
  <2>3. UNCHANGED table \/ \E c \in Calls : Acquire(c)
    BY DEF Next, Begin, Lock, Finish, Unlock, DropHandle, Done, vars
  <2> QED
    BY <2>1, <2>2, <2>3
<1>3. Spec => [][Bounded]_vars
  BY <1>1, <1>2, LockInvCorrect, PTL DEF Spec
<1> QED
  BY <1>3, PTL DEF GrowthIsSwept, Used

------------------------------------------------------------------------------
\* The refinement mapping of ImplementsMutex.
heldBy == [k \in Keys |-> {c \in Calls : Holds(c, k)}]

\* Whoever is inside a key has the guard of the lock the table has for it.
LEMMA HoldersOwn ==
  ASSUME LockInv, NEW c \in Calls, NEW k \in Keys, NEW l \in Locks, table[k] = l
  PROVE  Holds(c, k) <=> handle[c][k] = l /\ owner[l] = c
  BY FileLocksAssumption DEF LockInv, ClonesAreCurrent, Holds

\* Finding or inserting an entry, with the sweep ahead of it, puts no call
\* inside a key and takes none out: a lock that c had no clone of for k is not
\* one that c owns.
LEMMA AcquireStutters ==
  ASSUME LockInv, NEW c \in Calls, Acquire(c)
  PROVE  heldBy' = heldBy
<1> USE DEF LockInv
<1>1. PICK k \in Keys, l \in Locks :
        /\ IF Sweep[k] = None
           THEN Fresh(l)
           ELSE l = Sweep[k]
        /\ handle' = [handle EXCEPT ![c][k] = l]
        /\ owner' = owner
  BY DEF Acquire
<1>2. CASE handle[c][k] = l
  <2>1. handle' = handle
    BY <1>1, <1>2 DEF TypeOK
  <2> QED
    BY <2>1, <1>1 DEF heldBy, Holds
<1>3. CASE handle[c][k] # l
  <2>1. handle[c][k] = None
    <3>1. SUFFICES ASSUME handle[c][k] # None PROVE FALSE
      OBVIOUS
    <3>2. Sweep[k] = handle[c][k]
      BY <3>1, SweepKeepsClones
    <3> QED
      BY <3>1, <3>2, <1>1, <1>3
  <2>2. owner[l] # c
    <3>1. SUFFICES ASSUME owner[l] = c PROVE FALSE
      OBVIOUS
    <3>2. PICK j \in Keys : handle[c][j] = l
      BY <3>1 DEF GuardsAreCloned
    <3>3. l = Sweep[k] /\ Sweep[k] # None
      BY <3>2, <1>1 DEF InUse, Fresh
    <3>4. table[j] = l /\ table[k] = l
      BY <3>2, <3>3, SweepShrinks, FileLocksAssumption DEF ClonesAreCurrent
    <3>5. j = k
      BY <3>4, FileLocksAssumption DEF KeysHaveOwnLocks
    <3> QED
      BY <3>2, <3>5, <1>3
  <2>3. \A d \in Calls, j \in Keys : Holds(d, j)' <=> Holds(d, j)
    <3> SUFFICES ASSUME NEW d \in Calls, NEW j \in Keys
                 PROVE  Holds(d, j)' <=> Holds(d, j)
      OBVIOUS
    <3>1. CASE d = c /\ j = k
      BY <3>1, <2>1, <2>2, <1>1 DEF Holds, TypeOK
    <3>2. CASE ~(d = c /\ j = k)
      BY <3>2, <1>1 DEF Holds, TypeOK
    <3> QED
      BY <3>1, <3>2
  <2> QED
    BY <2>3 DEF heldBy
<1> QED
  BY <1>2, <1>3

\* Taking a guard takes the key it was cloned for, and no other.
LEMMA LockTakesKey ==
  ASSUME LockInv, LockInv', NEW c \in Calls, Lock(c)
  PROVE  \E k \in Keys : heldBy[k] = {} /\ heldBy' = [heldBy EXCEPT ![k] = {c}]
<1>1. PICK k \in Keys, l \in Locks :
        handle[c][k] = l /\ owner[l] = None /\ owner' = [owner EXCEPT ![l] = c]
  BY DEF Lock
<1>2. table' = table /\ handle' = handle
  BY DEF Lock
<1>3. table[k] = l
  BY <1>1, FileLocksAssumption DEF LockInv, ClonesAreCurrent
<1>4. heldBy[k] = {}
  BY <1>1, <1>3, HoldersOwn, FileLocksAssumption DEF heldBy
<1>5. {d \in Calls : Holds(d, k)}' = {c}
  <2>1. owner'[l] = c
    BY <1>1 DEF LockInv, TypeOK
  <2>2. \A d \in Calls : Holds(d, k)' => d = c
    BY <2>1, <1>2, <1>3 DEF LockInv, ClonesAreCurrent, Holds
  <2>3. Holds(c, k)'
    BY <2>1, <1>1, <1>2, FileLocksAssumption DEF Holds
  <2> QED
    BY <2>2, <2>3
<1>6. \A j \in Keys, d \in Calls : j # k => (Holds(d, j)' <=> Holds(d, j))
  <2>1. \A j \in Keys, d \in Calls : j # k => handle[d][j] # l
    BY <1>3, FileLocksAssumption DEF LockInv, ClonesAreCurrent, KeysHaveOwnLocks
  <2> QED
    BY <2>1, <1>1, <1>2 DEF Holds, LockInv, TypeOK
<1>7. \A j \in Keys : heldBy'[j] = IF j = k THEN {c} ELSE heldBy[j]
  BY <1>5, <1>6 DEF heldBy
<1>8. heldBy' = [heldBy EXCEPT ![k] = {c}]
  BY <1>7 DEF heldBy
<1> QED
  BY <1>4, <1>8

\* Dropping a guard frees the key it was cloned for, and no other.
LEMMA UnlockFreesKey ==
  ASSUME LockInv, NEW c \in Calls, Unlock(c)
  PROVE  \E k \in Keys : heldBy[k] = {c} /\ heldBy' = [heldBy EXCEPT ![k] = {}]
<1>1. PICK k \in Keys, l \in Locks :
        handle[c][k] = l /\ owner[l] = c /\ owner' = [owner EXCEPT ![l] = None]
  BY DEF Unlock
<1>2. table' = table /\ handle' = handle
  BY DEF Unlock
<1>3. table[k] = l
  BY <1>1, FileLocksAssumption DEF LockInv, ClonesAreCurrent
<1>4. heldBy[k] = {c}
  BY <1>1, <1>3, HoldersOwn DEF heldBy
<1>5. owner'[l] = None
  BY <1>1 DEF LockInv, TypeOK
<1>6. \A d \in Calls : ~Holds(d, k)'
  BY <1>5, <1>2, <1>3, FileLocksAssumption DEF LockInv, ClonesAreCurrent, Holds
<1>7. \A j \in Keys, d \in Calls : j # k => (Holds(d, j)' <=> Holds(d, j))
  <2>1. \A j \in Keys, d \in Calls : j # k => handle[d][j] # l
    BY <1>3, FileLocksAssumption DEF LockInv, ClonesAreCurrent, KeysHaveOwnLocks
  <2> QED
    BY <2>1, <1>1, <1>2 DEF Holds, LockInv, TypeOK
<1>8. \A j \in Keys : heldBy'[j] = IF j = k THEN {} ELSE heldBy[j]
  BY <1>6, <1>7 DEF heldBy
<1>9. heldBy' = [heldBy EXCEPT ![k] = {}]
  BY <1>8 DEF heldBy
<1> QED
  BY <1>4, <1>9

\* The lock table with its reference counts and sweep implements one mutex
\* per key.
THEOREM ImplementsMutexCorrect == Spec => ImplementsMutex
<1>1. Init => Mutex!MutexInit
  BY DEF Init, Mutex!MutexInit, Holds
<1>2. LockInv /\ LockInv' /\ [Next]_vars => [Mutex!MutexNext]_heldBy
  <2> SUFFICES ASSUME LockInv, LockInv', [Next]_vars
               PROVE  [Mutex!MutexNext]_heldBy
    OBVIOUS
  <2>1. ASSUME NEW c \in Calls, Acquire(c) PROVE heldBy' = heldBy
    BY <2>1, AcquireStutters
  <2>2. ASSUME NEW c \in Calls, Lock(c) PROVE Mutex!MutexNext
    BY <2>2, LockTakesKey DEF Mutex!MutexNext, Mutex!Lock, heldBy
  <2>3. ASSUME NEW c \in Calls, Unlock(c) PROVE Mutex!MutexNext
    BY <2>3, UnlockFreesKey DEF Mutex!MutexNext, Mutex!Unlock, heldBy
  <2>4. ASSUME NEW c \in Calls, DropHandle(c) PROVE heldBy' = heldBy
    BY <2>4 DEF DropHandle, heldBy, Holds, LockInv, TypeOK
  <2>5. ASSUME NEW c \in Calls,
               \/ \E K \in (SUBSET Keys) \ {{}} : Begin(c, K)
               \/ Finish(c) \/ Done(c)
        PROVE  heldBy' = heldBy
    BY <2>5 DEF Begin, Finish, Done, heldBy, Holds
  <2>6. CASE UNCHANGED vars
    BY <2>6 DEF vars, heldBy, Holds
  <2> QED
    BY <2>1, <2>2, <2>3, <2>4, <2>5, <2>6 DEF Next
<1> QED
  BY <1>1, <1>2, LockInvCorrect, PTL
  DEF Spec, ImplementsMutex, Mutex!MutexSpec, heldBy
==============================================================================
