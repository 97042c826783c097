------------------------------ MODULE FileMutex ------------------------------
(***************************************************************************)
(* What the per-file locks of text_editing.rs promise, without the table   *)
(* that holds them: for every lock key at most one call is inside, and a   *)
(* call enters only a key that is free.  FileLocks implements this         *)
(* specification; FileEdits is written on top of it.                       *)
(***************************************************************************)
CONSTANTS Calls,   \* requests that write files
          Keys     \* lock keys: one per canonical file

VARIABLE holder    \* holder[k]: the calls inside key k

MutexInit == holder = [k \in Keys |-> {}]

Lock(c, k) == /\ holder[k] = {}
              /\ holder' = [holder EXCEPT ![k] = {c}]

Unlock(c, k) == /\ holder[k] = {c}
                /\ holder' = [holder EXCEPT ![k] = {}]

MutexNext == \E c \in Calls, k \in Keys : Lock(c, k) \/ Unlock(c, k)

MutexSpec == MutexInit /\ [][MutexNext]_holder
==============================================================================
