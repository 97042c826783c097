------------------------------ MODULE FileEdits ------------------------------
(***************************************************************************)
(* The tools that write files, as concurrent calls: str_replace and        *)
(* batch_edit (both "edit": they differ in how the new content is computed,*)
(* not in what they do to shared state), extract_lines, delete, undo_edit, *)
(* create, the multi-file "transaction" of multi_edit.rs, and the          *)
(* whole-file view, which shares their delta cache.                        *)
(*                                                                         *)
(* Each step is the code between two points where another call can run.    *)
(* Files are named by the paths callers pass; a path may be a symbolic     *)
(* link.  Content is the set of calls whose text a file holds, so a lost   *)
(* update shows as a missing member.  The lock is FileMutex, which         *)
(* FileLocks implements; the caps on the undo history are in UndoHistory,  *)
(* and what all this adds up to for the files is in AtomicEdits.           *)
(***************************************************************************)
EXTENDS Integers, Sequences, SequencesExt, FiniteSets

CONSTANTS Calls,     \* tool calls of one client session; each runs once
          Names,     \* paths, ordered as their lock keys are
          LinkOf,    \* LinkOf[n]: the file path n initially leads to (n: no link)
          Present,   \* files that exist at the start
          Ops,       \* the tools the calls may be
          FaultyOps, \* the tools whose writes may fail (full disk, permissions)
          Absent, None

ASSUME FileEditsAssumption ==
  /\ Names \subseteq Int /\ IsFiniteSet(Names)
  /\ LinkOf \in [Names -> Names]
  /\ \A n \in Names : LinkOf[LinkOf[n]] = LinkOf[n]
  /\ Present \subseteq {n \in Names : LinkOf[n] = n}
  /\ Ops \subseteq {"edit", "extract", "delete", "undo", "transaction", "view", "create"}
  /\ None \notin Calls \cup {Absent} /\ \A S \in SUBSET Calls : None # S

VARIABLES file,     \* file[n]: content of the regular file n, or Absent
          link,     \* link[n]: where path n leads
          opened,   \* opened[n]: creators writing into n's present inode
          history,  \* FILE_HISTORY: snapshots per lock key, oldest first
          cache,    \* the session's ViewCache: content per lock key, or None
          holder,   \* the file locks: who is inside
          pc, tool, names, key, target, todo, before, reply,
          known,    \* history: contents the session was shown or wrote in full
          past      \* history: contents n had before each write not undone

world == <<file, link, opened>>
local == <<tool, names, key>>
vars == <<file, link, opened, history, cache, holder, pc, tool, names, key,
          target, todo, before, reply, known, past>>

Mutex == INSTANCE FileMutex WITH Keys <- Names

Init ==
  /\ file = [n \in Names |-> IF n \in Present THEN {} ELSE Absent]
  /\ link = LinkOf
  /\ opened = [n \in Names |-> {}]
  /\ history = [n \in Names |-> <<>>]
  /\ cache = [n \in Names |-> None]
  /\ Mutex!MutexInit
  /\ pc = [c \in Calls |-> "start"]
  /\ tool = [c \in Calls |-> None]
  /\ names = [c \in Calls |-> {}]
  /\ key = [c \in Calls |-> LinkOf]
  /\ target = [c \in Calls |-> LinkOf]
  /\ todo = [c \in Calls |-> {}]
  /\ before = [c \in Calls |-> [n \in Names |-> Absent]]
  /\ reply = [c \in Calls |-> "none"]
  /\ known = [n \in Names |-> {}]
  /\ past = [n \in Names |-> <<>>]

------------------------------------------------------------------------------
\* Helpers.

Exists(n) == file[link[n]] # Absent

\* lock_key_for: the canonical path; a path that leads nowhere is its own key.
LockKey(n) == IF Exists(n) THEN link[n] ELSE n

Least(S) == CHOOSE n \in S : \A m \in S : n <= m
Greatest(S) == CHOOSE n \in S : \A m \in S : m <= n

\* What a reader of path n gets; extract_lines reads a missing target as empty.
Text(n) == IF Exists(n) THEN file[link[n]] ELSE {}

\* The one file of a single-file tool.
Name(c) == CHOOSE n \in names[c] : TRUE

Goto(c, where) == pc' = [pc EXCEPT ![c] = where]

\* The call returns: its guards are dropped and the client gets the reply.
Return(c, result) ==
  /\ Goto(c, "end")
  /\ reply' = [reply EXCEPT ![c] = result]
  /\ holder' = [k \in Names |-> holder[k] \ {c}]

\* io_exists, then read, then HistoryStore::push: no snapshot of a missing file.
Snapshot(hist, n) ==
  IF Exists(n) THEN [hist EXCEPT ![LockKey(n)] = Append(@, file[LockKey(n)])] ELSE hist

\* atomic_write on path n: a new inode replaces whatever n was, a link included.
Replace(n, content) ==
  /\ file' = [file EXCEPT ![n] = content]
  /\ link' = [link EXCEPT ![n] = n]
  /\ opened' = [opened EXCEPT ![n] = {}]

\* Seeded fault: the entry is advanced whether or not the model's picture
\* was current before the write.
NotedAlways(entry, old, new) == new

\* delta::note_write for one file.
Noted(entry, old, new) == IF entry = old THEN new ELSE None

\* Seeded fault: str_replace commits without a snapshot.
NeedsNoSnapshot(kind) == kind = "delete"

TakesSnapshot(kind) == kind \in {"edit", "extract", "delete"}

\* Where a call goes when it has its locks.
FirstStep(kind) ==
  CASE kind \in {"edit", "extract", "transaction"} -> "load"
    [] kind = "delete" -> "save"
    [] kind = "undo" -> "pop"

------------------------------------------------------------------------------
\* A call of a tool that locks: the checks before the lock, and the lock keys.
\* A transaction keeps one path per key.  extract_lines has read its source
\* by now, without a lock.
StartLocked(c, kind, S) ==
  /\ pc[c] = "start"
  /\ kind \in Ops \ {"view", "create"}
  /\ S # {}
  /\ kind # "transaction" => Cardinality(S) = 1
  /\ \A n, m \in S : LockKey(n) = LockKey(m) => n = m
  /\ tool' = [tool EXCEPT ![c] = kind]
  /\ names' = [names EXCEPT ![c] = S]
  /\ key' = [key EXCEPT ![c] = link]
  /\ IF kind \in {"edit", "delete"} /\ \E n \in S : ~Exists(n)
     THEN Return(c, "error") /\ UNCHANGED todo
     ELSE /\ todo' = [todo EXCEPT ![c] = {LockKey(n) : n \in S}]
          /\ Goto(c, "lock")
          /\ UNCHANGED <<reply, holder>>
  /\ UNCHANGED <<world, history, cache, target, before, known, past>>

\* acquire_file_lock(..).await and lock().await, in key order.
TakeLock(c) ==
  /\ pc[c] = "lock"
  /\ LET k == Least(todo[c]) IN
       /\ Mutex!Lock(c, k)
       /\ IF todo[c] = {k}
          THEN /\ Goto(c, FirstStep(tool[c]))
               /\ todo' = [todo EXCEPT ![c] = names[c]]
          ELSE /\ todo' = [todo EXCEPT ![c] = @ \ {k}]
               /\ UNCHANGED pc
  /\ UNCHANGED <<world, history, cache, local, target, before, reply, known, past>>

\* Read the next file under the lock.  A missing file is an error, except that
\* extract_lines starts a new one; so is an edit that does not match (old_text
\* not found, a stale line id, a conflict, a result that is too large).
Load(c) ==
  /\ pc[c] = "load"
  /\ LET n == Least(todo[c])
     IN  \/ /\ Exists(n) \/ tool[c] = "extract"
            /\ before' = [before EXCEPT ![c][n] = Text(n)]
            /\ target' = [target EXCEPT ![c][n] =
                            IF tool[c] = "transaction" THEN LockKey(n) ELSE n]
            /\ IF todo[c] = {n}
               THEN /\ Goto(c, IF tool[c] = "transaction" THEN "commit" ELSE "save")
                    /\ todo' = [todo EXCEPT ![c] = names[c]]
               ELSE /\ todo' = [todo EXCEPT ![c] = @ \ {n}]
                    /\ UNCHANGED pc
            /\ UNCHANGED <<reply, holder>>
         \/ Return(c, "error") /\ UNCHANGED <<before, target, todo>>
  /\ UNCHANGED <<world, history, cache, local, known, past>>

\* save_file_history, ahead of the write.
SaveHistory(c) ==
  /\ pc[c] = "save"
  /\ history' = IF TakesSnapshot(tool[c]) THEN Snapshot(history, Name(c)) ELSE history
  /\ Goto(c, "write")
  /\ UNCHANGED <<world, cache, holder, local, target, todo, before, reply, known, past>>

\* undo_edit takes the newest snapshot off the stack, ahead of the write.
PopHistory(c) ==
  /\ pc[c] = "pop"
  /\ LET n == Name(c)
         stack == history[LockKey(n)]
     IN  IF stack = <<>>
         THEN Return(c, "error") /\ UNCHANGED <<history, before>>
         ELSE /\ history' = [history EXCEPT ![LockKey(n)] = Front(@)]
              /\ before' = [before EXCEPT ![c][n] = Last(stack)]
              /\ Goto(c, "write")
              /\ UNCHANGED <<reply, holder>>
  /\ UNCHANGED <<world, cache, local, target, todo, known, past>>

\* What the write of a single-file tool leaves at the caller's path.
Result(c) ==
  CASE tool[c] = "undo" -> before[c][Name(c)]
    [] tool[c] = "delete" -> Absent
    [] OTHER -> before[c][Name(c)] \cup {c}

\* The write of a single-file tool: atomic_write or remove_file on the path as
\* the caller gave it, or its failure.
Write(c) ==
  /\ pc[c] = "write"
  /\ LET n == Name(c)
         gone == link[n] = n /\ file[n] = Absent
     IN  \/ /\ ~(tool[c] = "delete" /\ gone)
            /\ Replace(n, Result(c))
            /\ past' = [past EXCEPT ![n] =
                          IF tool[c] # "undo" THEN Append(@, file[link[n]])
                          ELSE IF @ = <<>> THEN @ ELSE Front(@)]
            /\ Goto(c, "note")
            /\ UNCHANGED <<reply, holder>>
         \/ /\ tool[c] \in FaultyOps \/ (tool[c] = "delete" /\ gone)
            /\ Return(c, "error")
            /\ UNCHANGED <<world, past>>
  /\ UNCHANGED <<history, cache, local, target, todo, before, known>>

\* What the session knows of n after it was told of the step old -> new.
Learned(n, old, new) == IF old \in known[n] THEN known[n] \cup {new} ELSE known[n]

\* The delta cache hears of the write (note_write, note_create, forget); then
\* the call returns.
Note(c) ==
  /\ pc[c] = "note"
  /\ LET n == Name(c)
         k == LockKey(n)
         old == before[c][n]
     IN  CASE tool[c] \in {"undo", "delete"} ->
                /\ cache' = [cache EXCEPT ![k] = None]
                /\ UNCHANGED known
           [] tool[c] = "create" ->
                /\ cache' = [cache EXCEPT ![k] = {c}]
                /\ known' = [known EXCEPT ![k] = @ \cup {{c}}]
           [] OTHER ->
                /\ cache' = [cache EXCEPT ![k] = Noted(@, old, old \cup {c})]
                /\ known' = [known EXCEPT ![k] = Learned(k, old, old \cup {c})]
  /\ Return(c, "ok")
  /\ UNCHANGED <<world, history, local, target, todo, before, past>>

------------------------------------------------------------------------------
\* The transaction of multi_edit.rs; commit runs in a task of its own, which a
\* client that goes away does not stop.

\* Seeded fault: a failed commit leaves what it has written.
RestoreNothing(c, n) == {}

\* The files a commit that failed at n has to put back.
ToRestore(c, n) == {m \in names[c] : m < n}

\* One atomic_write of the commit, in key order, or its failure.
Commit(c) ==
  /\ pc[c] = "commit"
  /\ LET n == Least(todo[c]) IN
       \/ /\ Replace(target[c][n], before[c][n] \cup {c})
          /\ IF todo[c] = {n}
             THEN Goto(c, "record") /\ UNCHANGED todo
             ELSE todo' = [todo EXCEPT ![c] = @ \ {n}] /\ UNCHANGED pc
       \/ /\ "transaction" \in FaultyOps
          /\ todo' = [todo EXCEPT ![c] = ToRestore(c, n)]
          /\ Goto(c, "restore")
          /\ UNCHANGED world
  /\ UNCHANGED <<history, cache, holder, local, target, before, reply, known, past>>

\* Put the old contents back, newest write first, and report the failure.
\* (A rollback that fails too is reported as such; it is not modelled.)
Restore(c) ==
  /\ pc[c] = "restore"
  /\ IF todo[c] = {}
     THEN Return(c, "error") /\ UNCHANGED <<world, todo>>
     ELSE LET n == Greatest(todo[c]) IN
            /\ Replace(target[c][n], before[c][n])
            /\ todo' = [todo EXCEPT ![c] = @ \ {n}]
            /\ UNCHANGED <<pc, reply, holder>>
  /\ UNCHANGED <<history, cache, local, target, before, known, past>>

\* f with the value new[n] at the place at[n] of each file n of the call.
Patch(f, c, at, new) ==
  [k \in Names |-> LET S == {n \in names[c] : at[n] = k}
                   IN  IF S = {} THEN f[k] ELSE new[Least(S)]]

\* Everything is written: publish the snapshots, tell the cache, return.
Record(c) ==
  /\ pc[c] = "record"
  /\ LET old == before[c]
         at == key[c]
         to == target[c]
     IN  /\ history' = Patch(history, c, at, [n \in names[c] |-> Append(history[at[n]], old[n])])
         /\ past' = Patch(past, c, to, [n \in names[c] |-> Append(past[to[n]], old[n])])
         /\ cache' = Patch(cache, c, to,
                           [n \in names[c] |-> Noted(cache[to[n]], old[n], old[n] \cup {c})])
         /\ known' = Patch(known, c, to,
                           [n \in names[c] |-> Learned(to[n], old[n], old[n] \cup {c})])
  /\ Return(c, "ok")
  /\ UNCHANGED <<world, local, target, todo, before>>

------------------------------------------------------------------------------
\* A whole-file view reads without a lock and then goes through the cache.
StartView(c, n) ==
  /\ pc[c] = "start"
  /\ "view" \in Ops
  /\ tool' = [tool EXCEPT ![c] = "view"]
  /\ names' = [names EXCEPT ![c] = {n}]
  /\ IF Exists(n)
     THEN /\ before' = [before EXCEPT ![c][n] = Text(n)]
          /\ Goto(c, "render")
          /\ UNCHANGED <<reply, holder>>
     ELSE Return(c, "error") /\ UNCHANGED before
  /\ UNCHANGED <<world, history, cache, key, target, todo, known, past>>

\* render_whole_file: the reply shows the content, in full or as what changed
\* since the entry it replaces.
Render(c) ==
  /\ pc[c] = "render"
  /\ LET k == LockKey(Name(c))
         shown == before[c][Name(c)]
     IN  /\ cache' = [cache EXCEPT ![k] = shown]
         /\ known' = [known EXCEPT ![k] = @ \cup {shown}]
  /\ Return(c, "ok")
  /\ UNCHANGED <<world, history, local, target, todo, before, past>>

\* create_file_spec: the existence check.
StartCreate(c, n) ==
  /\ pc[c] = "start"
  /\ "create" \in Ops
  /\ tool' = [tool EXCEPT ![c] = "create"]
  /\ names' = [names EXCEPT ![c] = {n}]
  /\ IF Exists(n)
     THEN Return(c, "error")
     ELSE Goto(c, "open") /\ UNCHANGED <<reply, holder>>
  /\ UNCHANGED <<world, history, cache, key, target, todo, before, known, past>>

\* io_write opens what the path leads to, created or truncated ...
Open(c) ==
  /\ pc[c] = "open"
  /\ LET k == link[Name(c)] IN
       /\ file' = [file EXCEPT ![k] = {}]
       /\ opened' = [opened EXCEPT ![k] = @ \cup {c}]
  /\ Goto(c, "fill")
  /\ UNCHANGED <<link, history, cache, holder, local, target, todo, before, reply, known, past>>

\* ... and writes from offset 0: a longer text another creator has put there
\* keeps its tail.
Fill(c) ==
  /\ pc[c] = "fill"
  /\ \E rest \in SUBSET Calls :
       file' = [k \in Names |->
                  IF c \in opened[k] THEN {c} \cup (file[k] \cap rest) ELSE file[k]]
  /\ opened' = [k \in Names |-> opened[k] \ {c}]
  /\ Goto(c, "note")
  /\ UNCHANGED <<link, history, cache, holder, local, target, todo, before, reply, known, past>>

------------------------------------------------------------------------------
Terminated == (\A c \in Calls : pc[c] = "end") /\ UNCHANGED vars

Next ==
  \/ \E c \in Calls :
       \/ \E kind \in Ops, S \in SUBSET Names : StartLocked(c, kind, S)
       \/ TakeLock(c) \/ Load(c) \/ SaveHistory(c) \/ PopHistory(c)
       \/ Write(c) \/ Note(c)
       \/ Commit(c) \/ Restore(c) \/ Record(c)
       \/ \E n \in Names : StartView(c, n) \/ StartCreate(c, n)
       \/ Render(c) \/ Open(c) \/ Fill(c)
  \/ Terminated

Spec == Init /\ [][Next]_vars

------------------------------------------------------------------------------
\* The delta cache never claims that the session has seen a content it was
\* not shown and did not write, whatever views and edits interleave: an entry
\* is served as "unchanged since you last viewed or edited it".
CacheIsKnown == \A n \in Names : cache[n] # None => cache[n] \in known[n]

\* "Two requests targeting the same file would not serialize and could corrupt
\* it" otherwise (lock_key_for): no two calls are past the lock of one file.
WritersSerialize ==
  \A c, d \in Calls :
    /\ pc[c] \in {"save", "write"}
    /\ pc[d] \in {"save", "write"}
    /\ LockKey(Name(c)) = LockKey(Name(d))
    => c = d
==============================================================================
