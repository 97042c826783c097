# A TLA+ model of octofs

octofs is an MCP server that gives a language model file and shell tools over
stdio or HTTP. This directory holds TLA+ modules for the parts of it that are
hard to test: calls that run concurrently on shared registries, sessions that
come and go under their requests, the handoff of a running command to the
background and the delivery of its completion, connections to remote hosts, and
the algorithms on text that decide what an edit changes and what a digest
leaves out. TLC checks the modules on small instances; for the lock table, the
local and remote file tools, the undo store, sessions, the shell, completion
delivery, the connection pool and the search for a diff, TLAPS proves the
safety properties and the refinements for every instance.

Paths below are relative to the repository's `src/mcp/` unless they start with
`src/`, `doc/` or `README.md`.

## 1. The system

### Components, their state and their operations

| Component | State | Operations | What makes it correct |
|---|---|---|---|
| File lock table, `fs/text_editing.rs` | `FILE_LOCKS`: lock key → `Arc<AsyncMutex>` | `acquire_file_lock` (sweep, find or insert, clone), lock, drop | one mutex per file at any time, whatever the sweep removes; no circular wait; idle entries do not pile up |
| Undo history, `fs/core.rs` | `FILE_HISTORY`: stacks per key, eviction queue `order`, `total_bytes` | `push`, `pop` | exact byte count, budget kept, undo never skips an edit, the newest edit can be undone |
| Writing tools, `fs/text_editing.rs`, `fs/core.rs`, `fs/multi_edit.rs`, `fs/file_ops.rs` | the files; all registries of this table | `str_replace`, `batch_edit`, `extract_lines`, `delete`, `undo_edit`, `create`, the transaction `edits` | each call is indivisible on all its files, or has no effect and says so; undo restores what the last edit replaced |
| Delta view cache, `fs/delta.rs`, `request_ctx.rs` | per session: key → last content the model saw whole | `render_whole_file`, `note_write`, `note_create`, `forget` | an entry is something the session was shown or wrote; deltas reproduce the new file |
| Sessions and workdir, `server.rs`, `fs/workdir.rs` | session id → workdir, cache, epoch, last use | `Sessions::get`, `workdir` get/set/reset | a session sees its own workdir; a new epoch starts from an empty cache; at most 64 sessions |
| Shell, `fs/shell.rs` | `SHELL_CHILDREN` | `execute_with_timeout`, `kill_all_shell_children` | every call is answered within the window; one process per command |
| Background jobs, `fs/background.rs` | `JOBS`, capture files | `prepare`, `promote`, the wait task, `cancel`, `read`, `discard`, `cleanup` | no output is lost in the handoff; a finished job is readable before it is announced; announced once |
| Completion delivery, `server.rs` | `SubscriptionRegistry` per HTTP session, `task_hints` | `listen`, `notify_subscriptions`, the fallback push, `tasks/get`, `tasks/cancel` | no exit is missed by an open stream; a dead stream suppresses nothing |
| Shutdown, `src/main.rs` | – | end of input or SIGTERM, kill, clean up | no tracked process group survives |
| `batch_edit` and `str_replace` text algorithms, `fs/text_editing.rs` | none | `detect_conflicts`, `apply_batch_operations`, matching, `EditableContent`, `shift_note` | the result is what the operations, read against the original, say; the answer numbers lines as they are |
| Line ids, `src/utils/line_hash.rs` | none | `verify_line_id`, `resolve_line_index`, `parse_endpoint` | an accepted id names the line it was issued for, up to hash collisions |
| Remote files, `fs/remote.rs` | pool of SFTP sessions | `get_or_connect`, `io_*`, URL resolution, lock keys | one set-up at a time; a dead connection is replaced; every call ends; writers of one file serialize however it is spelled |
| Output digests, `fs/digest/` | none | `digest`, one parser per tool, `valid_selection` | nothing but progress is left out; an output that was cut off is never digested |
| Misuse gate, noise filter, `fs/shell.rs` | none | text to text | – |
| Directory listing, search, images, formatting, CLI, HTTP access control | none | read only, or start-up | – |

### How they interact

A tool method of `server.rs` resolves the session (`Sessions::get`), builds the
call and runs it with the session's delta cache as ambient context. A writing
tool takes the file's lock, reads, pushes a snapshot to the undo history,
writes through a temporary file and a rename, and tells the delta cache. A
transaction takes several locks in key order, commits in a task of its own
that cancellation does not stop, and publishes its snapshots at the end. A
view takes no lock. A shell call captures output in files; at the deadline it
moves the child to a wait task that keeps the result, records the exit and
calls a callback given by `server.rs`, which notifies the session's
subscription streams or falls back to a push. The registries are global to the
process (`FILE_LOCKS`, `FILE_HISTORY`, `JOBS`, `SHELL_CHILDREN`, the SFTP
pool), except the
sessions and the subscriptions, which belong to one `OctofsServer`, that is, to
one HTTP session. A path that is an `ssh://` URL sends every file operation of
a tool through the pool; locks and undo work as for local files, under a key
made of the URL. The output of a command passes the digests on its way to the
reply.

### What is hard

Calls interleave at every `await`; the lock table drops entries while calls
hold clones of them; a lock key is a canonical path that an edit can change;
the eviction queue of the undo history and its stacks go out of step; a commit
fails half way; the deadline of a command races its end; a client cancels,
subscribes, or goes away between any two steps; a session is dropped or
compacted while its requests run; peers never answer and transports close;
shutdown runs while calls go on; edits apply offsets to text they have already
moved; programs print lines that look like those of the tool that runs them.
`PROJECT.json` lists these hazards at their lines, with the property that
covers each or the reason why none does.

## 2. The modules

| Module | Models | Abstracts |
|---|---|---|
| `FileMutex` | the promise of the lock table: one mutex per key | everything else |
| `FileLocks` | `acquire_file_lock`, the guards and clones, the ordered acquisition of `multi_edit.rs` | what calls do under the lock |
| `FileLocks_proofs` | theorems about `FileLocks` | |
| `UndoHistory` | `HistoryStore::push` and `pop`, statement by statement | content: a size and the number of the edit |
| `AtomicFiles` | the promise of the writing tools: indivisible edits, deletes and undos | locks, steps, failures |
| `FileEdits` | every writing tool and the whole-file view, one action per stretch of code between two points where another call can run | content: the set of calls whose text is in it; the lock: `FileMutex` |
| `AtomicEdits` | how the steps of `FileEdits` implement `AtomicFiles` | |
| `Edits_proofs` | theorems about `FileEdits`, `AtomicEdits` and `UndoHistory` | |
| `CommandLife` | the promise of the shell tool about one command | files, jobs, processes |
| `ShellJobs` | `execute_with_timeout`, `prepare`, `promote` and its wait task, `cancel`, shutdown | output text; process ids |
| `ShellJobs_proofs` | theorems about `ShellJobs` | |
| `JobDelivery` | `listen`, the registry, the completion callback and its fallback | one job; `ShellJobs` shows that the callback runs once and after the exit is recorded |
| `JobDelivery_proofs` | theorems about `JobDelivery` | |
| `EditableContent` | `EditableContent` (lines and terminators) and `shift_note`, which all text edits share | |
| `BatchEdit` | `batch_edit_spec` as a function of the file and the operations: ids, conflicts, duplicates, application, terminators, shift note, fresh ids | texts: a few, with a hash that two share; the locked read and write, which `FileEdits` has step by step |
| `BatchEdit_proofs` | theorems about `BatchEdit` | |
| `StrReplace` | `str_replace_spec`: its stages of matching, `replace_normalized_range`, `replace_all`, the note on moved lines; the loop of `find_all_positions` turn by turn | characters: a text is a sequence of tokens; the search for similar text in a refusal |
| `LineDiff` | `diff_lines` with its search and its way back, `render_diff`: the entries shown and the shift note | characters: a line is a value, its id its number |
| `LineDiff_proofs` | theorems about `LineDiff` | |
| `Sessions` | `Sessions::get`, `SessionWorkdir`, the workdir tool, and views and edits as far as they touch the session's cache of one file | other files; what a tool does besides |
| `Sessions_proofs` | theorems about `Sessions` | |
| `SftpPool` | `get_or_connect` and what it sets up: `connect_sftp`, `connect_transport`, `try_auth`, both timeouts; the requests of tool calls | SSH itself; which key a server accepts |
| `RemoteEdits` | what an `ssh://` URL means, its keys, and the file tools as sequences of SFTP operations | the pool: an operation succeeds or fails; the lock: `FileMutex` |
| `Remote_proofs` | theorems about `SftpPool` and `RemoteEdits` | |
| `DigestLines` | `valid_selection` and what the parsers see of a line | characters: a line is the patterns it matches, its numbers and name |
| `CargoDigest`, `DockerDigest` | `cargo.rs` and `docker.rs` of `fs/digest/`, as folds over the lines | wording |
| `BuildOutput` | the tools that print, the programs they run, the cut, and `digest_with` | two of the 15 parsers |
| `MC…` | instances for TLC | |

`FileEdits` uses `FileMutex` for its locks (`INSTANCE`), and `FileLocks`
implements `FileMutex`. `FileEdits` implements `AtomicFiles` by the mapping in
`AtomicEdits`, `ShellJobs` implements `CommandLife`. All three refinements are
checked and proved. `JobDelivery` takes over where `ShellJobs` ends, at
`on_complete`. `RemoteEdits` uses `FileMutex` too, and of `SftpPool` only that
an operation may fail at any moment. `BatchEdit` and `StrReplace` are the edit
that `FileEdits` and `RemoteEdits` take as one step between reading a file and
writing it; the loop in `StrReplace` is there because that step need not end.

`MCEdits` (the tools that lock, and the undo store), `MCRemote` (the pool, and
the remote file tools) and `MCText` (the view cache under every local tool, and
the algorithms on text) put models side by side in one run: models that share
no state, of which a variable `part`, chosen at the start, says which moves
while the others stay at an initial state. Every behaviour of such a run is a
behaviour of one part. `MCBatchFiles` and `MCBuildLogs` hold the files and logs
that runs use.

State and actions correspond to the code as follows (the full list, with
lines, is the `map` of `PROJECT.json`).

* `FileLocks`. `table` is `FILE_LOCKS`; `handle[c][k]` an `Arc` clone a call
  has, so that `InUse` is `strong_count > 1`; `owner` the guards. `Acquire` is
  the whole of `acquire_file_lock`, which never suspends. `Finish`, `Unlock`,
  `DropHandle` and `Done` are the end of the call: the guard is dropped before
  the clone. A call whose client goes away finishes from `"lock"`.
* `UndoHistory`. `Push` is `push`: `Add` up to `order.push_back`, `Evict` the
  loop, as a function of the number of its turns, each of which is
  `EvictOldest`. `Snapshots` is what is kept; `undoable` and `latest` are history variables.
* `FileEdits`. `StartLocked` is the code before the lock: existence check and
  lock key, so that a key is as old as in the code. `Load`, `SaveHistory`,
  `Write` and `Note` are the read, `save_file_history`, `atomic_write` or
  `remove_file`, and the delta cache's update. `PopHistory` is the first half
  of `undo_edit`. `Commit`, `Restore` and `Record` are `commit` of
  `multi_edit.rs`. `StartCreate`, `Open` and `Fill` are `create_file_spec` with
  the two system calls of its write. `link` is what `canonicalize` follows:
  `atomic_write` renames onto the path as given and replaces a link. `known`
  and `past` are history variables. Whether an edit is accepted (its text
  matches, its line ids are current) is a nondeterministic choice in `Load`.
* `ShellJobs`. `pc` walks a call from `prepare` to its reply and the wait task
  from there; `proc` and `tree` are the direct child and the rest of its
  process group; `files` the capture files; `children` is `SHELL_CHILDREN`.
  Commands end at any time (`Exit`, `HelpersEnd`), which also covers what
  SIGTERM does to them. `SeeRunning` and `SendStop` are the two halves of
  `cancel`. `Close`, `KillAll`, `Cleanup` and `ServerExit` are the end of
  `run_stdio_server`; calls go on running until `ServerExit`.
* `JobDelivery`. `Callback`, `Snapshot`, `Send` and `FallBack` are the closure
  of `run_shell` with `sinks_for` and `notify_subscriptions`; `Listen`,
  `Register`, `Check`, `Replay` and `Unregister` are `listen`; `Close` is the
  client.
* `Sessions`. `table` maps a session id to a state object, and `object` are
  the objects, named after the request that created them and whether it was for
  its check, for which a request looks its session up a second time: an object
  lives as long as the table or a request has it (`Shared`), as with `Arc`. `Arrive`
  stamps a request, `Enter` is `get` under the lock. `Read`, `Peek` and `Store`
  are the whole-file view, `Write` and `Note` an edit; one with a check enters
  `session()` again. `Compact` is the client starting a new epoch, `known` what
  the model's context holds since then. `astray` is a history variable: whether
  a view of the session was under way at a compaction, or cached what it did not
  show, with no compaction between views since.
* `StrReplace`. `Receive` is the request, `Search` a turn of the loop that
  lists the occurrences, `Finish` the rest of the handler. `Match` returns the
  first stage that applies; `Rewritten` and `Moved` are the reference, made
  from the text without lines or offsets.
* `LineDiff`. `Tell` is one comparison, of a view with the last one or of an
  edited file with what it was. `Trace` holds the array `v` ahead of each round
  of the search, `BackOneRound` is a turn of `backtrack`; `InHunks` are the
  places of the script within `CONTEXT` of a change, and the hunks the runs of
  them. `Left` and `Right` are what a reader makes of the entries, `Common` is
  the textbook recursion for a longest common subsequence.
* `SftpPool`. `holder` is the pool's lock, `pool` its map, `target` and `jump`
  the two transports of a connection, which is named after the call and the
  operation it was set up for. `Hit`, `Miss` and `Handshake` are the branches
  of `get_or_connect`, the actions between them the set-up in its order.
  `Timeout` covers the two timeouts at the points they enclose; `Drop` is the
  client cancelling. `Leave` closes what a set-up had opened.
* `RemoteEdits`. `Parsed`, `Resolved`, `Place` and `LockKey` are the functions
  of `remote.rs` from a URL to a server's file and to a key. `step` walks a
  call, `lockHolder` is `FileMutex`'s; `Truncate` and `Send` are the two halves of `remote_write`; a `Send` may stop anywhere.
* `BuildOutput`. `Say` prints the next line of a run, `Intrude` a line of a
  test among those of its harness; `Digest` may happen at any time, which is
  the command having ended or been stopped there. A line carries what the
  property needs to know and the parser does not see: whether it matters
  (`own`) and whether it begins or ends something (`mark`).
* `BatchEdit`. `Ask` is the caller adding an operation made of ids from its
  view `seen`; `OtherWrite` changes the file under it; `Submit` is the handler
  under the lock. `Accepted` is everything that can refuse a batch,
  `ApplyBatchOperations` the two phases with `preserve_trailing_newline`,
  `ShiftNote` and `Echo` the numbers the answer gives. `UpTo` and what it uses
  are the reference: the file rebuilt line by line, without order or offsets.

Operators whose comment begins with "Seeded fault" are not part of any
specification: each is a mistake one could make in the definition that follows
it, and with it in that definition's place TLC must refute the property that
`PROJECT.json` pairs it with. This shows that the property depends on the code
it is about.

## 3. The runs

| Run | Question | Instance | Distinct states |
|---|---|---|---|
| `locks` | Is the swept table one mutex per file, and does every call get its locks? | 3 calls, 2 keys, 3 lock identities, threshold 0 | 40,729 |
| `edits` | Are edits, deletes, undos and transactions indivisible, and does undo restore the last edit? Do caps and stale queue entries ever cost the undo store its byte count, its budget or an edit in the middle? | 3 calls, 2 files, commits may fail, views in between; 2 files, sizes 0, 1, 2 and 4, cap 3 bytes, 2 snapshots per file, 5 edits | 69,005 |
| `edit_links` | Do writers of one file serialize when a path is a symbolic link? No. | 3 edits, a file and a link to it | – |
| `undo_kept` | Can the edit just made always be undone? No. | the undo store of `edits` | – |
| `shell` | Is every command run once, answered, kept, announced and killed as promised? | 2 calls, 2 commands (equal ones included), shutdown, cancel | 96,293 |
| `delivery` | Does every open stream hear of the exit, and is the fallback ever suppressed? | 3 streams, 2 sessions | 96,322 |
| `sessions` | Are sessions bounded and kept apart, and is a delta only ever against what the model has? | 3 requests of 6 kinds, 2 sessions of which 1 is tracked, 2 contents of which 1 is cached and too large to be shown, 1 compaction at any time, changes by other programs | 2,462,042 |
| `remote` | One set-up at a time, no dead connection served twice, every call over? Are writers of a remote file serialized, and is what they destroy saved? | 2 calls of 2 operations, 2 hosts, one behind a jump host and one refused; 3 writers, one file spelled two ways, failing operations | 444,364 |
| `remote_homes` | Does undo on a path below `~` restore that file? No. | 3 calls, 2 logins | – |
| `text` | Does the delta cache hold only what the session knows? Do `batch_edit` and `str_replace` give a file the text they describe, with its terminators, and report moved lines right? Is a diff the shortest, and can its reader tell the new text? Do digests leave out progress only, and refuse an output that was cut off? | 3 calls of every local tool, 2 paths, 1 file there; 4 files of up to 3 lines, up to 3 operations, 2 from an outdated view, 3 operation texts; 10 files of up to 4 lines, 13 old texts, 7 new ones; all pairs of texts of up to 4 lines and a text of 9 lines changed at up to two places, at most 5 changes; cargo and docker runs cut anywhere, 1 intruding line of 14 | 563,318 |
| `batch_ids` | Do the ids printed with added lines verify? No. | as `text` | – |
| `str_empty` | Is every `str_replace` answered? No. | an empty file and one of two lines, two old texts | – |

**Properties worth a word.** `ImplementsMutex`, `ImplementsAtomic` and
`ImplementsCommandLife` are refinements; they say what a reader of the three
abstract modules can rely on. `MutualExclusion` compares guards, not table
entries: a call waiting on a lock that the sweep has dropped would break it.
`UndoRevertsLastEdit` compares what undo writes with a history variable that
records what each write replaced. `CacheIsKnown` compares the cache with
everything the session was shown or wrote, and `DeltaIsSafe` the base of a
delta with what the model's context still holds. It excepts the sessions that a
view has led astray, by being under way when the client compacted or by being
cached and then refused for its size; both happen in the run, and the history
variable `astray` marks nothing else. `WithinLimit` does not depend on the order
of the stamps, which `OwnDirectory` is about. `OwnDirectory` is about the
requests in flight, which work with the state object they were given although
the table may have another by then. `FailedIsNotServedAgain` and `OnePrompt`
are the reasons the comments of `get_or_connect` give for its two decisions, to
evict and to hold the lock. `OnlyTheMatchIsReplaced` and `ShiftNoteIsRight` compare a replacement
with the text rewritten without lines; `FuzzyReplacesItsLines` says that the
third stage changes the lines it matched. `ReaderKnowsTheFile` applies what a
diff shows to the old text, `NoShorterDiff` compares its length with a longest
common subsequence. `OmittedIsNoise` and
`CutOutputIsRefused` compare a digest with what the printing tool knew of its
lines. `OutdatedTargetsChangeNothing` is
about the lines a batch names; those inside a replaced range carry no id and
the code does not compare them. `NoCompletionMissed` is the comment
in `listen`: registration before the check, so that either the callback or the
replay sees the other.

**Bounds and why they are enough.** A sweep needs an idle entry and a call
between its clone and its guard: two calls, a third to enter by the fresh
lock, and a second key so that a transaction holds one lock while it waits for
another. With the threshold at 0 each acquisition sweeps, so `GrowthIsSwept` is
not satisfied by the small number of keys; the proof covers every other
threshold. Five edits fill two stacks of two, leave stale entries in front of
live ones and overrun the budget, with sizes below, at and above it. Three
calls let two conflict while a third observes or undoes; two files are what a
transaction needs. The two commands of `shell` never wait for one another, so
two calls show every pairwise interference (the duplicate guard, shared
registries, shutdown). Three streams cover two of the job's session, which
fail or close independently, and one of another. Each call of `FileEdits` and
`ShellJobs` runs once, which bounds their behaviours; `MaxEdits` bounds those
of `UndoHistory`. In `sessions`, one tracked session makes every second
session drop the first, so that requests of a dropped state, of its successor
and of the contender overlap; one epoch step is all that separates a view from
what it forgets, and it ends what a view too large to be shown has done. That a
second compaction ends what the first did to a view under way, and contents over
`MAX_CACHED_BYTES` (`Big`, empty in the run), are beyond the five minutes a run
may take and left to the theorem of section 5. In `remote`, the second operation of a call finds a pooled
connection, alive or dead, that itself or the other call set up; a call behind
another waits through a whole set-up. A file that is spelled two ways, with and
without user and port, is all `LockKey` can tell apart; three writers let a
create run through an edit that a third call undoes. In `text`, three batch operations are two whose positions
interact and one that is moved by both; three lines hold two ranges with a line
between, or a range with a line on either side. Operation texts are empty, as
long as one line, and longer; texts of the files include a blank line, a closing
brace (exempt from the duplicate check) and two texts with one hash.
`MAX_OPERATIONS` stays at 50 and is out of the bound's reach. The files of
`str_replace` hold repeated lines, an indented one, a text twice in a line and
across lines, mixed and missing terminators and a blank end; its old texts span
lines, overlap themselves, carry an escape or differ in blanks. Two changes to a
text of nine lines are up to seven lines apart, so that hunks touch, merge and
stay apart (`CONTEXT` is 2), and add blocks of one line, of two and of more than
`ECHO_WHOLE_MAX`; the limit of five changes is on both sides of the distances
(`MaxDistance` is 500 in the code, and only compared with). The logs have
two suites or two steps, which is what an output needs to mix them, with every
outcome; a test may print one line that looks like any of the tool's
(`MaxIntrusions`). The bound matters: a test that prints a forged summary and is then
killed, or two lines that begin and end a suite, can make a digest believe it, as they would a
reader.

**Deadlock** is checked where the system may not stop: in `locks` and in the
`edit_links`, where the end of all calls is an explicit stuttering action, and in
`sessions` and `remote`, likewise; `edits` and `text` hold, besides models that
would pass, the undo store, the diff and the digests, which stop when there is
nothing left to do, as `shell` and `delivery` do.

**Symmetry** is used for calls and files where only safety is checked; in `text`
for the calls of the view cache's part, the only one that has any.

## 4. Fairness

`FileLocks`: a task that is ready runs (weak fairness of its steps), a call's
own input and output ends, and tokio's mutex hands itself to waiters in
arrival order; the latter is rendered as strong fairness of `Lock`, without
which a waiter could be overtaken for ever. `ShellJobs`: tasks run and the
deadline passes; nothing makes a command end, a request arrive or the server
shut down. `JobDelivery`: the callback's task and each `listen` run on; a job
need not exit and clients need do nothing. `SftpPool`: timers fire, the code's
own steps are taken, a request over a pooled session is answered or fails in
the end (the SFTP client's own timeout and the keepalives), and tokio's mutex
is a queue; of jump hosts, servers and agents nothing is assumed. `StrReplace`:
the handler runs on.

## 5. What is proved

TLAPS checks the following for all sets of calls, keys, files, sessions,
commands and streams, and every threshold, cap and limit. The assumptions are
those the modules name (`…Assumption`: the kinds of the constants, no more),
and, where a theorem says so, a condition on the configuration. A condition is
always one the code needs: without it a run or the text below shows what
happens. In each module the first theorem or lemma is a type invariant; the
others rest on an invariant that is stronger than the property, because none of
these properties is inductive as it stands.

* `FileLocks_proofs`: `TypeOK`, `ClonesAreCurrent`, `KeysHaveOwnLocks`,
  `MutualExclusion`, `ImplementsMutex` and `GrowthIsSwept`. The step that breaks
  mutual exclusion is a sweep long before. `LockInv` adds
  that a clone is always of the entry the table has now, that two keys never
  share a lock, and that a guard belongs to a call with a clone. The sweep keeps
  the middle one because it tests the reference count (`SweepKeepsClones`), a
  fresh entry because it is in nobody's hands (`Fresh`). The refinement then
  needs one more observation, that finding or inserting an entry changes who is
  inside a key in no case (`AcquireStutters`). `GrowthIsSwept` follows from the same
  invariant: what a sweep leaves is in use, under its own key.
* `Edits_proofs`, the tools: `CacheIsKnown` holds with every tool, failing writes and
  links alike. The rest is for paths none of which is a link (`NoPathIsALink`;
  run `edit_links` shows why): `WritersSerialize`, because such a path is its
  own key and the calls past their locks hold them (`LockInv`). With that and
  `AtomicTools`, `ImplementsAtomic` and `UndoRevertsLastEdit`. `AtomicTools`
  leaves out what is not indivisible in the code: `extract_lines` into a new file
  takes no snapshot, `create` takes no lock, and a single-file write that fails keeps a
  snapshot or has lost one; commits of a transaction may fail half way.
  `DataInv` says what a call knows of its files while it holds them: that what
  it read is what is there, which files a commit has written and a restore has
  put back, and where its snapshot is. `PastInv` says that the snapshots,
  corrected by what is under way (`StackOf`), are what past edits replaced.
  The refinement is then one lemma per step (`LoadMaps` to `RecordMaps`), most
  of which stutter; the last write of a call is the abstract operation.
* `Edits_proofs`, the undo store: `BudgetIsKept` and `UndoSkipsNoEdit`. `HistoryInv` says
  of the store (`Sound`) that the byte count is the sum over what is kept, that
  edit numbers tell snapshots apart, that every stack is the newest part of the
  edits not undone, and that each file has as many queue entries as snapshots;
  the last is why the loop, which gives up at one entry, may leave one
  snapshot above the cap and never two. The sum of a set and the loop are both
  defined by recursion; what they are for every set and every number of turns
  is proved from the least counterexample (`LeastNumber`): that the recursion
  has a solution, that a sum may begin with any element (`BytesRemove`), and
  that the loop keeps the store sound and has entries left until it is within
  the cap (`EvictKeeps`).
* `Sessions_proofs`: `WithinLimit`; `OwnDirectory`, from `SessionInv`, which
  says of every state object that the table or a request refers to that its
  directory was chosen under its own anchor in the session it serves, and that
  no two sessions share one; and `DeltaIsSafe`, from `DeltaInv`, for any
  requests, compactions at any moment and any sets `Big` and `Wide`. `DeltaInv`
  says of a session that is not astray: its views under way were sent with its
  present epoch, and a cache that is `Fresh` holds what the context holds.
  `Fresh` cannot be that the object has the present epoch: a request sent ahead
  of a compaction gives the object its old epoch, while a view of the present
  one uses it. Requests of old epochs, other than views, empty or advance the
  caches and do no harm, which is why the compaction that ends a stray may
  come while edits and checks are under way.
  The proof corrected the model: with one object per request, a
  request whose check looks the session up again could replace the object it
  held; no run of three requests got there, and the invariant was not
  inductive until objects were named after the look-up.
* `ShellJobs_proofs`: `FinishedIsReadable`, `CaptureLivesAsNeeded`,
  `InFlightIsKilled` and `ImplementsCommandLife`, from `JobInv`, which ties a
  call's place to its reply, its process, its job's record, its capture files
  and the list of children, and so says at each of the 13 places what a crash,
  a cancel or the shutdown finds there.
* `Remote_proofs`, the file tools: `WritersSerialize` and `DestroyedIsSaved`, if no file
  has two keys (`OneKeyPerFile`). `PlainIsEnough` says which configurations
  have that: no host under two names or with a port of its own, and no URL that
  spells out the directory that another calls `~`. Run `remote_homes` is
  outside them. `SavedInv` follows what an edit has read through its steps
  while other operations fail, and leaves out files a `create` writes too.
  `UndoRevertsItsFile`, which that run refutes, holds if besides no key has two
  files (`OnePlacePerKey`; `PlainHasOnePlace` says where: one login for each host
  with paths below `~`) and calls are `Undisturbed`: none fails or creates, since a
  failing edit leaves a snapshot of no change, a failing undo has lost one and
  a create takes none. `StackInv` says that a file's snapshots are its past
  states, and by which one they differ while a call is between the two.
* `Remote_proofs`, the pool: `TypeOK`, `OnePrompt` and `FailedIsNotServedAgain`.
  `OnePrompt` holds because a call is in the set-up only
  while it holds the lock, and the lock is given away only with the key's entry
  evicted; both go into one invariant, since a second call at the same key must
  have missed in between. For `FailedIsNotServedAgain` the invariant says that
  a failed connection has a closed transport, which stays closed, and that
  connections are named apart: one set up later is another one.
* `JobDelivery_proofs`: `TypeOK`, `NoCompletionMissed`,
  `FallbackNotSuppressed` and `NoSinkIsLeaked`. `DeliveryInv` adds that an open stream past its registration is
  in the registry, and `StillToBeTold`: a stream that checked too early to see
  the exit is either in the callback's list, or will be, because the callback
  has not taken it yet. The bound on notifications in `TypeOK` rests on a
  count: one for the callback once the stream is off its list, one for the
  replay once the stream is past it.
* `LineDiff_proofs`: `NoShorterDiff`, and `ScriptIsShortest`: the script that
  the search finds turns the old text into the new one, no script has fewer
  changes, and the search gives up only where all have more than the limit.
  The texts are continued without end by lines that match nothing, because the
  search runs over their ends, and `Distances` are the edit distances of all
  prefixes, from the table behind `Common`. What the search needs of them is in
  `Measures`: neighbours differ by one, a match costs nothing, and without one
  the last step cost one. `Frontier` is the invariant of the rounds: ahead of
  round d, each diagonal of the other parity holds the furthest point on it
  within d - 1 changes (`TurnReaches`). The way back is an invariant too: what
  has been read so far is a script from where the walk stands to the end, and
  where it stands is as many changes from the start as there are rounds left
  (`BacktrackWalks`). `EntriesCover` carries the count over to what is shown:
  blocks of changes have consecutive numbers, so that a block of which only the
  ends are shown stands for as many. The proof corrected the model: two arms
  of a `CASE` applied at once where a line is kept, and TLA+ leaves open which
  one is taken.

* `BatchEdit_proofs`: `EditsLandWhereAsked`, `OutdatedTargetsChangeNothing`,
  `TerminatorsSurvive` and `ShiftNoteFindsEveryKeptLine`, for any file, any
  number of operations and any hash. The state invariant is small (`BatchInv`:
  what was seen and asked is of the kinds the tool takes); the work is in one
  call. What acceptance leaves is a set of operations that do not overlap
  (`AcceptedIsSound`). The file that a set of operations asks for is a join of
  one piece for each original line (`Pieces`, `IsJoin`, `FileOf`), and this is what
  the reference `UpTo` computes (`UpToIsJoin`). The code gets there by
  splices: with all replaces from below done, one more is one splice at its
  original place (`ReplaceStep`); with all replaces and the inserts from below
  done, one more insert is one splice after as many lines as there now are up
  to its anchor (`InsertStep`). That its moved anchor is that number
  (`AdjustedIsLength`) rests on `PrefixLength`: the lines up to line k are k
  plus what the operations there add, as a sum over a set, in any order. The
  two loops are folds, unfolded one operation at a time by
  `SubsetInduction`. Terminators follow because texts are kept whole: no
  line is nothing at all, which a file without a blank last line lacking a
  terminator gives. For the note, what is announced is the same sum, and
  the entries between two that count add nothing (`QuietEnds`). For the proof
  the model's sort was written anew, as a fold that takes the lowest
  operation last, and what was understood of `Files`, that only a last line with
  text can lack its terminator, became part of the assumption.

Model-checked only: liveness (`EveryCallProceeds`, `EveryCallIsAnswered`,
`EveryExitIsTold`, `EveryStreamIsTold`, `EveryCallEnds`), which needs `ENABLED`
and fairness; `ReaderKnowsTheFile`; and the properties of `StrReplace` and the
digests. What these compute is defined by recursion over a text or an output,
partly with recursive operators, and their references are recursions of another
shape; TLAPS's back ends here do no induction over such data, and what could be
put as a fold or a recursive function over numbers and sets was.

## 6. Where the code and its documents disagree

Five runs end in a counterexample (`findings` in `PROJECT.json`):

* `undo_kept`: `push` counts queue entries where its comment speaks of
  snapshots. Edit a file, undo, edit it with more than the budget: the stale
  entry of the undone edit is popped and the new snapshot with it.
* `edit_links`: an edit through a symbolic link replaces the link by a file,
  and a lock key computed before and one computed after differ.
* `batch_ids`: an insert after line N listed before a replace of line N is
  printed as if it had been applied first, and an insert whose anchor and
  everything above it the batch deletes is printed one line too low: `shift`
  clamps before 1 is added. The file is right in both cases, the ids are not.
* `remote_homes`: the key of a remote file leaves the user out, and a path below
  `~` is another file for each login.
* `str_empty`: an empty old text sends `find_all_positions` into an endless
  loop, with the file's lock held; one of blanks, on an empty file, makes the
  code slice past the file's end, and a panic aborts the server.

Also met while modelling, without a run: an exact duplicate command is refused
only once the first copy has been promoted, although README.md:554 says while
it is still running; between the end of a job's process and the record of its
exit, a cancel marks the job as cancelled, although a comment at
`fs/background.rs:288` says it is left as it is; a whole-file view is stored in
the cache before `execute_view` (`fs/core.rs:439`) fails it for its size, so
that the next view of a file with very many short lines says "unchanged" of
what was never shown (in `sessions`, marked by `astray`); a client that
compacts while a view of its own is on the way gets the old epoch's content
into the new epoch's cache (likewise); the comment at
`fs/text_editing.rs:481` speaks of a connection-level lock that serializes
concurrent remote writes, and there is none: a create runs into another write
of its file; the third stage of `str_replace` looks for the text of the lines
it matched from the top of the file and may find it earlier, inside a longer
line, and leaves a blank line behind if the new text ends with a newline; a
jump host's handle is dropped without a disconnect, an SFTP channel that died
on a live transport is served on, and `remote_create_dir_all` ignores every
failure; while one host's session is set up, calls to all other hosts wait
(`EveryCallEnds` says for how long: not for ever). An `extract_lines` into a file that
does not exist leaves no snapshot, although doc/tools.md says one is saved
before every write; a write that fails leaves the snapshot taken ahead of it,
and a failing undo has already dropped its snapshot; `create` takes no lock
although doc/tools.md says every write does, so two creates can both succeed;
undo through a link whose edit replaced it looks under another key; `order`
grows with every edit until the byte budget is exceeded; a command spawned but
not yet registered escapes the kill at shutdown; a stream of another HTTP
session that names a job is accepted and replayed to, and never told.

## 7. What is not modelled

Reads between the writes of a transaction see some files new and some old:
the transaction is indivisible to writers, not to readers, who take no lock
(`AtomicFiles` is about what the files hold, with a committing transaction's
files hidden until it ends). Dropping a call of a writing tool on local files between two of
its steps, and what its blocking write does afterwards; a rollback that fails;
the files of a transaction that its edits leave unchanged, which
`commit` skips; transactions over remote files; the growth of the delta cache
with the number of files, which has no bound; reuse of process ids; whether SIGTERM ends a command; the
Claude channel message; the acknowledgement of the older
`resources/subscribe`; job output tails and the spill of large results; the
size rule of a digest, which `Digest` may or may not meet; 13 of the 15 digest
parsers, which work as the two that are modelled; the parser of the fallback
ssh configuration. The misuse gate, the noise filter, directory listing,
search, images, formatting, the command line and HTTP access control are
functions of their input and change nothing. `PROJECT.json` lists every
component with its status.

## 8. Plan

In order:

1. `Edits_proofs`: which part of `ImplementsAtomic` survives links, for
   calls that go through the path and never through a link to it.
2. `AtomicWrite`: the steps of `atomic_write`, calls that are dropped while a
   blocking write goes on, and the shared name of the temporary file.
