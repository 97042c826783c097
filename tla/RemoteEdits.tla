----------------------------- MODULE RemoteEdits -----------------------------
(***************************************************************************)
(* The file tools on ssh:// paths: what a URL means, the keys a remote     *)
(* file has in the lock table, the undo history and the view cache, and    *)
(* the tools' sequences of SFTP operations.  Nothing is atomic there: a    *)
(* write truncates the file and then sends the text.                       *)
(*                                                                         *)
(* Every operation asks SftpPool for a session of its own; what SftpPool   *)
(* says of an operation is that it succeeds or fails, at any moment, and   *)
(* that is all that is assumed of it here.  The lock is FileMutex.         *)
(***************************************************************************)
EXTENDS Integers, Sequences, SequencesExt, FiniteSets

CONSTANTS Writers,     \* tool calls on ssh:// paths
          Sources,     \* [host, user, port, path, relative]: what a URL says;
                       \* user and port Unset if left out, path a sequence
                       \* whose first element is "~" for a path below the
                       \* login home; relative what a request says if the URL
                       \* is its working directory, else <<>>
          HostName, ConfigUser, ConfigPort,  \* the ssh configuration, by host
          EnvUser,     \* $USER
          Tools,       \* what the calls may be
          Faulty,      \* whether operations may fail
          Absent, Unset

\* What the parameters are; the modules that instantiate this one assume it.
RemoteEditsAssumption ==
  /\ Faulty \in BOOLEAN
  /\ Absent # <<>> /\ Unset # Absent /\ \A c \in Writers : Absent # <<c>>
  /\ \A s \in Sources : Len(s.path) > 0

------------------------------------------------------------------------------
\* What a URL means.

DefaultPort == 22

\* resolve_path_source: a relative path is put below the remote working directory.
Below(s) == s.path \o s.relative

\* parse_path_source: user and port have defaults, and it is kept whether the
\* URL named them.
Parsed(s) == [host |-> s.host, path |-> Below(s),
              user |-> IF s.user = Unset THEN EnvUser ELSE s.user,
              port |-> IF s.port = Unset THEN DefaultPort ELSE s.port,
              userExplicit |-> s.user # Unset, portExplicit |-> s.port # Unset]

Parent(p) == [p EXCEPT !.path = Front(@)]

\* Seeded fault: the key keeps apart what the URL spelled out.
SpelledKey(p) == <<p.host, p.portExplicit, p.path>>

\* PathSource::lock_key.
LockKey(p) == <<p.host, p.port, p.path>>

\* apply_ssh_host_config: what the URL leaves out comes from the configuration.
Resolved(p) ==
  LET Or(setting, default) == IF setting = Unset THEN default ELSE setting
  IN  [host |-> Or(HostName[p.host], p.host),
       user |-> IF p.userExplicit THEN p.user ELSE Or(ConfigUser[p.host], p.user),
       port |-> IF p.portExplicit THEN p.port ELSE Or(ConfigPort[p.host], p.port)]

\* sftp_path, as the server of an account resolves it: "~" is the home of the
\* account, every other path is the same for all.
Place(p) ==
  LET at == Resolved(p)
  IN  <<at.host, at.port, IF p.path[1] = "~" THEN <<"home", at.user>> \o Tail(p.path) ELSE p.path>>

URLs == {Parsed(s) : s \in Sources}
Places == {Place(p) : p \in URLs}
Locks == {LockKey(p) : p \in URLs}

------------------------------------------------------------------------------
VARIABLES file,      \* what each place holds: Absent, or a sequence of texts
          history,   \* FILE_HISTORY, by lock key
          lockHolder, \* the file locks
          step, tool, source,
          text,      \* what a call read, and has the text it writes made from
          past       \* history: what a place held before each change not undone

editVars == <<file, history, lockHolder, step, tool, source, text, past>>

Mutex == INSTANCE FileMutex WITH Calls <- Writers, Keys <- Locks, holder <- lockHolder

EditsInit ==
  /\ file \in [Places -> {Absent, <<>>}]
  /\ history = [k \in Locks |-> <<>>]
  /\ Mutex!MutexInit
  /\ step = [c \in Writers |-> "start"]
  /\ tool = [c \in Writers |-> Unset]
  /\ source = [c \in Writers |-> Unset]
  /\ text = [c \in Writers |-> Unset]
  /\ past = [f \in Places |-> <<>>]

At(c) == Place(source[c])
Key(c) == LockKey(source[c])

Advance(c, where) == step' = [step EXCEPT ![c] = where]

\* The call returns and drops its guard.
Return(c) ==
  /\ Advance(c, "end")
  /\ lockHolder' = [k \in Locks |-> lockHolder[k] \ {c}]
  /\ UNCHANGED tool

\* An operation fails, in the pool or on the way: the tool returns its error.
Fail(c) ==
  /\ Faulty
  /\ Return(c)
  /\ UNCHANGED <<file, history, source, text, past>>

\* Seeded fault: undo pops before it has the lock.
PopsUnlocked(kind) ==
  CASE kind = "create" -> "truncate" [] kind = "undo" -> "pop" [] OTHER -> "lock"

\* Where a call goes after its checks.
FirstStep(kind) == IF kind = "create" THEN "truncate" ELSE "lock"

\* The text of a call: an edit adds its own, undo writes what it popped.
Written(c) ==
  CASE tool[c] = "edit" -> Append(text[c], c)
    [] tool[c] = "create" -> <<c>>
    [] tool[c] = "undo" -> text[c]

------------------------------------------------------------------------------
\* The tools.

\* Look at the file before taking its lock; create does nothing else before it
\* writes.
Check(c, kind, p) ==
  /\ step[c] = "start"
  /\ tool' = [tool EXCEPT ![c] = kind]
  /\ source' = [source EXCEPT ![c] = p]
  /\ IF kind = "undo" \/ (kind \in {"edit", "delete"} /\ file[Place(p)] # Absent)
        \/ (kind = "create" /\ file[Place(p)] = Absent)
     THEN Advance(c, FirstStep(kind))
     ELSE Advance(c, "end")
  /\ UNCHANGED <<file, history, lockHolder, text, past>>

\* acquire_file_lock on the source's key.
TakeLock(c) ==
  /\ step[c] = "lock"
  /\ Mutex!Lock(c, Key(c))
  /\ Advance(c, CASE tool[c] = "edit" -> "load" [] tool[c] = "delete" -> "save" [] tool[c] = "undo" -> "pop")
  /\ UNCHANGED <<file, history, tool, source, text, past>>

\* remote_read_to_string; an edit that does not match returns here.
Load(c) ==
  /\ step[c] = "load"
  /\ \/ /\ file[At(c)] # Absent
        /\ text' = [text EXCEPT ![c] = file[At(c)]]
        /\ Advance(c, "save")
        /\ UNCHANGED <<lockHolder, tool>>
     \/ Return(c) /\ UNCHANGED text
  /\ UNCHANGED <<file, history, source, past>>

\* save_file_history: no snapshot of a file that is not there.
Save(c) ==
  /\ step[c] = "save"
  /\ history' = IF file[At(c)] = Absent THEN history
                ELSE [history EXCEPT ![Key(c)] = Append(@, file[At(c)])]
  /\ Advance(c, IF tool[c] = "delete" THEN "remove" ELSE "truncate")
  /\ UNCHANGED <<file, lockHolder, tool, source, text, past>>

\* undo_edit takes the newest snapshot before it writes.
Pop(c) ==
  /\ step[c] = "pop"
  /\ LET stack == history[Key(c)]
     IN  IF stack = <<>>
         THEN Return(c) /\ UNCHANGED <<history, text>>
         ELSE /\ history' = [history EXCEPT ![Key(c)] = Front(@)]
              /\ text' = [text EXCEPT ![c] = Last(stack)]
              /\ Advance(c, "truncate")
              /\ UNCHANGED <<lockHolder, tool>>
  /\ UNCHANGED <<file, source, past>>

\* remote_write: create(path) truncates the file ...
Truncate(c) ==
  /\ step[c] = "truncate"
  /\ file' = [file EXCEPT ![At(c)] = <<>>]
  /\ past' = [past EXCEPT ![At(c)] =
                IF tool[c] # "undo" THEN Append(@, file[At(c)])
                ELSE IF @ = <<>> THEN @ ELSE Front(@)]
  /\ Advance(c, "send")
  /\ UNCHANGED <<history, lockHolder, tool, source, text>>

\* ... and write_all and flush send the text, part of it if the connection goes
\* away.  It overwrites what another call has put there in the meantime.
Send(c) ==
  /\ step[c] = "send"
  /\ \/ file' = [file EXCEPT ![At(c)] = Written(c)]
     \/ /\ Faulty
        /\ \E n \in 0..Len(Written(c)) :
             file' = [file EXCEPT ![At(c)] = SubSeq(Written(c), 1, n)]
  /\ Return(c)
  /\ UNCHANGED <<history, source, text, past>>

\* remote_remove_file.
RemoveFile(c) ==
  /\ step[c] = "remove"
  /\ IF file[At(c)] = Absent
     THEN UNCHANGED <<file, past>>
     ELSE /\ file' = [file EXCEPT ![At(c)] = Absent]
          /\ past' = [past EXCEPT ![At(c)] = Append(@, file[At(c)])]
  /\ Return(c)
  /\ UNCHANGED <<history, source, text>>

AllEnded == (\A c \in Writers : step[c] = "end") /\ UNCHANGED editVars

EditsNext ==
  \/ \E c \in Writers :
       \/ \E kind \in Tools, p \in URLs : Check(c, kind, p)
       \/ TakeLock(c) \/ Load(c) \/ Save(c) \/ Pop(c) \/ Truncate(c) \/ Send(c) \/ RemoveFile(c)
       \/ step[c] \in {"load", "save", "truncate", "remove"} /\ Fail(c)
  \/ AllEnded

EditsSpec == EditsInit /\ [][EditsNext]_editVars

------------------------------------------------------------------------------
Writing == {"save", "truncate", "send", "remove"}

\* "Two requests targeting the same file would not serialize and could corrupt
\* it" otherwise (lock_key_for): tools that lock do not work on one remote file
\* together, however their URLs spell its user and its port, and though there
\* is no connection-level lock around a write.
WritersSerialize ==
  \A c, d \in Writers :
    /\ step[c] \in Writing /\ tool[c] # "create"
    /\ step[d] \in Writing /\ tool[d] # "create"
    /\ At(c) = At(d)
    => c = d

\* What an edit is about to destroy, or has destroyed with a write that may
\* still fail half way, is the newest snapshot of its file until it returns;
\* a create, which takes no lock, may have added a text that is not in it.
DestroyedIsSaved ==
  \A c \in Writers :
    tool[c] = "edit" /\ step[c] \in {"truncate", "send"} =>
      /\ history[Key(c)] # <<>>
      /\ \/ Last(history[Key(c)]) = text[c]
         \/ \E d \in Writers : tool[d] = "create" /\ At(d) = At(c)

\* undo_edit: "revert the last edit to `path`" (doc/tools.md): it writes what
\* that file held before the last change to it that was not undone.
UndoRevertsItsFile ==
  [][\A c \in Writers :
       tool[c] = "undo" /\ step[c] = "truncate" /\ step'[c] = "send" =>
         past[At(c)] # <<>> /\ text[c] = Last(past[At(c)])]_editVars
==============================================================================
