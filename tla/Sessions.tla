------------------------------- MODULE Sessions -------------------------------
(***************************************************************************)
(* The sessions of one connection: the table of session states, its least- *)
(* recently-used limit, each session's working directory and view cache,   *)
(* and the requests that share them.                                       *)
(*                                                                         *)
(* A request names its session, its anchor directory and, if its client    *)
(* reports one, its context epoch.  It takes a stamp, then looks its       *)
(* session up under the table's lock, and keeps the state object it was    *)
(* given: by the time it uses the object, the table may have dropped or    *)
(* replaced it.  The client is modelled by what its model's context holds. *)
(***************************************************************************)
EXTENDS Naturals, FiniteSets

CONSTANTS Calls,       \* requests; each is sent once
          Ids,         \* session ids
          Requests,    \* [id, root, reports, tool, arg]: session, anchor, does the
                       \* client report its epoch, what is asked
          Contents,    \* what the one file may hold
          Big,         \* contents above MAX_CACHED_BYTES
          Wide,        \* contents whose numbered lines exceed MAX_RESULT_BYTES
          MaxSessions, \* MAX_TRACKED_SESSIONS
          MaxEpoch,    \* bound: compactions of one session
          None

Tools == {"view", "edit", "workdir", "shell"}

\* A state object is named after the request that created it and whether it
\* was for the shell: a request with a check looks its session up twice.
Objects == Calls \X {"tool", "shell"}

Named(c, r) == <<c, IF r.tool = "shell" THEN "shell" ELSE "tool">>

ASSUME SessionsAssumption ==
  /\ MaxSessions \in Nat \ {0}
  /\ MaxEpoch \in Nat
  /\ Big \cup Wide \subseteq Contents
  /\ \A r \in Requests : r.id \in Ids /\ r.reports \in BOOLEAN /\ r.tool \in Tools
  /\ None \notin Nat \cup Contents \cup Objects

VARIABLES clock,   \* Sessions.clock
          table,   \* Sessions.states: the object of each id
          object,  \* the state objects
          disk,    \* what the file holds
          pc, request, stamp,
          state,   \* the object a request was given
          dir,     \* the directory a request works in
          old, new,\* what its reply tells: the step from old to new
          epoch,   \* the client's context epoch, per session
          known,   \* contents the model's context of a session holds
          chosen,  \* history: <<anchor, directory>> pairs set in a session
          astray   \* history: whether a view of the session was under way when its
                   \* client compacted, or cached what it failed to show, and the
                   \* client has not compacted between views since

client == <<epoch, known, astray>>
vars == <<clock, table, object, disk, pc, request, stamp, state, dir, old, new,
          epoch, known, chosen, astray>>


Init ==
  /\ clock = 0
  /\ table = [s \in Ids |-> None]
  /\ object = [o \in Objects |-> None]
  /\ disk \in Contents
  /\ pc = [c \in Calls |-> "idle"]
  /\ request = [c \in Calls |-> None]
  /\ stamp = [c \in Calls |-> 0]
  /\ state = [c \in Calls |-> None]
  /\ dir = [c \in Calls |-> None]
  /\ old = [c \in Calls |-> None]
  /\ new = [c \in Calls |-> None]
  /\ epoch = [s \in Ids |-> 0]
  /\ known = [s \in Ids |-> {}]
  /\ chosen = [s \in Ids |-> {}]
  /\ astray = [s \in Ids |-> FALSE]

------------------------------------------------------------------------------
\* Helpers.

Arg(c) == request[c].arg

\* The context epoch as request r of a client sends it.
Sent(r) == IF r.reports THEN epoch[r.id] ELSE None

Goto(c, where) == pc' = [pc EXCEPT ![c] = where]

\* A state object is freed with its last Arc: the table's and the requests'.
Shared(objects, inTable, held) ==
  [o \in Objects |-> IF (\E s \in Ids : inTable[s] = o) \/ (\E c \in Calls : held[c] = o)
                     THEN objects[o] ELSE None]

\* The request is answered, having left the state objects as given.
Finish(c, objects) ==
  /\ Goto(c, "end")
  /\ request' = [request EXCEPT ![c] = None]
  /\ state' = [state EXCEPT ![c] = None]
  /\ dir' = [dir EXCEPT ![c] = None]
  /\ old' = [old EXCEPT ![c] = None]
  /\ new' = [new EXCEPT ![c] = None]
  /\ object' = Shared(objects, table, state')

Tracked == {s \in Ids : table[s] # None}

\* get_current: the directory of a state object, its root if none is set.
Current(o) == IF o.current = None THEN o.root ELSE o.current

\* Seeded fault: a client that moved its anchor keeps the directory it had.
MatchesAnyRoot(o, r) == (o.epoch = None) = (r.epoch = None)

\* The filter of get: the entry is used as long as the anchor is the same and
\* the client still does, or still does not, report an epoch.
Matches(o, r) ==
  /\ o.root = r.root
  /\ (o.epoch = None) = (r.epoch = None)

\* Seeded fault: a new epoch is recorded and the cache is kept.
KeptCache(o, r) == o.cache

\* swap, then clear unless the epoch is the one the cache was filled under.
CacheUnder(o, r) == IF o.epoch = r.epoch THEN o.cache ELSE None

\* Seeded fault: room is made one session too late.
IsFullLate == Cardinality(Tracked) > MaxSessions

IsFull == Cardinality(Tracked) >= MaxSessions

\* min_by_key over last_used.
Oldest == CHOOSE s \in Tracked : \A t \in Tracked : object[table[s]].used <= object[table[t]].used

\* ViewCache::set on the cache of object o, which has one if its client
\* reports epochs.
Cached(o, content) == IF o.epoch = None \/ content \in Big THEN None ELSE content

\* Request c is a view that may be answered from a cache.
Viewing(c) ==
  /\ \/ pc[c] \in {"view", "peek", "store"}
     \/ pc[c] = "enter" /\ request[c].tool = "view"
  /\ request[c].epoch # None

------------------------------------------------------------------------------
\* The client.

\* A request arrives; session() stamps it before it has the table's lock.
Arrive(c, r) ==
  /\ pc[c] = "idle"
  /\ request' = [request EXCEPT ![c] = [id |-> r.id, root |-> r.root, epoch |-> Sent(r),
                                        tool |-> r.tool, arg |-> r.arg]]
  /\ stamp' = [stamp EXCEPT ![c] = clock]
  /\ clock' = clock + 1
  /\ Goto(c, "enter")
  /\ UNCHANGED <<table, object, disk, state, dir, old, new, client, chosen>>

\* An edit with a check is refused before anything else where the session does
\* not grant shell.
Refuse(c) ==
  /\ pc[c] = "idle"
  /\ Goto(c, "end")
  /\ UNCHANGED <<clock, table, object, disk, request, stamp, state, dir, old, new, client, chosen>>

\* The client compacts the context of a session, at any time: what it was shown
\* is gone.
Compact(s) ==
  /\ epoch[s] < MaxEpoch
  /\ epoch' = [epoch EXCEPT ![s] = @ + 1]
  /\ known' = [known EXCEPT ![s] = {}]
  /\ astray' = [astray EXCEPT ![s] = \E c \in Calls : Viewing(c) /\ request[c].id = s]
  /\ UNCHANGED <<clock, table, object, disk, pc, request, stamp, state, dir, old, new, chosen>>

\* Another program changes the file.
Change(content) ==
  /\ disk' = content
  /\ UNCHANGED <<clock, table, object, pc, request, stamp, state, dir, old, new, client, chosen>>

\* The model reads a reply that takes it from content from (None: a whole file)
\* to content to.
Learn(s, from, to) ==
  known' = IF from = None \/ from \in known[s]
           THEN [known EXCEPT ![s] = @ \cup {to}] ELSE known

------------------------------------------------------------------------------
\* Sessions::get under the table's lock, then the working directory.

\* The session's entry, if there is one and it matches, is touched and used.
Reuse(c, r, o) ==
  /\ o # None
  /\ Matches(object[o], r)
  /\ state' = [state EXCEPT ![c] = o]
  /\ dir' = [dir EXCEPT ![c] = Current(object[o])]
  /\ object' = [object EXCEPT ![o] =
       [@ EXCEPT !.used = stamp[c], !.epoch = r.epoch, !.cache = CacheUnder(object[o], r)]]
  /\ UNCHANGED table

\* Otherwise a new one is inserted, or replaces an entry that does not match;
\* for a session that is not there, the least recently used makes room.
Create(c, r, o) ==
  /\ o # None => ~Matches(object[o], r)
  /\ state' = [state EXCEPT ![c] = Named(c, r)]
  /\ dir' = [dir EXCEPT ![c] = r.root]
  /\ table' = [s \in Ids |->
       IF s = r.id THEN Named(c, r)
       ELSE IF o = None /\ IsFull /\ s = Oldest THEN None ELSE table[s]]
  /\ object' = Shared([object EXCEPT ![Named(c, r)] =
                         [root |-> r.root, current |-> None, epoch |-> r.epoch,
                          cache |-> None, used |-> stamp[c]]],
                      table', state')

Enter(c) ==
  /\ pc[c] = "enter"
  /\ \/ Reuse(c, request[c], table[request[c].id])
     \/ Create(c, request[c], table[request[c].id])
  /\ stamp' = [stamp EXCEPT ![c] = 0]
  /\ Goto(c, request[c].tool)
  /\ UNCHANGED <<clock, disk, request, old, new, client, chosen>>

\* execute_workdir_command, then set_current or reset on the object at hand.
\* Nothing is set by a query or if the path is not that of a directory.
Workdir(c) ==
  /\ pc[c] = "workdir"
  /\ \/ /\ Finish(c, [object EXCEPT ![state[c]].current =
                        IF Arg(c) = "reset" THEN None ELSE Arg(c)])
        /\ chosen' = [chosen EXCEPT ![request[c].id] =
                        @ \cup {<<request[c].root, Arg(c)>>}]
     \/ /\ Arg(c) # "reset"
        /\ Finish(c, object)
        /\ UNCHANGED chosen
  /\ UNCHANGED <<clock, table, disk, stamp, client>>

\* view of the whole file: read it ...
Read(c) ==
  /\ pc[c] = "view"
  /\ new' = [new EXCEPT ![c] = disk]
  /\ Goto(c, "peek")
  /\ UNCHANGED <<clock, table, object, disk, request, stamp, state, dir, old, client, chosen>>

\* ... ask the cache what the session has ...
Peek(c) ==
  /\ pc[c] = "peek"
  /\ old' = [old EXCEPT ![c] = IF Arg(c) = "full" THEN None ELSE object[state[c]].cache]
  /\ Goto(c, "store")
  /\ UNCHANGED <<clock, table, object, disk, request, stamp, state, dir, new, client, chosen>>

\* The reply would exceed MAX_RESULT_BYTES: anything but "unchanged".
TooLarge(c) == new[c] \in Wide /\ old[c] # new[c]

\* Such a reply has been cached before it fails.
StoresUnshown(c) ==
  /\ TooLarge(c)
  /\ Cached(object[state[c]], new[c]) \notin known[request[c].id] \cup {None}

\* ... and store what is about to be shown.  execute_view then fails a reply
\* that is too large.
Store(c) ==
  /\ pc[c] = "store"
  /\ Finish(c, [object EXCEPT ![state[c]].cache = Cached(object[state[c]], new[c])])
  /\ IF TooLarge(c) THEN UNCHANGED known ELSE Learn(request[c].id, old[c], new[c])
  /\ astray' = [astray EXCEPT ![request[c].id] = @ \/ StoresUnshown(c)]
  /\ UNCHANGED <<clock, table, disk, stamp, epoch, chosen>>

\* An edit replaces the content under the file's lock, or fails ...
Write(c) ==
  /\ pc[c] = "edit"
  /\ \A d \in Calls : pc[d] # "note"
  /\ \/ \E content \in Contents \ {disk} :
          /\ disk' = content
          /\ old' = [old EXCEPT ![c] = disk]
          /\ new' = [new EXCEPT ![c] = content]
          /\ Goto(c, "note")
          /\ UNCHANGED <<request, state, dir, object>>
     \/ Finish(c, object) /\ UNCHANGED disk
  /\ UNCHANGED <<clock, table, stamp, client, chosen>>

\* What note_write does to the cache of the object the request holds.
Noted(c) == [object EXCEPT ![state[c]].cache =
               IF @ = old[c] THEN Cached(object[state[c]], new[c]) ELSE None]

\* ... then note_write advances the cache if it held what the edit replaced.
\* The reply shows the edit as a diff; a check has the request go through
\* session() again, to run in the directory the session is in by then.
Note(c) ==
  /\ pc[c] = "note"
  /\ Learn(request[c].id, old[c], new[c])
  /\ IF Arg(c) = "check"
     THEN /\ stamp' = [stamp EXCEPT ![c] = clock]
          /\ clock' = clock + 1
          /\ request' = [request EXCEPT ![c].tool = "shell"]
          /\ state' = [state EXCEPT ![c] = None]
          /\ old' = [old EXCEPT ![c] = None]
          /\ new' = [new EXCEPT ![c] = None]
          /\ object' = Shared(Noted(c), table, state')
          /\ Goto(c, "enter")
          /\ UNCHANGED dir
     ELSE Finish(c, Noted(c)) /\ UNCHANGED <<stamp, clock>>
  /\ UNCHANGED <<table, disk, epoch, chosen, astray>>

\* run_shell, which ends the request whatever the command does.
Shell(c) ==
  /\ pc[c] = "shell"
  /\ Finish(c, object)
  /\ UNCHANGED <<clock, table, disk, stamp, client, chosen>>

Terminated == (\A c \in Calls : pc[c] = "end") /\ UNCHANGED vars

Next ==
  \/ \E c \in Calls :
       \/ \E r \in Requests : Arrive(c, r)
       \/ Refuse(c) \/ Enter(c) \/ Workdir(c) \/ Shell(c)
       \/ Read(c) \/ Peek(c) \/ Store(c) \/ Write(c) \/ Note(c)
  \/ \E s \in Ids : Compact(s)
  \/ \E content \in Contents : Change(content)
  \/ Terminated

Spec == Init /\ [][Next]_vars

------------------------------------------------------------------------------
\* The table never tracks more sessions than MAX_TRACKED_SESSIONS, whichever
\* requests of old, new and re-anchored sessions are between stamp and lock.
WithinLimit == Cardinality(Tracked) <= MaxSessions

\* SessionWorkdir isolates sessions: a request works in the anchor it was sent
\* with or in a directory that a workdir call of its own session chose under
\* that very anchor, however often states are dropped, replaced and still used
\* by requests that were given them before.
OwnDirectory ==
  \A c \in Calls :
    dir[c] # None =>
      \/ dir[c] = request[c].root
      \/ <<request[c].root, dir[c]>> \in chosen[request[c].id]

\* A view is answered with a delta or "unchanged" only against content that the
\* model's present context holds: "whole-file views served before it may no
\* longer be in the model's context and must not be answered with a delta"
\* (OctofsServer::session).  Two things alone can break this: a view under way
\* during a compaction, and one that caches what is too large to be shown.  The
\* next compaction between views ends what either has done, whatever other
\* requests are under way then and whichever old state objects they hold.
DeltaIsSafe ==
  \A c \in Calls :
    pc[c] = "store" /\ old[c] # None /\ ~TooLarge(c) =>
      old[c] \in known[request[c].id] \/ astray[request[c].id]
==============================================================================
