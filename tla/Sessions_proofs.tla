---------------------------- MODULE Sessions_proofs ----------------------------
(***************************************************************************)
(* Sessions for every set of requests, sessions and contents and every     *)
(* limit: the limit of the table, whose directories requests work in, and  *)
(* what a delta may be taken against.                                      *)
(***************************************************************************)
EXTENDS Sessions, FiniteSetTheorems, WellFoundedInduction, TLAPS

Roots == {r.root : r \in Requests}
Args  == {r.arg : r \in Requests}

Object  == [root : Roots, current : Args \cup {None}, epoch : Nat \cup {None},
            cache : Contents \cup {None}, used : Nat]
Request == [id : Ids, root : Roots, epoch : Nat \cup {None}, tool : Tools, arg : Args]

\* A request that has its state object.
Working  == Tools \cup {"peek", "store", "note"}
Underway == Working \cup {"enter"}

TypeInv ==
  /\ clock \in Nat
  /\ table \in [Ids -> Objects \cup {None}]
  /\ object \in [Objects -> Object \cup {None}]
  /\ \A s \in Ids : table[s] \in Objects => object[table[s]] \in Object
  /\ \A c \in Calls : state[c] \in Objects => object[state[c]] \in Object
  /\ disk \in Contents
  /\ pc \in [Calls -> Underway \cup {"idle", "end"}]
  /\ request \in [Calls -> Request \cup {None}]
  /\ \A c \in Calls : pc[c] \in Underway => request[c] \in Request
  /\ stamp \in [Calls -> Nat]
  /\ state \in [Calls -> Objects \cup {None}]
  /\ \A c \in Calls : state[c] \in Objects <=> pc[c] \in Working
  /\ dir \in [Calls -> Roots \cup Args \cup {None}]
  /\ old \in [Calls -> Contents \cup {None}]
  /\ new \in [Calls -> Contents \cup {None}]
  /\ \A c \in Calls : pc[c] \in {"peek", "store", "note"} => new[c] \in Contents
  /\ \A c \in Calls : pc[c] = "note" => old[c] \in Contents
  /\ epoch \in [Ids -> Nat]
  /\ known \in [Ids -> SUBSET Contents]
  /\ chosen \in [Ids -> SUBSET (Roots \X Args)]
  /\ astray \in [Ids -> BOOLEAN]

\* Object o is that of session s, in the table or in the hands of a request.
Ref(o, s) ==
  \/ table[s] = o
  \/ \E c \in Calls : state[c] = o /\ request[c].id = s

\* What a request is doing tells which tool it was sent for.
ToolIsKept ==
  \A c \in Calls :
    /\ pc[c] \in {"edit", "note"} => request[c].tool = "edit"
    /\ pc[c] = "shell" => request[c].tool = "shell"

\* No two sessions share a state object, even one that the table has dropped.
OneSession ==
  \A o \in Objects, s, t \in Ids : Ref(o, s) /\ Ref(o, t) => s = t

\* A name is given once: by the first look-up of its request, or by the second.
NamedOnce ==
  \A c \in Calls, s \in Ids :
    /\ Ref(<<c, "tool">>, s) =>
         pc[c] # "idle" /\ (pc[c] = "enter" => request[c].tool = "shell")
    /\ Ref(<<c, "shell">>, s) => pc[c] \in {"shell", "end"}

\* The directory of an object was chosen in its own session under its anchor.
ObjectInv ==
  \A o \in Objects, s \in Ids :
    Ref(o, s) /\ object[o].current # None =>
      <<object[o].root, object[o].current>> \in chosen[s]

\* The object a request uses has the anchor of the request.
HeldInv == \A c \in Calls : pc[c] \in Working => object[state[c]].root = request[c].root

\* Only a request that is under way has a directory.
NoneYet == \A c \in Calls : pc[c] \notin Underway => dir[c] = None

SessionInv ==
  /\ ToolIsKept /\ NoneYet
  /\ OneSession /\ NamedOnce /\ ObjectInv /\ HeldInv
  /\ OwnDirectory

\* The epoch a request was sent with is its session's or an older one; that of
\* a view is its session's, unless the session is astray.  The object it was
\* given has a cache if the request reports an epoch.
EpochInv ==
  \A c \in Calls :
    /\ pc[c] \in Underway /\ request[c].epoch # None =>
         /\ request[c].epoch <= epoch[request[c].id]
         /\ Viewing(c) /\ ~astray[request[c].id] =>
              request[c].epoch = epoch[request[c].id]
    /\ pc[c] \in Working => (object[state[c]].epoch = None <=> request[c].epoch = None)

\* A cache was last cleared for the present epoch, or a request of that epoch
\* uses it.  The second is not the first: a request that was sent before a
\* compaction gives the object its old epoch, under those who use it.
Fresh(o, s) ==
  \/ object[o].epoch = epoch[s]
  \/ \E c \in Calls : state[c] = o /\ request[c].id = s /\ request[c].epoch = epoch[s]

\* Unless the session is astray, such a cache holds what the model's context
\* holds.
CacheInv ==
  \A o \in Objects, s \in Ids :
    Ref(o, s) =>
      /\ object[o].epoch = None => object[o].cache = None
      /\ object[o].epoch # None => object[o].epoch <= epoch[s]
      /\ Fresh(o, s) /\ object[o].cache # None /\ ~astray[s] => object[o].cache \in known[s]

\* What a view is about to be answered against.
ReplyInv ==
  \A c \in Calls :
    pc[c] = "store" /\ old[c] # None =>
      /\ request[c].epoch # None
      /\ ~astray[request[c].id] => old[c] \in known[request[c].id]

DeltaInv == EpochInv /\ CacheInv /\ ReplyInv

------------------------------------------------------------------------------
\* Only what nobody refers to is freed.
LEMMA SharedKeeps ==
  ASSUME NEW objects, NEW inTable, NEW held, NEW o \in Objects,
         (\E s \in Ids : inTable[s] = o) \/ (\E c \in Calls : held[c] = o)
  PROVE  Shared(objects, inTable, held)[o] = objects[o]
BY DEF Shared

\* None is no state object.
LEMMA NoneIsNoObject == None \notin Objects /\ None \notin Nat /\ None \notin Contents
BY SessionsAssumption DEF SessionsAssumption

\* A request that ends leaves the types of everything it touches.
LEMMA FinishTypes ==
  ASSUME TypeInv, NEW c \in Calls, NEW objects \in [Objects -> Object \cup {None}],
         \A o \in Objects : object[o] \in Object => objects[o] \in Object,
         Finish(c, objects), UNCHANGED table
  PROVE  /\ pc' \in [Calls -> Underway \cup {"idle", "end"}]
         /\ request' \in [Calls -> Request \cup {None}]
         /\ \A d \in Calls : pc'[d] \in Underway => request'[d] \in Request
         /\ state' \in [Calls -> Objects \cup {None}]
         /\ \A d \in Calls : state'[d] \in Objects <=> pc'[d] \in Working
         /\ dir' \in [Calls -> Roots \cup Args \cup {None}]
         /\ old' \in [Calls -> Contents \cup {None}]
         /\ new' \in [Calls -> Contents \cup {None}]
         /\ \A d \in Calls : pc'[d] \in {"peek", "store", "note"} => new'[d] \in Contents
         /\ \A d \in Calls : pc'[d] = "note" => old'[d] \in Contents
         /\ object' \in [Objects -> Object \cup {None}]
         /\ \A s \in Ids : table'[s] \in Objects => object'[table'[s]] \in Object
         /\ \A d \in Calls : state'[d] \in Objects => object'[state'[d]] \in Object
<1> USE NoneIsNoObject DEF TypeInv, Finish, Goto, Underway, Working, Tools
<1>1. /\ pc' = [pc EXCEPT ![c] = "end"]
      /\ request' = [request EXCEPT ![c] = None]
      /\ state' = [state EXCEPT ![c] = None]
      /\ dir' = [dir EXCEPT ![c] = None]
      /\ old' = [old EXCEPT ![c] = None]
      /\ new' = [new EXCEPT ![c] = None]
      /\ object' = Shared(objects, table, state')
  OBVIOUS
<1>2. /\ pc' \in [Calls -> Underway \cup {"idle", "end"}]
      /\ request' \in [Calls -> Request \cup {None}]
      /\ \A d \in Calls : pc'[d] \in Underway => request'[d] \in Request
  BY <1>1
<1>3. /\ state' \in [Calls -> Objects \cup {None}]
      /\ \A d \in Calls : state'[d] \in Objects <=> pc'[d] \in Working
  BY <1>1
<1>4. /\ dir' \in [Calls -> Roots \cup Args \cup {None}]
      /\ old' \in [Calls -> Contents \cup {None}]
      /\ new' \in [Calls -> Contents \cup {None}]
      /\ \A d \in Calls : pc'[d] \in {"peek", "store", "note"} => new'[d] \in Contents
      /\ \A d \in Calls : pc'[d] = "note" => old'[d] \in Contents
  BY <1>1
<1>5. object' \in [Objects -> Object \cup {None}]
  BY <1>1 DEF Shared
<1>6. \A s \in Ids : table[s] \in Objects => object'[table[s]] \in Object
  BY <1>1, SharedKeeps
<1>7. ASSUME NEW d \in Calls, state'[d] \in Objects PROVE object'[state'[d]] \in Object
  <2>1. state'[d] = state[d]
    BY <1>1, <1>7
  <2>2. object'[state'[d]] = objects[state'[d]]
    <3> DEFINE o == state'[d]
    <3>1. o \in Objects /\ \E e \in Calls : state'[e] = o
      BY <1>7
    <3> HIDE DEF o
    <3>2. object'[o] = objects[o]
      BY <1>1, <3>1 DEF Shared
    <3> QED
      BY <3>2 DEF o
  <2> QED
    BY <2>1, <2>2, <1>7
<1> QED
  BY <1>2, <1>3, <1>4, <1>5, <1>6, <1>7

\* The anchors, arguments and epochs of requests as they arrive.
LEMMA ArriveTypes ==
  ASSUME TypeInv, NEW r \in Requests
  PROVE  [id |-> r.id, root |-> r.root, epoch |-> Sent(r), tool |-> r.tool,
          arg |-> r.arg] \in Request
BY SessionsAssumption DEF SessionsAssumption, TypeInv, Sent, Request, Roots, Args

\* An object is changed in one field at a time, or created.
LEMMA ObjectFields ==
  ASSUME NEW o \in Object
  PROVE  /\ \A v \in Args \cup {None} : [o EXCEPT !.current = v] \in Object
         /\ \A v \in Contents \cup {None} : [o EXCEPT !.cache = v] \in Object
         /\ \A u \in Nat, e \in Nat \cup {None}, v \in Contents \cup {None} :
              [o EXCEPT !.used = u, !.epoch = e, !.cache = v] \in Object
BY DEF Object

\* The session table's step leaves the types.
LEMMA EnterTypes == ASSUME TypeInv, NEW c \in Calls, Enter(c) PROVE TypeInv'
<1> DEFINE r == request[c]
           o == table[r.id]
<1>1. /\ pc[c] = "enter" /\ pc' = [pc EXCEPT ![c] = r.tool]
      /\ stamp' = [stamp EXCEPT ![c] = 0]
      /\ UNCHANGED <<clock, disk, request, old, new, client, chosen>>
  BY DEF Enter, Goto
<1>2. r \in Request /\ o \in Objects \cup {None} /\ r.tool \in Tools
  BY <1>1 DEF TypeInv, Underway, Request
<1> USE NoneIsNoObject DEF TypeInv, Underway, Working, Tools, client
<1>3. \A d \in Calls : pc'[d] \in Underway => request'[d] \in Request
  BY <1>1, <1>2
<1>4. /\ pc' \in [Calls -> Underway \cup {"idle", "end"}]
      /\ \A d \in Calls : pc'[d] \in {"peek", "store", "note"} => new'[d] \in Contents
      /\ \A d \in Calls : pc'[d] = "note" => old'[d] \in Contents
  BY <1>1, <1>2
<1>5. CASE Reuse(c, r, o)
  <2>1. /\ state' = [state EXCEPT ![c] = o] /\ o \in Objects /\ object[o] \in Object
        /\ dir' = [dir EXCEPT ![c] = Current(object[o])] /\ UNCHANGED table
    BY <1>2, <1>5 DEF Reuse, Request
  <2>2. object' = [object EXCEPT ![o] =
           [object[o] EXCEPT !.used = stamp[c], !.epoch = r.epoch,
                             !.cache = CacheUnder(object[o], r)]]
    BY <1>5 DEF Reuse
  <2>3. CacheUnder(object[o], r) \in Contents \cup {None}
    BY <2>1 DEF CacheUnder, Object
  <2>4. object'[o] \in Object
    BY <1>2, <2>1, <2>2, <2>3, ObjectFields DEF Request
  <2>5. Current(object[o]) \in Roots \cup Args \cup {None}
    BY <2>1 DEF Current, Object
  <2> HIDE DEF o, r
  <2>6. object' \in [Objects -> Object \cup {None}]
    BY <2>1, <2>2, <2>4
  <2>7. /\ \A s \in Ids : table'[s] \in Objects => object'[table'[s]] \in Object
        /\ \A d \in Calls : state'[d] \in Objects => object'[state'[d]] \in Object
    BY <2>1, <2>2, <2>4
  <2>8. /\ state' \in [Calls -> Objects \cup {None}]
        /\ dir' \in [Calls -> Roots \cup Args \cup {None}]
        /\ \A d \in Calls : state'[d] \in Objects <=> pc'[d] \in Working
    BY <1>1, <1>2, <2>1, <2>5
  <2> QED
    BY <1>1, <1>3, <1>4, <2>1, <2>6, <2>7, <2>8
<1>6. CASE Create(c, r, o)
  <2> DEFINE n == Named(c, r)
             fresh == [root |-> r.root, current |-> None, epoch |-> r.epoch,
                       cache |-> None, used |-> stamp[c]]
             objects == [object EXCEPT ![n] = fresh]
  <2>1. n \in Objects
    BY DEF Named, Objects
  <2>2. fresh \in Object
    BY <1>2 DEF Object, Request
  <2>3. /\ state' = [state EXCEPT ![c] = n] /\ dir' = [dir EXCEPT ![c] = r.root]
        /\ object' = Shared(objects, table', state')
        /\ table' \in [Ids -> Objects \cup {None}]
        /\ \A s \in Ids : table'[s] \in {n, None, table[s]}
    BY <1>6, <2>1 DEF Create
  <2> HIDE DEF n, fresh, r, o
  <2>4. objects \in [Objects -> Object \cup {None}]
    BY <2>1, <2>2
  <2> HIDE DEF objects
  <2>5. object' \in [Objects -> Object \cup {None}]
    BY <2>3, <2>4 DEF Shared
  <2>6. \A x \in Objects :
          x = n \/ object[x] \in Object => objects[x] \in Object
    BY <2>1, <2>2 DEF objects
  <2>7. ASSUME NEW s \in Ids, table'[s] \in Objects PROVE object'[table'[s]] \in Object
    <3>1. objects[table'[s]] \in Object
      BY <2>3, <2>6, <2>7
    <3> QED
      BY <2>3, <2>7, <3>1 DEF Shared
  <2>8. ASSUME NEW d \in Calls, state'[d] \in Objects PROVE object'[state'[d]] \in Object
    <3>1. objects[state'[d]] \in Object
      BY <2>1, <2>3, <2>6, <2>8
    <3> QED
      BY <2>3, <2>8, <3>1 DEF Shared
  <2>9. /\ state' \in [Calls -> Objects \cup {None}]
        /\ dir' \in [Calls -> Roots \cup Args \cup {None}]
        /\ \A d \in Calls : state'[d] \in Objects <=> pc'[d] \in Working
    BY <1>1, <1>2, <2>1, <2>3 DEF Request
  <2> QED
    BY <1>1, <1>3, <1>4, <2>3, <2>5, <2>7, <2>8, <2>9
<1> QED
  BY <1>5, <1>6 DEF Enter

\* The types of the table, the state objects and the requests.
LEMMA TypeInvCorrect == Spec => []TypeInv
<1>1. Init => TypeInv
  BY NoneIsNoObject DEF Init, TypeInv, Underway, Working, Tools
<1>2. TypeInv /\ [Next]_vars => TypeInv'
  <2> SUFFICES ASSUME TypeInv, [Next]_vars PROVE TypeInv'
    OBVIOUS
  <2> USE NoneIsNoObject DEF client
  <2> DEFINE Kept(objects) ==
        /\ objects \in [Objects -> Object \cup {None}]
        /\ \A o \in Objects : object[o] \in Object => objects[o] \in Object
  <2>0. Kept(object)
    BY DEF TypeInv
  <2>a. ASSUME NEW c \in Calls, pc[c] \in Working
        PROVE  /\ request[c] \in Request /\ state[c] \in Objects
               /\ object[state[c]] \in Object
               /\ \A v \in Args \cup {None} : Kept([object EXCEPT ![state[c]].current = v])
               /\ \A v \in Contents \cup {None} : Kept([object EXCEPT ![state[c]].cache = v])
    <3>1. /\ request[c] \in Request /\ state[c] \in Objects
          /\ object[state[c]] \in Object /\ object \in [Objects -> Object \cup {None}]
      BY <2>a DEF TypeInv, Underway
    <3> QED
      BY <3>1, ObjectFields
  <2>1. ASSUME NEW c \in Calls, NEW r \in Requests, Arrive(c, r) PROVE TypeInv'
    <3> USE DEF TypeInv, Underway, Working, Tools
    <3>1. request' \in [Calls -> Request \cup {None}]
      BY <2>1, ArriveTypes DEF Arrive
    <3>2. \A d \in Calls : pc'[d] \in Underway => request'[d] \in Request
      BY <2>1, ArriveTypes DEF Arrive, Goto
    <3> QED
      BY <2>1, <3>1, <3>2 DEF Arrive, Goto
  <2>2. ASSUME NEW c \in Calls, Refuse(c) PROVE TypeInv'
    BY <2>2 DEF Refuse, Goto, TypeInv, Underway, Working, Tools
  <2>3. ASSUME NEW c \in Calls, Enter(c) PROVE TypeInv'
    BY <2>3, EnterTypes
  <2>4. ASSUME NEW c \in Calls, Workdir(c) PROVE TypeInv'
    <3> USE DEF Working, Tools
    <3> DEFINE v == IF Arg(c) = "reset" THEN None ELSE Arg(c)
    <3>1. request[c] \in Request /\ Arg(c) \in Args /\ v \in Args \cup {None}
      BY <2>4, <2>a DEF Workdir, Arg, Request
    <3>2. chosen' \in [Ids -> SUBSET (Roots \X Args)]
      BY <2>4, <3>1 DEF Workdir, TypeInv, Request
    <3>3. PICK objects : Kept(objects) /\ Finish(c, objects)
      BY <2>0, <2>4, <2>a, <3>1 DEF Workdir
    <3> QED
      BY <2>4, <3>2, <3>3, FinishTypes DEF Workdir, TypeInv
  <2>5. ASSUME NEW c \in Calls, Shell(c) PROVE TypeInv'
    BY <2>0, <2>5, FinishTypes DEF Shell, TypeInv
  <2>6. ASSUME NEW c \in Calls, Read(c) PROVE TypeInv'
    BY <2>6 DEF Read, Goto, TypeInv, Underway, Working, Tools
  <2>7. ASSUME NEW c \in Calls, Peek(c) PROVE TypeInv'
    <3> USE DEF TypeInv, Underway, Working, Tools
    <3>1. object[state[c]].cache \in Contents \cup {None}
      BY <2>7, <2>a DEF Peek, Object
    <3> QED
      BY <2>7, <3>1 DEF Peek, Goto
  <2>8. ASSUME NEW c \in Calls, Store(c) PROVE TypeInv'
    <3> DEFINE v == Cached(object[state[c]], new[c])
    <3>1. new[c] \in Contents /\ request[c].id \in Ids
      BY <2>8, <2>a DEF Store, TypeInv, Request, Working
    <3>2. v \in Contents \cup {None}
      BY <3>1 DEF Cached
    <3>3. Kept([object EXCEPT ![state[c]].cache = v])
      BY <2>8, <2>a, <3>2 DEF Store, Working
    <3>4. known' \in [Ids -> SUBSET Contents]
      BY <2>8, <3>1 DEF Store, Learn, TypeInv
    <3> QED
      BY <2>8, <3>3, <3>4, FinishTypes DEF Store, TypeInv
  <2>9. ASSUME NEW c \in Calls, Write(c) PROVE TypeInv'
    <3>1. CASE Finish(c, object) /\ UNCHANGED disk
      BY <2>0, <2>9, <3>1, FinishTypes DEF Write, TypeInv
    <3>2. CASE \E content \in Contents \ {disk} :
                 /\ disk' = content
                 /\ old' = [old EXCEPT ![c] = disk]
                 /\ new' = [new EXCEPT ![c] = content]
                 /\ Goto(c, "note")
                 /\ UNCHANGED <<request, state, dir, object>>
      BY <2>9, <3>2 DEF Write, Goto, TypeInv, Underway, Working, Tools
    <3> QED
      BY <2>9, <3>1, <3>2 DEF Write
  <2>10. ASSUME NEW c \in Calls, Note(c) PROVE TypeInv'
    <3> DEFINE v == IF object[state[c]].cache = old[c]
                    THEN Cached(object[state[c]], new[c]) ELSE None
    <3>1. /\ new[c] \in Contents /\ old[c] \in Contents
          /\ request[c] \in Request /\ request[c].id \in Ids
          /\ state[c] \in Objects /\ object[state[c]] \in Object
      BY <2>10, <2>a DEF Note, TypeInv, Request, Working
    <3>2. v \in Contents \cup {None}
      BY <3>1 DEF Cached
    <3>3. Noted(c) = [object EXCEPT ![state[c]].cache = v]
      BY <3>1 DEF Noted, TypeInv, Object
    <3>4. Kept(Noted(c))
      BY <2>10, <2>a, <3>2, <3>3 DEF Note, Working
    <3>5. known' \in [Ids -> SUBSET Contents]
      BY <2>10, <3>1 DEF Note, Learn, TypeInv
    <3>6. CASE Arg(c) = "check"
      <4>1. /\ stamp' = [stamp EXCEPT ![c] = clock] /\ clock' = clock + 1
            /\ request' = [request EXCEPT ![c].tool = "shell"]
            /\ state' = [state EXCEPT ![c] = None]
            /\ old' = [old EXCEPT ![c] = None] /\ new' = [new EXCEPT ![c] = None]
            /\ object' = Shared(Noted(c), table, state')
            /\ pc' = [pc EXCEPT ![c] = "enter"]
            /\ UNCHANGED <<dir, table, disk, epoch, chosen, astray>>
        BY <2>10, <3>6 DEF Note, Goto
      <4>2. [request[c] EXCEPT !.tool = "shell"] \in Request
        BY <3>1 DEF Request, Tools
      <4> USE DEF TypeInv, Underway, Working, Tools
      <4>3. /\ request' \in [Calls -> Request \cup {None}]
            /\ \A d \in Calls : pc'[d] \in Underway => request'[d] \in Request
        BY <4>1, <4>2
      <4>4. object' \in [Objects -> Object \cup {None}]
        BY <3>4, <4>1 DEF Shared
      <4>5. \A s \in Ids : table'[s] \in Objects => object'[table'[s]] \in Object
        BY <3>4, <4>1 DEF Shared
      <4>6. ASSUME NEW d \in Calls, state'[d] \in Objects
            PROVE  object'[state'[d]] \in Object
        <5>1. state'[d] = state[d]
          BY <4>1, <4>6
        <5>2. Noted(c)[state'[d]] \in Object
          BY <3>4, <4>6, <5>1
        <5> QED
          BY <4>1, <4>6, <5>2 DEF Shared
      <4>7. \A d \in Calls : state'[d] \in Objects <=> pc'[d] \in Working
        BY <4>1
      <4>8. /\ \A d \in Calls : pc'[d] \in {"peek", "store", "note"} => new'[d] \in Contents
            /\ \A d \in Calls : pc'[d] = "note" => old'[d] \in Contents
        BY <4>1
      <4>9. /\ pc' \in [Calls -> Underway \cup {"idle", "end"}]
            /\ old' \in [Calls -> Contents \cup {None}]
            /\ new' \in [Calls -> Contents \cup {None}]
            /\ state' \in [Calls -> Objects \cup {None}]
            /\ clock' \in Nat /\ stamp' \in [Calls -> Nat]
            /\ UNCHANGED <<table, dir, disk, epoch, chosen, astray>>
        BY <4>1
      <4> HIDE DEF Underway, Working, Tools
      <4> QED
        BY <3>5, <4>3, <4>4, <4>5, <4>6, <4>7, <4>8, <4>9
    <3>7. CASE Arg(c) # "check"
      BY <2>10, <3>4, <3>5, <3>7, FinishTypes DEF Note, TypeInv
    <3> QED
      BY <3>6, <3>7
  <2>11. ASSUME NEW s \in Ids, Compact(s) PROVE TypeInv'
    BY <2>11 DEF Compact, TypeInv
  <2>12. ASSUME NEW content \in Contents, Change(content) PROVE TypeInv'
    BY <2>12 DEF Change, TypeInv
  <2>13. CASE UNCHANGED vars
    BY <2>13 DEF vars, TypeInv
  <2> QED
    BY <2>1, <2>2, <2>3, <2>4, <2>5, <2>6, <2>7, <2>8, <2>9, <2>10, <2>11, <2>12, <2>13
    DEF Next, Terminated
<1> QED
  BY <1>1, <1>2, PTL DEF Spec

------------------------------------------------------------------------------
\* A set of stamps has a least one.
LEMMA LeastStamp ==
  ASSUME NEW T, T \subseteq Nat, T # {}
  PROVE  \E u \in T : \A v \in T : u <= v
<1> DEFINE R == {p \in Nat \X Nat : p[1] < p[2]}
<1>1. IsWellFoundedOn(R, Nat)
  BY NatLessThanWellFounded DEF OpToRel
<1>2. \A u, v \in Nat : <<v, u>> \in R <=> v < u
  OBVIOUS
<1> HIDE DEF R
<1>3. PICK u \in T : \A v \in T : ~(<<v, u>> \in R)
  BY <1>1, WFMin, Zenon
<1>4. ASSUME NEW v \in T PROVE u <= v
  <2>1. u \in Nat /\ v \in Nat /\ ~(<<v, u>> \in R)
    BY <1>3, <1>4
  <2>2. ~(v < u)
    BY <1>2, <2>1
  <2> QED
    BY <2>1, <2>2
<1> QED
  BY <1>4

\* A table that tracks any session has a least recently used one.
LEMMA OldestIsTracked == ASSUME TypeInv, Tracked # {} PROVE Oldest \in Tracked
<1> DEFINE Used(s) == object[table[s]].used
           T == {Used(s) : s \in Tracked}
<1>1. \A s \in Tracked : Used(s) \in Nat
  BY DEF TypeInv, Tracked, Object
<1>2. PICK u \in T : \A v \in T : u <= v
  <2> HIDE DEF Used
  <2>1. T \subseteq Nat /\ T # {}
    BY <1>1
  <2> QED
    BY <2>1, LeastStamp
<1>3. \E s \in Tracked : \A t \in Tracked : Used(s) <= Used(t)
  BY <1>2
<1> QED
  BY <1>3 DEF Oldest

\* Making room keeps the table within its limit.
LEMMA CreateKeepsLimit ==
  ASSUME TypeInv, IsFiniteSet(Tracked), WithinLimit,
         NEW c \in Calls, NEW r \in Request, Create(c, r, table[r.id])
  PROVE  IsFiniteSet(Tracked') /\ Cardinality(Tracked') <= MaxSessions
<1> DEFINE n == Named(c, r)
<1>1. n \in Objects /\ n # None
  BY NoneIsNoObject DEF Named, Objects
<1>2. r.id \in Ids /\ MaxSessions \in Nat \ {0}
  BY SessionsAssumption DEF SessionsAssumption, Request
<1>3. table' = [s \in Ids |->
         IF s = r.id THEN n
         ELSE IF table[r.id] = None /\ IsFull /\ s = Oldest THEN None ELSE table[s]]
  BY DEF Create
<1>4. Cardinality(Tracked) \in Nat
  BY FS_CardinalityType
<1> HIDE DEF n
<1>5. CASE table[r.id] # None
  <2>1. Tracked' = Tracked
    BY <1>1, <1>2, <1>3, <1>5 DEF Tracked
  <2> QED
    BY <2>1 DEF WithinLimit
<1>6. CASE table[r.id] = None /\ ~IsFull
  <2>1. Tracked' = Tracked \cup {r.id} /\ r.id \notin Tracked
    BY <1>1, <1>2, <1>3, <1>6 DEF Tracked
  <2>2. IsFiniteSet(Tracked') /\ Cardinality(Tracked') = Cardinality(Tracked) + 1
    BY <2>1, FS_AddElement
  <2> QED
    BY <1>2, <1>4, <1>6, <2>2 DEF IsFull
<1>7. CASE table[r.id] = None /\ IsFull
  <2>1. Oldest \in Tracked
    <3>1. Tracked # {}
      BY <1>2, <1>7, FS_EmptySet DEF IsFull
    <3> QED
      BY <3>1, OldestIsTracked
  <2> DEFINE rest == Tracked \ {Oldest}
  <2>2. Tracked' = rest \cup {r.id} /\ r.id \notin rest
    BY <1>1, <1>2, <1>3, <1>7, <2>1 DEF Tracked
  <2>3. IsFiniteSet(rest) /\ Cardinality(rest) = Cardinality(Tracked) - 1
    BY <2>1, FS_RemoveElement
  <2> HIDE DEF rest
  <2>4. IsFiniteSet(Tracked') /\ Cardinality(Tracked') = Cardinality(rest) + 1
    BY <2>2, <2>3, FS_AddElement
  <2> QED
    BY <1>2, <1>4, <2>3, <2>4 DEF WithinLimit
<1> QED
  BY <1>5, <1>6, <1>7

\* The table never tracks more sessions than its limit, for any limit and any
\* requests between stamp and lock.
THEOREM WithinLimitCorrect == Spec => []WithinLimit
<1> DEFINE LimitInv == IsFiniteSet(Tracked) /\ WithinLimit
<1>1. Init => LimitInv
  <2>1. Init => Tracked = {}
    BY DEF Init, Tracked
  <2> QED
    BY <2>1, FS_EmptySet, SessionsAssumption DEF WithinLimit, SessionsAssumption
<1>2. TypeInv /\ LimitInv /\ [Next]_vars => LimitInv'
  <2> SUFFICES ASSUME TypeInv, LimitInv, [Next]_vars PROVE LimitInv'
    OBVIOUS
  <2>1. ASSUME UNCHANGED table PROVE LimitInv'
    BY <2>1 DEF WithinLimit, Tracked
  <2>2. ASSUME NEW c \in Calls, Enter(c) PROVE LimitInv'
    <3>1. request[c] \in Request
      BY <2>2 DEF Enter, TypeInv, Underway
    <3>2. CASE Reuse(c, request[c], table[request[c].id])
      BY <2>1, <3>2 DEF Reuse
    <3>3. CASE Create(c, request[c], table[request[c].id])
      BY <3>1, <3>3, CreateKeepsLimit DEF WithinLimit
    <3> QED
      BY <2>2, <3>2, <3>3 DEF Enter
  <2>3. [Next]_vars => UNCHANGED table \/ \E c \in Calls : Enter(c)
    BY DEF Next, Arrive, Refuse, Workdir, Shell, Read, Peek, Store, Write, Note,
           Compact, Change, Terminated, vars
  <2> QED
    BY <2>1, <2>2, <2>3
<1> QED
  BY <1>1, <1>2, TypeInvCorrect, PTL DEF Spec

------------------------------------------------------------------------------
\* What a step of request c other than its look-up does to the sessions'
\* objects: nobody gets a new reference, anchors stay, and a directory that is
\* set is on record.
NoNewRef ==
  \A o \in Objects, s \in Ids :
    Ref(o, s)' =>
      /\ Ref(o, s)
      /\ object'[o].root = object[o].root
      /\ object'[o].current # None => <<object[o].root, object'[o].current>> \in chosen'[s]

OthersWait(c) ==
  \A d \in Calls \ {c} :
    /\ pc'[d] = pc[d] /\ request'[d] = request[d]
    /\ state'[d] = state[d] /\ dir'[d] = dir[d]

ChosenStay == \A s \in Ids : chosen[s] \subseteq chosen'[s]

\* A request goes on with its tool, its object and its directory, ...
GoesOn(c) ==
  /\ pc[c] \in Working /\ pc'[c] \in Working
  /\ pc[c] \notin {"shell"} /\ UNCHANGED <<request, state, dir>>
  /\ pc'[c] \in {"edit", "note"} => pc[c] \in {"edit", "note"}
  /\ pc'[c] # "shell"

\* ... or is answered, ...
IsOver(c) == pc'[c] = "end" /\ dir'[c] = None

\* ... or goes to look its session up again for the shell.
GoesBack(c) ==
  /\ pc[c] = "note" /\ pc'[c] = "enter" /\ dir'[c] = dir[c]
  /\ request'[c] = [request[c] EXCEPT !.tool = "shell"]

\* Such a step keeps the invariant.
LEMMA SessionStep ==
  ASSUME TypeInv, TypeInv', SessionInv, NEW c \in Calls, NoNewRef, OthersWait(c), ChosenStay,
         GoesOn(c) \/ IsOver(c) \/ GoesBack(c)
  PROVE  SessionInv'
<1> USE DEF SessionInv
<1>0. \A d \in Calls : pc[d] \in Underway => request[d] \in Request /\ request[d].id \in Ids
  BY DEF TypeInv, Request
<1>a. ToolIsKept'
  <2> SUFFICES ASSUME NEW d \in Calls
               PROVE  /\ pc'[d] \in {"edit", "note"} => request'[d].tool = "edit"
                      /\ pc'[d] = "shell" => request'[d].tool = "shell"
    BY DEF ToolIsKept
  <2>1. CASE d # c
    BY <2>1 DEF ToolIsKept, OthersWait
  <2>2. CASE d = c
    BY <2>2 DEF ToolIsKept, GoesOn, IsOver, GoesBack
  <2> QED
    BY <2>1, <2>2
<1>b. NoneYet'
  <2> SUFFICES ASSUME NEW d \in Calls, pc'[d] \notin Underway PROVE dir'[d] = None
    BY DEF NoneYet
  <2>1. CASE d # c
    BY <2>1 DEF NoneYet, OthersWait
  <2>2. CASE d = c
    BY <2>2 DEF NoneYet, GoesOn, IsOver, GoesBack, Underway
  <2> QED
    BY <2>1, <2>2
<1>2. OneSession'
  BY DEF OneSession, NoNewRef
<1>3. NamedOnce'
  <2> SUFFICES ASSUME NEW d \in Calls, NEW s \in Ids
               PROVE  /\ Ref(<<d, "tool">>, s)' =>
                           /\ pc'[d] # "idle"
                           /\ pc'[d] = "enter" => request'[d].tool = "shell"
                      /\ Ref(<<d, "shell">>, s)' => pc'[d] \in {"shell", "end"}
    BY DEF NamedOnce
  <2>1. <<d, "tool">> \in Objects /\ <<d, "shell">> \in Objects
    BY DEF Objects
  <2>2. /\ Ref(<<d, "tool">>, s)' => Ref(<<d, "tool">>, s)
        /\ Ref(<<d, "shell">>, s)' => Ref(<<d, "shell">>, s)
    BY <2>1 DEF NoNewRef
  <2>3. CASE d # c
    BY <2>2, <2>3 DEF NamedOnce, OthersWait
  <2>4. CASE d = c
    BY <1>0, <2>2, <2>4 DEF NamedOnce, GoesOn, IsOver, GoesBack, Working, Underway, Tools, Request
  <2> QED
    BY <2>3, <2>4
<1>4. ObjectInv'
  BY DEF ObjectInv, NoNewRef
<1>5. HeldInv'
  <2> SUFFICES ASSUME NEW d \in Calls, pc'[d] \in Working
               PROVE  object'[state'[d]].root = request'[d].root
    BY DEF HeldInv
  <2>1. /\ pc[d] \in Working /\ state'[d] = state[d] /\ request'[d] = request[d]
    BY DEF OthersWait, GoesOn, IsOver, GoesBack, Working, Tools
  <2>2. state[d] \in Objects /\ request[d].id \in Ids
    <3>1. state[d] \in Objects
      BY <2>1 DEF TypeInv
    <3> QED
      BY <1>0, <2>1, <3>1 DEF Underway
  <2> DEFINE o == state[d]
             s == request[d].id
  <2>3. Ref(o, s)'
    BY <2>1 DEF Ref
  <2>4. object'[state[d]].root = object[state[d]].root
    BY <2>1, <2>2, <2>3 DEF NoNewRef
  <2> QED
    BY <2>1, <2>4 DEF HeldInv
<1>6. OwnDirectory'
  <2> SUFFICES ASSUME NEW d \in Calls, dir'[d] # None
               PROVE  \/ dir'[d] = request'[d].root
                      \/ <<request'[d].root, dir'[d]>> \in chosen'[request'[d].id]
    BY DEF OwnDirectory
  <2>1. dir'[d] = dir[d] /\ request'[d].root = request[d].root /\ request'[d].id = request[d].id
    <3>1. CASE d # c
      BY <3>1 DEF OthersWait
    <3>2. CASE d = c /\ GoesBack(c)
      BY <1>0, <3>2 DEF GoesBack, Underway, Working, Request
    <3>3. CASE d = c /\ ~GoesBack(c)
      BY <3>3 DEF GoesOn, IsOver
    <3> QED
      BY <3>1, <3>2, <3>3
  <2>2. request[d].id \in Ids
    BY <1>0, <2>1 DEF NoneYet
  <2> QED
    BY <2>1, <2>2 DEF OwnDirectory, ChosenStay
<1> QED
  BY <1>a, <1>b, <1>2, <1>3, <1>4, <1>5, <1>6

\* A look-up that finds the session's entry.
LEMMA ReuseStep ==
  ASSUME TypeInv, TypeInv', SessionInv, NEW c \in Calls, Enter(c),
         Reuse(c, request[c], table[request[c].id])
  PROVE  SessionInv'
<1> DEFINE r == request[c]
           x == table[r.id]
<1> USE DEF SessionInv
<1>1. /\ pc[c] = "enter" /\ r \in Request /\ r.id \in Ids /\ r.tool \in Tools
      /\ pc' = [pc EXCEPT ![c] = r.tool]
      /\ UNCHANGED <<request, chosen, table>>
  BY DEF Enter, Reuse, Goto, TypeInv, Underway, Request
<1>2. /\ x \in Objects /\ object[x] \in Object /\ object[x].root = r.root
      /\ state' = [state EXCEPT ![c] = x]
      /\ dir' = [dir EXCEPT ![c] = Current(object[x])]
  BY <1>1, NoneIsNoObject DEF Reuse, TypeInv, Matches
<1>3. \A o \in Objects : o # x => object'[o] = object[o]
  BY DEF Reuse, TypeInv
<1>4. /\ object'[x].root = object[x].root
      /\ object'[x].current = object[x].current
  BY <1>2 DEF Reuse, TypeInv, Object
<1>5. \A d \in Calls \ {c} : pc'[d] = pc[d] /\ state'[d] = state[d] /\ dir'[d] = dir[d]
  BY <1>1, <1>2 DEF TypeInv
<1>6. pc'[c] = r.tool /\ state'[c] = x /\ dir'[c] = Current(object[x])
  BY <1>1, <1>2 DEF TypeInv
<1>7. Ref(x, r.id)
  BY DEF Ref
<1> HIDE DEF r, x
<1>8. \A o \in Objects, s \in Ids : Ref(o, s)' => Ref(o, s)
  <2> SUFFICES ASSUME NEW o \in Objects, NEW s \in Ids, Ref(o, s)' PROVE Ref(o, s)
    OBVIOUS
  <2>1. CASE table[s] = o
    BY <2>1 DEF Ref
  <2>2. ASSUME NEW d \in Calls, state'[d] = o, request[d].id = s PROVE Ref(o, s)
    BY <1>5, <1>6, <1>7, <2>2 DEF Ref, r
  <2> QED
    BY <1>1, <2>1, <2>2 DEF Ref
<1>9. ToolIsKept' /\ NoneYet'
  <2>1. ToolIsKept'
    BY <1>1, <1>5, <1>6 DEF ToolIsKept, Tools, r
  <2>2. NoneYet'
    BY <1>1, <1>5, <1>6 DEF NoneYet, Underway, Working
  <2> QED
    BY <2>1, <2>2
<1>10. OneSession'
  BY <1>8 DEF OneSession
<1>11. NamedOnce'
  <2> SUFFICES ASSUME NEW d \in Calls, NEW s \in Ids
               PROVE  /\ Ref(<<d, "tool">>, s)' =>
                           /\ pc'[d] # "idle"
                           /\ pc'[d] = "enter" => request'[d].tool = "shell"
                      /\ Ref(<<d, "shell">>, s)' => pc'[d] \in {"shell", "end"}
    BY DEF NamedOnce
  <2>1. /\ Ref(<<d, "tool">>, s)' => Ref(<<d, "tool">>, s)
        /\ Ref(<<d, "shell">>, s)' => Ref(<<d, "shell">>, s)
    BY <1>8 DEF Objects
  <2> QED
    BY <1>1, <1>5, <1>6, <2>1 DEF NamedOnce, Tools
<1>12. ObjectInv'
  BY <1>1, <1>3, <1>4, <1>8 DEF ObjectInv
<1>13. HeldInv'
  <2> SUFFICES ASSUME NEW d \in Calls, pc'[d] \in Working
               PROVE  object'[state'[d]].root = request'[d].root
    BY DEF HeldInv
  <2>1. CASE d = c
    BY <1>1, <1>2, <1>4, <1>6, <2>1 DEF r
  <2>2. CASE d # c
    BY <1>1, <1>3, <1>4, <1>5, <2>2 DEF HeldInv, TypeInv
  <2> QED
    BY <2>1, <2>2
<1>14. OwnDirectory'
  <2> SUFFICES ASSUME NEW d \in Calls, dir'[d] # None
               PROVE  \/ dir'[d] = request'[d].root
                      \/ <<request'[d].root, dir'[d]>> \in chosen'[request'[d].id]
    BY DEF OwnDirectory
  <2>1. CASE d = c
    BY <1>1, <1>2, <1>6, <1>7, <2>1 DEF Current, ObjectInv, r
  <2>2. CASE d # c
    BY <1>1, <1>5, <2>2 DEF OwnDirectory
  <2> QED
    BY <2>1, <2>2
<1> QED
  BY <1>9, <1>10, <1>11, <1>12, <1>13, <1>14

\* A look-up that creates a state object: its name is new.
LEMMA CreateStep ==
  ASSUME TypeInv, TypeInv', SessionInv, NEW c \in Calls, Enter(c),
         Create(c, request[c], table[request[c].id])
  PROVE  SessionInv'
<1> DEFINE r == request[c]
           n == Named(c, r)
           fresh == [root |-> r.root, current |-> None, epoch |-> r.epoch,
                     cache |-> None, used |-> stamp[c]]
           objects == [object EXCEPT ![n] = fresh]
<1> USE DEF SessionInv
<1>1. /\ pc[c] = "enter" /\ r \in Request /\ r.id \in Ids /\ r.tool \in Tools
      /\ pc' = [pc EXCEPT ![c] = r.tool]
      /\ UNCHANGED <<request, chosen>>
  BY DEF Enter, Goto, TypeInv, Underway, Request
<1>2. n \in Objects /\ n = <<c, IF r.tool = "shell" THEN "shell" ELSE "tool">>
  BY DEF Named, Objects
<1>3. \A s \in Ids : ~Ref(n, s)
  BY <1>1, <1>2 DEF NamedOnce
<1>4. /\ state' = [state EXCEPT ![c] = n] /\ dir' = [dir EXCEPT ![c] = r.root]
      /\ \A s \in Ids : table'[s] \in {None, table[s]} \/ (s = r.id /\ table'[s] = n)
      /\ object' = Shared(objects, table', state')
  BY DEF Create
<1>5. \A d \in Calls \ {c} : pc'[d] = pc[d] /\ state'[d] = state[d] /\ dir'[d] = dir[d]
  BY <1>1, <1>4 DEF TypeInv
<1>6. pc'[c] = r.tool /\ state'[c] = n /\ dir'[c] = r.root
  BY <1>1, <1>4 DEF TypeInv
<1>7. fresh.root = r.root /\ fresh.current = None
  OBVIOUS
<1>8. objects[n] = fresh /\ \A o \in Objects : o # n => objects[o] = object[o]
  BY <1>2 DEF TypeInv
<1> HIDE DEF r, n, fresh, objects
<1>9. \A o \in Objects, s \in Ids :
        Ref(o, s)' => (o = n /\ s = r.id) \/ (o # n /\ Ref(o, s))
  <2> SUFFICES ASSUME NEW o \in Objects, NEW s \in Ids, Ref(o, s)'
               PROVE  (o = n /\ s = r.id) \/ (o # n /\ Ref(o, s))
    OBVIOUS
  <2>1. CASE table'[s] = o
    BY <1>3, <1>4, <2>1, NoneIsNoObject DEF Ref
  <2>2. ASSUME NEW d \in Calls, state'[d] = o, request[d].id = s
        PROVE  (o = n /\ s = r.id) \/ (o # n /\ Ref(o, s))
    BY <1>3, <1>5, <1>6, <2>2 DEF Ref, r
  <2> QED
    BY <1>1, <2>1, <2>2 DEF Ref
<1>10. \A o \in Objects, s \in Ids : Ref(o, s)' => object'[o] = objects[o]
  BY <1>4 DEF Ref, Shared
<1>11. ToolIsKept' /\ NoneYet'
  <2>1. ToolIsKept'
    BY <1>1, <1>5, <1>6 DEF ToolIsKept, Tools, r
  <2>2. NoneYet'
    BY <1>1, <1>5, <1>6 DEF NoneYet, Underway, Working
  <2> QED
    BY <2>1, <2>2
<1>12. OneSession'
  BY <1>9 DEF OneSession
<1>13. NamedOnce'
  <2> SUFFICES ASSUME NEW d \in Calls, NEW s \in Ids
               PROVE  /\ Ref(<<d, "tool">>, s)' =>
                           /\ pc'[d] # "idle"
                           /\ pc'[d] = "enter" => request'[d].tool = "shell"
                      /\ Ref(<<d, "shell">>, s)' => pc'[d] \in {"shell", "end"}
    BY DEF NamedOnce
  <2>1. <<d, "tool">> \in Objects /\ <<d, "shell">> \in Objects
    BY DEF Objects
  <2>2. CASE d = c
    BY <1>1, <1>2, <1>6, <1>9, <2>1, <2>2 DEF NamedOnce, Tools
  <2>3. CASE d # c
    BY <1>1, <1>2, <1>5, <1>9, <2>1, <2>3 DEF NamedOnce
  <2> QED
    BY <2>2, <2>3
<1>14. ObjectInv'
  BY <1>1, <1>7, <1>8, <1>9, <1>10 DEF ObjectInv
<1>15. HeldInv'
  <2>1. ASSUME NEW d \in Calls, pc'[d] \in Working, NEW o \in Objects, NEW s \in Ids,
               state'[d] = o, request[d].id = s
        PROVE  object'[o].root = request[d].root
    <3>1. Ref(o, s)'
      BY <1>1, <2>1 DEF Ref
    <3>2. object'[o] = objects[o]
      BY <1>10, <3>1
    <3>3. CASE d = c
      BY <1>6, <1>7, <1>8, <2>1, <3>2, <3>3 DEF r
    <3>4. CASE d # c
      <4>1. state[d] = o /\ pc[d] \in Working
        BY <1>5, <2>1, <3>4
      <4>2. o # n
        BY <1>3, <2>1, <4>1 DEF Ref
      <4> QED
        BY <1>8, <2>1, <3>2, <4>1, <4>2 DEF HeldInv
    <3> QED
      BY <3>3, <3>4
  <2>2. \A d \in Calls : pc'[d] \in Working => state'[d] \in Objects /\ request[d].id \in Ids
    BY <1>1 DEF TypeInv, Underway, Request
  <2> QED
    BY <1>1, <2>1, <2>2 DEF HeldInv
<1>16. OwnDirectory'
  BY <1>1, <1>5, <1>6 DEF OwnDirectory, r
<1> QED
  BY <1>11, <1>12, <1>13, <1>14, <1>15, <1>16

\* A request that is answered gives up its object and nobody gets another.
LEMMA FinishRefs ==
  ASSUME TypeInv, NEW c \in Calls, NEW objects, Finish(c, objects), UNCHANGED table
  PROVE  /\ \A o \in Objects, s \in Ids : Ref(o, s)' => Ref(o, s) /\ object'[o] = objects[o]
         /\ OthersWait(c) /\ IsOver(c)
<1>1. /\ pc' = [pc EXCEPT ![c] = "end"]
      /\ request' = [request EXCEPT ![c] = None]
      /\ state' = [state EXCEPT ![c] = None]
      /\ dir' = [dir EXCEPT ![c] = None]
      /\ object' = Shared(objects, table, state')
  BY DEF Finish, Goto
<1>2. OthersWait(c) /\ IsOver(c)
  BY <1>1 DEF OthersWait, IsOver, TypeInv
<1>3. state'[c] = None
  BY <1>1 DEF TypeInv
<1>4. ASSUME NEW o \in Objects, NEW s \in Ids, Ref(o, s)'
      PROVE  Ref(o, s) /\ object'[o] = objects[o]
  <2>1. (\E t \in Ids : table[t] = o) \/ (\E d \in Calls : state'[d] = o)
    BY <1>4 DEF Ref
  <2>2. object'[o] = objects[o]
    BY <1>1, <2>1 DEF Shared
  <2>3. Ref(o, s)
    BY <1>2, <1>3, <1>4, NoneIsNoObject DEF Ref, OthersWait
  <2> QED
    BY <2>2, <2>3
<1> QED
  BY <1>2, <1>4

\* A step that leaves every object and what is on record gives no new reference.
LEMMA SameRefs ==
  ASSUME SessionInv, UNCHANGED <<table, object, chosen, request, state>>
  PROVE  NoNewRef /\ ChosenStay
BY DEF NoNewRef, ChosenStay, Ref, SessionInv, ObjectInv

\* Answering a request without touching a state object.
LEMMA JustAnswered ==
  ASSUME TypeInv, TypeInv', SessionInv, NEW c \in Calls, Finish(c, object),
         UNCHANGED <<table, chosen>>
  PROVE  SessionInv'
<1>1. /\ \A o \in Objects, s \in Ids : Ref(o, s)' => Ref(o, s) /\ object'[o] = object[o]
      /\ OthersWait(c) /\ IsOver(c)
  BY FinishRefs
<1>2. NoNewRef /\ ChosenStay
  BY <1>1 DEF NoNewRef, ChosenStay, SessionInv, ObjectInv
<1> QED
  BY <1>1, <1>2, SessionStep

\* Answering a request with its view cache changed.
LEMMA CacheAnswered ==
  ASSUME TypeInv, TypeInv', SessionInv, NEW c \in Calls, pc[c] \in Working, NEW v,
         Finish(c, [object EXCEPT ![state[c]].cache = v]), UNCHANGED <<table, chosen>>
  PROVE  SessionInv'
<1> DEFINE objects == [object EXCEPT ![state[c]].cache = v]
<1>1. /\ \A o \in Objects, s \in Ids : Ref(o, s)' => Ref(o, s) /\ object'[o] = objects[o]
      /\ OthersWait(c) /\ IsOver(c)
  BY FinishRefs
<1>2. \A o \in Objects : objects[o].root = object[o].root /\ objects[o].current = object[o].current
  <2>1. state[c] \in Objects /\ object[state[c]] \in Object /\ DOMAIN object = Objects
    BY DEF TypeInv
  <2> QED
    BY <2>1 DEF Object
<1> HIDE DEF objects
<1>3. NoNewRef /\ ChosenStay
  BY <1>1, <1>2 DEF NoNewRef, ChosenStay, SessionInv, ObjectInv
<1> QED
  BY <1>1, <1>3, SessionStep

\* A step of nobody's.
LEMMA StillStep ==
  ASSUME SessionInv, UNCHANGED <<table, object, pc, request, state, dir, chosen>>
  PROVE  SessionInv'
BY DEF SessionInv, ToolIsKept, NoneYet, OneSession, NamedOnce, ObjectInv, HeldInv, OwnDirectory,
       Ref

\* A request that arrives has no object and no directory yet.
LEMMA ArriveStep ==
  ASSUME TypeInv, SessionInv, NEW c \in Calls, NEW r \in Requests, Arrive(c, r)
  PROVE  SessionInv'
<1>1. /\ pc[c] = "idle" /\ pc'[c] = "enter" /\ dir[c] = None /\ state[c] \notin Objects
      /\ UNCHANGED <<table, object, state, dir, chosen>>
      /\ \A d \in Calls \ {c} : pc'[d] = pc[d] /\ request'[d] = request[d]
  BY DEF Arrive, Goto, TypeInv, SessionInv, NoneYet, Underway, Working, Tools
<1>2. \A o \in Objects, s \in Ids : Ref(o, s)' => Ref(o, s)
  BY <1>1 DEF Ref
<1> USE DEF SessionInv
<1>3. ToolIsKept' /\ NoneYet'
  BY <1>1 DEF ToolIsKept, NoneYet, Underway, Working, Tools
<1>4. OneSession' /\ ObjectInv'
  BY <1>1, <1>2 DEF OneSession, ObjectInv
<1>5. NamedOnce'
  <2> SUFFICES ASSUME NEW d \in Calls, NEW s \in Ids
               PROVE  /\ Ref(<<d, "tool">>, s)' =>
                           /\ pc'[d] # "idle"
                           /\ pc'[d] = "enter" => request'[d].tool = "shell"
                      /\ Ref(<<d, "shell">>, s)' => pc'[d] \in {"shell", "end"}
    BY DEF NamedOnce
  <2>1. /\ Ref(<<d, "tool">>, s)' => Ref(<<d, "tool">>, s)
        /\ Ref(<<d, "shell">>, s)' => Ref(<<d, "shell">>, s)
    BY <1>2 DEF Objects
  <2> QED
    BY <1>1, <2>1 DEF NamedOnce
<1>6. HeldInv' /\ OwnDirectory'
  BY <1>1 DEF HeldInv, OwnDirectory, Working, Tools
<1> QED
  BY <1>3, <1>4, <1>5, <1>6

\* workdir sets the directory of the request's own object, on record under the
\* anchor that object has.
LEMMA WorkdirStep ==
  ASSUME TypeInv, TypeInv', SessionInv, NEW c \in Calls, Workdir(c)
  PROVE  SessionInv'
<1> DEFINE v == IF Arg(c) = "reset" THEN None ELSE Arg(c)
           x == state[c]
           objects == [object EXCEPT ![x].current = v]
<1>1. /\ pc[c] = "workdir" /\ x \in Objects /\ object[x] \in Object
      /\ request[c] \in Request /\ request[c].id \in Ids /\ UNCHANGED table
  BY DEF Workdir, TypeInv, Working, Underway, Tools, Request
<1>2. CASE Finish(c, object) /\ UNCHANGED chosen
  BY <1>1, <1>2, JustAnswered
<1>3. CASE /\ Finish(c, objects)
           /\ chosen' = [chosen EXCEPT ![request[c].id] =
                           @ \cup {<<request[c].root, Arg(c)>>}]
  <2>1. /\ \A o \in Objects, s \in Ids : Ref(o, s)' => Ref(o, s) /\ object'[o] = objects[o]
        /\ OthersWait(c) /\ IsOver(c)
    BY <1>1, <1>3, FinishRefs
  <2>2. ChosenStay /\ <<request[c].root, Arg(c)>> \in chosen'[request[c].id]
    BY <1>1, <1>3 DEF ChosenStay, TypeInv
  <2>3. /\ objects[x].root = object[x].root /\ objects[x].current = v
        /\ \A o \in Objects : o # x => objects[o] = object[o]
    BY <1>1 DEF TypeInv, Object
  <2>4. object[x].root = request[c].root
    BY <1>1 DEF SessionInv, HeldInv, Working, Tools
  <2>5. Ref(x, request[c].id)
    BY DEF Ref
  <2>6. v # None => v = Arg(c)
    OBVIOUS
  <2> HIDE DEF x, v, objects
  <2>7. ASSUME NEW o \in Objects, NEW s \in Ids, Ref(o, s)'
        PROVE  /\ Ref(o, s)
               /\ object'[o].root = object[o].root
               /\ object'[o].current # None =>
                    <<object[o].root, object'[o].current>> \in chosen'[s]
    <3>1. Ref(o, s) /\ object'[o] = objects[o]
      BY <2>1, <2>7
    <3>2. CASE o # x
      BY <2>2, <2>3, <3>1, <3>2 DEF SessionInv, ObjectInv, ChosenStay
    <3>3. CASE o = x
      <4>1. s = request[c].id
        BY <1>1, <2>5, <3>1, <3>3 DEF SessionInv, OneSession
      <4> QED
        BY <2>2, <2>3, <2>4, <2>6, <3>1, <3>3, <4>1
    <3> QED
      BY <3>2, <3>3
  <2> QED
    BY <2>1, <2>2, <2>7, SessionStep DEF NoNewRef
<1> QED
  BY <1>2, <1>3 DEF Workdir

\* After an edit the request is answered, or goes through session() again.
LEMMA NoteStep ==
  ASSUME TypeInv, TypeInv', SessionInv, NEW c \in Calls, Note(c)
  PROVE  SessionInv'
<1> DEFINE v == IF object[state[c]].cache = old[c]
                THEN Cached(object[state[c]], new[c]) ELSE None
           objects == [object EXCEPT ![state[c]].cache = v]
<1>1. /\ pc[c] = "note" /\ state[c] \in Objects /\ object[state[c]] \in Object
      /\ request[c] \in Request /\ UNCHANGED <<table, chosen>>
  BY DEF Note, TypeInv, Working, Underway
<1>2. Noted(c) = objects
  BY DEF Noted
<1>3. CASE Finish(c, Noted(c))
  <2>1. Finish(c, objects)
    BY <1>2, <1>3 DEF Finish
  <2> QED
    BY <1>1, <2>1, CacheAnswered DEF Working
<1>4. CASE /\ request' = [request EXCEPT ![c].tool = "shell"]
           /\ state' = [state EXCEPT ![c] = None]
           /\ object' = Shared(Noted(c), table, state')
           /\ Goto(c, "enter")
           /\ UNCHANGED dir
  <2>1. /\ OthersWait(c) /\ GoesBack(c) /\ state'[c] = None
    BY <1>1, <1>4 DEF Goto, OthersWait, GoesBack, TypeInv
  <2>2. \A o \in Objects : objects[o].root = object[o].root /\ objects[o].current = object[o].current
    BY <1>1 DEF TypeInv, Object
  <2> HIDE DEF objects
  <2>3. ASSUME NEW o \in Objects, NEW s \in Ids, Ref(o, s)'
        PROVE  Ref(o, s) /\ object'[o] = objects[o]
    <3>1. (\E t \in Ids : table[t] = o) \/ (\E d \in Calls : state'[d] = o)
      BY <1>1, <2>3 DEF Ref
    <3>2. object'[o] = objects[o]
      BY <1>2, <1>4, <3>1 DEF Shared
    <3>3. Ref(o, s)
      BY <1>1, <2>1, <2>3, NoneIsNoObject DEF Ref, OthersWait
    <3> QED
      BY <3>2, <3>3
  <2>4. NoNewRef /\ ChosenStay
    BY <1>1, <2>2, <2>3 DEF NoNewRef, ChosenStay, SessionInv, ObjectInv
  <2> QED
    BY <2>1, <2>4, SessionStep
<1> QED
  BY <1>3, <1>4 DEF Note

\* The invariant of the sessions' objects.
LEMMA SessionInvCorrect == Spec => []SessionInv
<1>1. Init => SessionInv
  <2> SUFFICES ASSUME Init PROVE SessionInv
    OBVIOUS
  <2>1. \A o \in Objects, s \in Ids : ~Ref(o, s)
    BY NoneIsNoObject DEF Init, Ref
  <2>2. /\ \A c \in Calls : pc[c] = "idle" /\ dir[c] = None
    BY DEF Init
  <2>3. ToolIsKept /\ NoneYet /\ HeldInv /\ OwnDirectory
    BY <2>2 DEF ToolIsKept, NoneYet, HeldInv, OwnDirectory, Working, Tools
  <2>4. OneSession /\ ObjectInv
    BY <2>1 DEF OneSession, ObjectInv
  <2>5. NamedOnce
    BY <2>1 DEF NamedOnce, Objects
  <2> QED
    BY <2>3, <2>4, <2>5 DEF SessionInv
<1>2. TypeInv /\ TypeInv' /\ SessionInv /\ [Next]_vars => SessionInv'
  <2> SUFFICES ASSUME TypeInv, TypeInv', SessionInv, [Next]_vars PROVE SessionInv'
    OBVIOUS
  <2> USE DEF client
  <2>1. ASSUME NEW c \in Calls, NEW r \in Requests, Arrive(c, r) PROVE SessionInv'
    BY <2>1, ArriveStep
  <2>2. ASSUME NEW c \in Calls, Refuse(c) PROVE SessionInv'
    <3>1. OthersWait(c) /\ IsOver(c)
      BY <2>2 DEF Refuse, Goto, OthersWait, IsOver, TypeInv, SessionInv, NoneYet, Underway,
                  Working, Tools
    <3> QED
      BY <2>2, <3>1, SameRefs, SessionStep DEF Refuse
  <2>3. ASSUME NEW c \in Calls, Enter(c) PROVE SessionInv'
    BY <2>3, ReuseStep, CreateStep DEF Enter
  <2>4. ASSUME NEW c \in Calls, Workdir(c) PROVE SessionInv'
    BY <2>4, WorkdirStep
  <2>5. ASSUME NEW c \in Calls, Shell(c) PROVE SessionInv'
    BY <2>5, JustAnswered DEF Shell
  <2>6. ASSUME NEW c \in Calls, Read(c) PROVE SessionInv'
    <3>1. OthersWait(c) /\ GoesOn(c)
      BY <2>6 DEF Read, Goto, OthersWait, GoesOn, TypeInv, Working, Tools
    <3> QED
      BY <2>6, <3>1, SameRefs, SessionStep DEF Read
  <2>7. ASSUME NEW c \in Calls, Peek(c) PROVE SessionInv'
    <3>1. OthersWait(c) /\ GoesOn(c)
      BY <2>7 DEF Peek, Goto, OthersWait, GoesOn, TypeInv, Working, Tools
    <3> QED
      BY <2>7, <3>1, SameRefs, SessionStep DEF Peek
  <2>8. ASSUME NEW c \in Calls, Store(c) PROVE SessionInv'
    BY <2>8, CacheAnswered DEF Store, Working
  <2>9. ASSUME NEW c \in Calls, Write(c) PROVE SessionInv'
    <3>1. CASE Finish(c, object)
      BY <2>9, <3>1, JustAnswered DEF Write
    <3>2. CASE Goto(c, "note") /\ UNCHANGED <<request, state, dir, object>>
      <4>1. OthersWait(c) /\ GoesOn(c)
        BY <2>9, <3>2 DEF Write, Goto, OthersWait, GoesOn, TypeInv, Working, Tools
      <4> QED
        BY <2>9, <3>2, <4>1, SameRefs, SessionStep DEF Write
    <3> QED
      BY <2>9, <3>1, <3>2 DEF Write
  <2>10. ASSUME NEW c \in Calls, Note(c) PROVE SessionInv'
    BY <2>10, NoteStep
  <2>11. ASSUME NEW s \in Ids, Compact(s) PROVE SessionInv'
    BY <2>11, StillStep DEF Compact
  <2>12. ASSUME NEW content \in Contents, Change(content) PROVE SessionInv'
    BY <2>12, StillStep DEF Change
  <2>13. CASE UNCHANGED vars
    BY <2>13, StillStep DEF vars
  <2> QED
    BY <2>1, <2>2, <2>3, <2>4, <2>5, <2>6, <2>7, <2>8, <2>9, <2>10, <2>11, <2>12, <2>13
       DEF Next, Terminated
<1> QED
  BY <1>1, <1>2, TypeInvCorrect, PTL DEF Spec

\* A request works in its own anchor or in a directory that its own session
\* chose under that anchor, for any sessions, limit and requests.
THEOREM OwnDirectoryCorrect == Spec => []OwnDirectory
BY SessionInvCorrect, PTL DEF SessionInv

------------------------------------------------------------------------------
\* What a step of request c other than its look-up does to the view caches: a
\* cache stays, is emptied, or is given what the model's context holds.
CacheStep ==
  \A o \in Objects, s \in Ids :
    Ref(o, s)' =>
      /\ Ref(o, s)
      /\ object'[o].epoch = object[o].epoch
      /\ \/ object'[o].cache \in {None, object[o].cache}
         \/ /\ object[o].epoch # None
            /\ Fresh(o, s) /\ ~astray'[s] => object'[o].cache \in known'[s]

\* Between compactions what the model knows grows, and astray is for good.
KnownGrow == \A s \in Ids : known[s] \subseteq known'[s] /\ (~astray'[s] => ~astray[s])

\* What the others are about to be told stays, and what c is about to be told
\* is a step from what its model has.
ReplyStep(c) ==
  /\ \A d \in Calls \ {c} : old'[d] = old[d]
  /\ Viewing(c)' => Viewing(c)
  /\ pc'[c] = "store" /\ old'[c] # None =>
       /\ request'[c].epoch # None
       /\ ~astray'[request'[c].id] => old'[c] \in known'[request'[c].id]

\* Such a step keeps the invariant.
LEMMA DeltaStep ==
  ASSUME TypeInv, TypeInv', DeltaInv, NEW c \in Calls, UNCHANGED epoch,
         CacheStep, KnownGrow, OthersWait(c), ReplyStep(c),
         GoesOn(c) \/ IsOver(c) \/ GoesBack(c)
  PROVE  DeltaInv'
<1> USE DEF DeltaInv
<1>0. \A d \in Calls : pc[d] \in Underway => request[d] \in Request /\ request[d].id \in Ids
  BY DEF TypeInv, Request
<1>1. \A d \in Calls : pc'[d] \in Underway =>
        /\ pc[d] \in Underway /\ request'[d].epoch = request[d].epoch
        /\ request'[d].id = request[d].id
  <2> SUFFICES ASSUME NEW d \in Calls, pc'[d] \in Underway
               PROVE  /\ pc[d] \in Underway /\ request'[d].epoch = request[d].epoch
                      /\ request'[d].id = request[d].id
    OBVIOUS
  <2>1. CASE d # c
    BY <2>1 DEF OthersWait
  <2>2. CASE d = c
    BY <1>0, <2>2 DEF GoesOn, IsOver, GoesBack, Underway, Working, Tools, Request
  <2> QED
    BY <2>1, <2>2
<1>2. \A d \in Calls : pc'[d] \in Working =>
        pc[d] \in Working /\ state'[d] = state[d] /\ request'[d] = request[d]
  BY DEF OthersWait, GoesOn, IsOver, GoesBack, Working, Tools
<1>3. \A d \in Calls : Viewing(d)' => Viewing(d)
  BY DEF ReplyStep, OthersWait, Viewing
<1>4. EpochInv'
  <2>1. ASSUME NEW d \in Calls, pc'[d] \in Underway, request'[d].epoch # None
        PROVE  /\ request'[d].epoch <= epoch[request'[d].id]
               /\ Viewing(d)' /\ ~astray'[request'[d].id] =>
                    request'[d].epoch = epoch[request'[d].id]
    BY <1>0, <1>1, <1>3, <2>1 DEF EpochInv, KnownGrow
  <2>2. ASSUME NEW d \in Calls, pc'[d] \in Working
        PROVE  object'[state'[d]].epoch = None <=> request'[d].epoch = None
    <3>1. /\ state[d] \in Objects /\ request[d].id \in Ids /\ pc[d] \in Working
          /\ state'[d] = state[d] /\ request'[d] = request[d]
      BY <1>0, <1>2, <2>2 DEF TypeInv, Underway
    <3>2. Ref(state[d], request[d].id)'
      BY <3>1 DEF Ref
    <3>3. object'[state[d]].epoch = object[state[d]].epoch
      BY <3>1, <3>2 DEF CacheStep
    <3> QED
      BY <3>1, <3>3 DEF EpochInv
  <2> QED
    BY <2>1, <2>2 DEF EpochInv
<1>5. CacheInv'
  <2> SUFFICES ASSUME NEW o \in Objects, NEW s \in Ids, Ref(o, s)'
               PROVE  /\ object'[o].epoch = None => object'[o].cache = None
                      /\ object'[o].epoch # None => object'[o].epoch <= epoch[s]
                      /\ Fresh(o, s)' /\ object'[o].cache # None /\ ~astray'[s] =>
                           object'[o].cache \in known'[s]
    BY DEF CacheInv
  <2>1. /\ Ref(o, s) /\ object'[o].epoch = object[o].epoch
        /\ \/ object'[o].cache \in {None, object[o].cache}
           \/ /\ object[o].epoch # None
              /\ Fresh(o, s) /\ ~astray'[s] => object'[o].cache \in known'[s]
    BY DEF CacheStep
  <2>2. Fresh(o, s)' => Fresh(o, s)
    <3>1. ASSUME NEW d \in Calls, state'[d] = o, request'[d].id = s, request'[d].epoch = epoch[s]
          PROVE  Fresh(o, s)
      <4>1. pc'[d] \in Working
        BY <3>1 DEF TypeInv
      <4>2. state[d] = o /\ request[d].id = s /\ request[d].epoch = epoch[s]
        BY <1>2, <3>1, <4>1
      <4> QED
        BY <4>2 DEF Fresh
    <3> QED
      BY <2>1, <3>1 DEF Fresh
  <2>3. /\ object[o].epoch = None => object[o].cache = None
        /\ object[o].epoch # None => object[o].epoch <= epoch[s]
        /\ Fresh(o, s) /\ object[o].cache # None /\ ~astray[s] => object[o].cache \in known[s]
    BY <2>1 DEF CacheInv
  <2>4. known[s] \subseteq known'[s] /\ (~astray'[s] => ~astray[s])
    BY DEF KnownGrow
  <2> QED
    BY <2>1, <2>2, <2>3, <2>4
<1>6. ReplyInv'
  <2> SUFFICES ASSUME NEW d \in Calls, pc'[d] = "store", old'[d] # None
               PROVE  /\ request'[d].epoch # None
                      /\ ~astray'[request'[d].id] => old'[d] \in known'[request'[d].id]
    BY DEF ReplyInv
  <2>1. CASE d = c
    BY <2>1 DEF ReplyStep
  <2>2. CASE d # c
    BY <1>0, <2>2 DEF ReplyStep, ReplyInv, OthersWait, KnownGrow, Underway, Working
  <2> QED
    BY <2>1, <2>2
<1> QED
  BY <1>4, <1>5, <1>6

\* A look-up leaves what is being viewed and answered, apart from its own request.
LEMMA EnterReplies ==
  ASSUME TypeInv, ReplyInv, NEW c \in Calls, Enter(c)
  PROVE  /\ ReplyInv'
         /\ \A d \in Calls : Viewing(d)' => Viewing(d)
         /\ \A d \in Calls : pc'[d] \in Underway => pc[d] \in Underway
<1>1. /\ pc[c] = "enter" /\ request[c].tool \in Tools
      /\ pc' = [pc EXCEPT ![c] = request[c].tool]
      /\ UNCHANGED <<request, known, astray, old>>
  BY DEF Enter, Goto, TypeInv, Underway, Request, client
<1>2. ReplyInv'
  BY <1>1 DEF ReplyInv, Tools, TypeInv
<1>3. \A d \in Calls : Viewing(d)' => Viewing(d)
  BY <1>1 DEF Viewing, Tools, TypeInv
<1>4. \A d \in Calls : pc'[d] \in Underway => pc[d] \in Underway
  BY <1>1 DEF Underway, TypeInv
<1> QED
  BY <1>2, <1>3, <1>4

\* A request gives the epoch it was sent with to the object it looks up.
LEMMA DeltaReuse ==
  ASSUME TypeInv, TypeInv', SessionInv, DeltaInv, NEW c \in Calls, Enter(c),
         Reuse(c, request[c], table[request[c].id])
  PROVE  DeltaInv'
<1> DEFINE r == request[c]
           x == table[r.id]
<1> USE DEF DeltaInv
<1>1. /\ pc[c] = "enter" /\ r \in Request /\ r.id \in Ids /\ r.tool \in Tools
      /\ pc' = [pc EXCEPT ![c] = r.tool]
      /\ UNCHANGED <<request, table, epoch, known, astray, old>>
  BY DEF Enter, Reuse, Goto, TypeInv, Underway, Request, client
<1>2. /\ x \in Objects /\ object[x] \in Object
      /\ (object[x].epoch = None) = (r.epoch = None)
      /\ state' = [state EXCEPT ![c] = x]
  BY <1>1, NoneIsNoObject DEF Reuse, TypeInv, Matches
<1>3. \A o \in Objects : o # x => object'[o] = object[o]
  BY DEF Reuse, TypeInv
<1>4. /\ object'[x].epoch = r.epoch
      /\ object'[x].cache = IF object[x].epoch = r.epoch THEN object[x].cache ELSE None
  BY <1>2 DEF Reuse, TypeInv, Object, CacheUnder
<1>5. \A d \in Calls \ {c} : pc'[d] = pc[d] /\ state'[d] = state[d]
  BY <1>1, <1>2 DEF TypeInv
<1>6. pc'[c] = r.tool /\ state'[c] = x
  BY <1>1, <1>2 DEF TypeInv
<1>7. Ref(x, r.id) /\ (r.epoch # None => r.epoch <= epoch[r.id])
  BY <1>1 DEF Ref, EpochInv, Underway
<1>8. /\ ReplyInv' /\ \A d \in Calls : Viewing(d)' => Viewing(d)
      /\ \A d \in Calls : pc'[d] \in Underway => pc[d] \in Underway
  BY EnterReplies
<1> HIDE DEF x
<1>9. \A o \in Objects, s \in Ids : Ref(o, s)' => Ref(o, s)
  <2> SUFFICES ASSUME NEW o \in Objects, NEW s \in Ids, Ref(o, s)' PROVE Ref(o, s)
    OBVIOUS
  <2>1. ASSUME NEW d \in Calls, state'[d] = o, request[d].id = s PROVE Ref(o, s)
    BY <1>5, <1>6, <1>7, <2>1 DEF Ref
  <2> QED
    BY <1>1, <2>1 DEF Ref
<1>10. EpochInv'
  <2>1. ASSUME NEW d \in Calls, pc'[d] \in Underway, request[d].epoch # None
        PROVE  /\ request[d].epoch <= epoch[request[d].id]
               /\ Viewing(d)' /\ ~astray[request[d].id] => request[d].epoch = epoch[request[d].id]
    BY <1>8, <2>1 DEF EpochInv
  <2>2. ASSUME NEW d \in Calls, pc'[d] \in Working, d # c
        PROVE  object'[state'[d]].epoch = None <=> request[d].epoch = None
    <3> DEFINE o == state[d]
    <3>1. /\ o \in Objects /\ state'[d] = o
          /\ (object[o].epoch = None <=> request[d].epoch = None)
      BY <1>5, <2>2 DEF TypeInv, EpochInv
    <3>2. CASE o = x
      <4> HIDE DEF r, o
      <4> QED
        BY <1>2, <1>4, <3>1, <3>2
    <3>3. CASE o # x
      BY <1>3, <3>1, <3>3
    <3> QED
      BY <3>2, <3>3
  <2>3. object'[state'[c]].epoch = None <=> request[c].epoch = None
    BY <1>4, <1>6
  <2> QED
    BY <1>1, <2>1, <2>2, <2>3 DEF EpochInv
<1>11. CacheInv'
  <2> SUFFICES ASSUME NEW o \in Objects, NEW s \in Ids, Ref(o, s)'
               PROVE  /\ object'[o].epoch = None => object'[o].cache = None
                      /\ object'[o].epoch # None => object'[o].epoch <= epoch[s]
                      /\ Fresh(o, s)' /\ object'[o].cache # None /\ ~astray[s] =>
                           object'[o].cache \in known[s]
    BY <1>1 DEF CacheInv
  <2>1. /\ object[o].epoch = None => object[o].cache = None
        /\ object[o].epoch # None => object[o].epoch <= epoch[s]
        /\ Fresh(o, s) /\ object[o].cache # None /\ ~astray[s] => object[o].cache \in known[s]
    BY <1>9 DEF CacheInv
  <2>2. CASE o # x
    <3>1. Fresh(o, s)' => Fresh(o, s)
      <4>1. ASSUME NEW d \in Calls, state'[d] = o, request[d].id = s, request[d].epoch = epoch[s]
            PROVE  Fresh(o, s)
        <5>1. state[d] = o
          BY <1>5, <1>6, <2>2, <4>1
        <5> QED
          BY <4>1, <5>1 DEF Fresh
      <4> QED
        BY <1>1, <1>3, <2>2, <4>1 DEF Fresh
    <3> QED
      BY <1>3, <2>1, <2>2, <3>1
  <2>3. CASE o = x
    <3>1. s = r.id
      <4>1. Ref(x, s)
        BY <1>9, <2>3
      <4> QED
        BY <1>1, <1>2, <1>7, <4>1 DEF SessionInv, OneSession
    <3>2. Fresh(o, s)' /\ object'[o].cache # None => Fresh(o, s)
      <4>1. ASSUME object'[o].cache # None PROVE object'[o].epoch = object[o].epoch
        BY <1>4, <2>3, <4>1
      <4>2. ASSUME object'[o].cache # None, NEW d \in Calls, state'[d] = o,
                   request[d].id = s, request[d].epoch = epoch[s]
            PROVE  Fresh(o, s)
        <5>1. CASE d = c
          BY <1>4, <2>3, <4>1, <4>2, <5>1 DEF Fresh
        <5>2. CASE d # c
          BY <1>5, <4>2, <5>2 DEF Fresh
        <5> QED
          BY <5>1, <5>2
      <4> QED
        BY <1>1, <4>1, <4>2 DEF Fresh
    <3> HIDE DEF r
    <3>3. object'[o].cache # None =>
            object'[o].cache = object[o].cache /\ object'[o].epoch = object[o].epoch
      BY <1>4, <2>3
    <3>4. object'[o].epoch = None => object'[o].cache = None
      BY <2>1, <3>3
    <3>5. object'[o].epoch # None => object'[o].epoch <= epoch[s]
      BY <1>4, <1>7, <2>3, <3>1
    <3> QED
      BY <2>1, <3>2, <3>3, <3>4, <3>5
  <2> QED
    BY <2>2, <2>3
<1> QED
  BY <1>8, <1>10, <1>11

\* An object is created with the epoch of its request and no cache.
LEMMA DeltaCreate ==
  ASSUME TypeInv, TypeInv', SessionInv, DeltaInv, NEW c \in Calls, Enter(c),
         Create(c, request[c], table[request[c].id])
  PROVE  DeltaInv'
<1> DEFINE r == request[c]
           n == Named(c, r)
           fresh == [root |-> r.root, current |-> None, epoch |-> r.epoch,
                     cache |-> None, used |-> stamp[c]]
           objects == [object EXCEPT ![n] = fresh]
<1> USE DEF DeltaInv
<1>1. /\ pc[c] = "enter" /\ r \in Request /\ r.id \in Ids /\ r.tool \in Tools
      /\ pc' = [pc EXCEPT ![c] = r.tool]
      /\ UNCHANGED <<request, epoch, known, astray, old>>
  BY DEF Enter, Goto, TypeInv, Underway, Request, client
<1>2. n \in Objects /\ n = <<c, IF r.tool = "shell" THEN "shell" ELSE "tool">>
  BY DEF Named, Objects
<1>3. \A s \in Ids : ~Ref(n, s)
  BY <1>1, <1>2 DEF SessionInv, NamedOnce
<1>4. /\ state' = [state EXCEPT ![c] = n]
      /\ \A s \in Ids : table'[s] \in {None, table[s]} \/ (s = r.id /\ table'[s] = n)
      /\ object' = Shared(objects, table', state')
  BY DEF Create
<1>5. \A d \in Calls \ {c} : pc'[d] = pc[d] /\ state'[d] = state[d]
  BY <1>1, <1>4 DEF TypeInv
<1>6. pc'[c] = r.tool /\ state'[c] = n
  BY <1>1, <1>4 DEF TypeInv
<1>7. fresh.epoch = r.epoch /\ fresh.cache = None
  OBVIOUS
<1>8. objects[n] = fresh /\ \A o \in Objects : o # n => objects[o] = object[o]
  BY <1>2 DEF TypeInv
<1>9. r.epoch # None => r.epoch <= epoch[r.id]
  BY <1>1 DEF EpochInv, Underway
<1>10. /\ ReplyInv' /\ \A d \in Calls : Viewing(d)' => Viewing(d)
       /\ \A d \in Calls : pc'[d] \in Underway => pc[d] \in Underway
  BY EnterReplies
<1> HIDE DEF r, n, fresh, objects
<1>11. \A o \in Objects, s \in Ids :
        Ref(o, s)' => (o = n /\ s = r.id) \/ (o # n /\ Ref(o, s))
  <2> SUFFICES ASSUME NEW o \in Objects, NEW s \in Ids, Ref(o, s)'
               PROVE  (o = n /\ s = r.id) \/ (o # n /\ Ref(o, s))
    OBVIOUS
  <2>1. CASE table'[s] = o
    BY <1>3, <1>4, <2>1, NoneIsNoObject DEF Ref
  <2>2. ASSUME NEW d \in Calls, state'[d] = o, request[d].id = s
        PROVE  (o = n /\ s = r.id) \/ (o # n /\ Ref(o, s))
    BY <1>3, <1>5, <1>6, <2>2 DEF Ref, r
  <2> QED
    BY <1>1, <2>1, <2>2 DEF Ref
<1>12. \A o \in Objects, s \in Ids : Ref(o, s)' => object'[o] = objects[o]
  BY <1>4 DEF Ref, Shared
<1>13. EpochInv'
  <2>1. ASSUME NEW d \in Calls, pc'[d] \in Underway, request[d].epoch # None
        PROVE  /\ request[d].epoch <= epoch[request[d].id]
               /\ Viewing(d)' /\ ~astray[request[d].id] => request[d].epoch = epoch[request[d].id]
    BY <1>10, <2>1 DEF EpochInv
  <2>2. ASSUME NEW d \in Calls, pc'[d] \in Working, NEW o \in Objects, NEW s \in Ids,
               state'[d] = o, request[d].id = s
        PROVE  object'[o].epoch = None <=> request[d].epoch = None
    <3>1. Ref(o, s)'
      BY <1>1, <2>2 DEF Ref
    <3>2. object'[o] = objects[o]
      BY <1>12, <3>1
    <3>3. CASE d = c
      BY <1>6, <1>7, <1>8, <2>2, <3>2, <3>3 DEF r
    <3>4. CASE d # c
      <4>1. state[d] = o /\ pc[d] \in Working
        BY <1>5, <2>2, <3>4
      <4>2. o # n
        BY <1>3, <2>2, <4>1 DEF Ref
      <4> QED
        BY <1>8, <2>2, <3>2, <4>1, <4>2 DEF EpochInv
    <3> QED
      BY <3>3, <3>4
  <2>3. \A d \in Calls : pc'[d] \in Working => state'[d] \in Objects /\ request[d].id \in Ids
    BY <1>1 DEF TypeInv, Underway, Request
  <2> QED
    BY <1>1, <2>1, <2>2, <2>3 DEF EpochInv
<1>14. CacheInv'
  <2> SUFFICES ASSUME NEW o \in Objects, NEW s \in Ids, Ref(o, s)'
               PROVE  /\ object'[o].epoch = None => object'[o].cache = None
                      /\ object'[o].epoch # None => object'[o].epoch <= epoch[s]
                      /\ Fresh(o, s)' /\ object'[o].cache # None /\ ~astray[s] =>
                           object'[o].cache \in known[s]
    BY <1>1 DEF CacheInv
  <2>1. object'[o] = objects[o]
    BY <1>12
  <2>2. CASE o = n /\ s = r.id
    BY <1>7, <1>8, <1>9, <2>1, <2>2
  <2>3. CASE o # n /\ Ref(o, s)
    <3>1. object'[o] = object[o]
      BY <1>8, <2>1, <2>3
    <3>2. \A d \in Calls : state'[d] = o => state[d] = o
      BY <1>5, <1>6, <2>3
    <3>3. Fresh(o, s)' => Fresh(o, s)
      BY <1>1, <3>1, <3>2 DEF Fresh
    <3> QED
      BY <2>3, <3>1, <3>3 DEF CacheInv
  <2> QED
    BY <1>11, <2>2, <2>3
<1> QED
  BY <1>10, <1>13, <1>14

\* Answering a request without touching a state object.
LEMMA DeltaAnswered ==
  ASSUME TypeInv, TypeInv', DeltaInv, NEW c \in Calls, Finish(c, object),
         UNCHANGED <<table, epoch, known, astray>>
  PROVE  DeltaInv'
<1>1. /\ \A o \in Objects, s \in Ids : Ref(o, s)' => Ref(o, s) /\ object'[o] = object[o]
      /\ OthersWait(c) /\ IsOver(c)
  BY FinishRefs
<1>2. CacheStep /\ KnownGrow
  BY <1>1 DEF CacheStep, KnownGrow
<1>3. ReplyStep(c)
  BY <1>1 DEF ReplyStep, Viewing, IsOver, Finish, TypeInv
<1> QED
  BY <1>1, <1>2, <1>3, DeltaStep

\* A request that is answered, or goes back, with the cache of its object
\* emptied or replaced by what its model has just been shown.
LEMMA ShownStep ==
  ASSUME TypeInv, SessionInv, NEW c \in Calls, pc[c] \in Working, NEW v, NEW objects,
         objects = [object EXCEPT ![state[c]].cache = v],
         \A o \in Objects, s \in Ids : Ref(o, s)' => Ref(o, s) /\ object'[o] = objects[o],
         \/ v = None
         \/ /\ object[state[c]].epoch # None
            /\ Fresh(state[c], request[c].id) /\ ~astray'[request[c].id] =>
                 v \in known'[request[c].id]
  PROVE  CacheStep
<1> DEFINE x == state[c]
<1>1. x \in Objects /\ object[x] \in Object /\ request[c].id \in Ids
  BY DEF TypeInv, Underway, Request
<1>2. /\ objects[x].epoch = object[x].epoch /\ objects[x].cache = v
      /\ \A o \in Objects : o # x => objects[o] = object[o]
  BY <1>1 DEF TypeInv, Object
<1>3. Ref(x, request[c].id)
  BY DEF Ref
<1> SUFFICES ASSUME NEW o \in Objects, NEW s \in Ids, Ref(o, s)'
             PROVE  /\ Ref(o, s)
                    /\ object'[o].epoch = object[o].epoch
                    /\ \/ object'[o].cache \in {None, object[o].cache}
                       \/ /\ object[o].epoch # None
                          /\ Fresh(o, s) /\ ~astray'[s] => object'[o].cache \in known'[s]
  BY DEF CacheStep
<1>4. Ref(o, s) /\ object'[o] = objects[o]
  OBVIOUS
<1>5. CASE o # x
  BY <1>2, <1>4, <1>5
<1>6. CASE o = x
  <2>1. s = request[c].id
    BY <1>1, <1>3, <1>4, <1>6 DEF SessionInv, OneSession
  <2> HIDE DEF x
  <2> QED
    BY <1>2, <1>4, <1>6, <2>1 DEF x
<1> QED
  BY <1>5, <1>6

\* What a model learns is what it has and, from something it has, the new
\* content.
LEMMA LearnGrows ==
  ASSUME TypeInv, NEW s \in Ids, NEW from, NEW to, Learn(s, from, to)
  PROVE  /\ \A t \in Ids : known[t] \subseteq known'[t]
         /\ from = None \/ from \in known[s] => to \in known'[s]
BY DEF Learn, TypeInv

\* The object a request uses is its session's, and a cache in it holds what the
\* model has if the request is of the present epoch.
LEMMA HeldCache ==
  ASSUME TypeInv, DeltaInv, NEW c \in Calls, pc[c] \in Working,
         object[state[c]].cache # None
  PROVE  /\ object[state[c]].epoch # None /\ request[c].epoch # None
         /\ Fresh(state[c], request[c].id) /\ ~astray[request[c].id] =>
              object[state[c]].cache \in known[request[c].id]
         /\ request[c].epoch = epoch[request[c].id] => Fresh(state[c], request[c].id)
<1>1. state[c] \in Objects /\ request[c].id \in Ids
  BY DEF TypeInv, Underway, Request
<1>2. Ref(state[c], request[c].id)
  BY DEF Ref
<1>3. request[c].epoch = epoch[request[c].id] => Fresh(state[c], request[c].id)
  BY DEF Fresh
<1> QED
  BY <1>1, <1>2, <1>3 DEF DeltaInv, CacheInv, EpochInv

\* A view stores what it shows; if the reply is too large and the cache takes it
\* nevertheless, the session is astray.
LEMMA StoreStep ==
  ASSUME TypeInv, TypeInv', SessionInv, DeltaInv, NEW c \in Calls, Store(c)
  PROVE  DeltaInv'
<1> DEFINE v == Cached(object[state[c]], new[c])
           objects == [object EXCEPT ![state[c]].cache = v]
           s == request[c].id
<1>1. /\ pc[c] = "store" /\ pc[c] \in Working /\ s \in Ids
      /\ UNCHANGED <<table, epoch>> /\ Finish(c, objects)
  BY DEF Store, Working, TypeInv, Underway, Request
<1>2. /\ \A o \in Objects, t \in Ids : Ref(o, t)' => Ref(o, t) /\ object'[o] = objects[o]
      /\ OthersWait(c) /\ IsOver(c)
  BY <1>1, FinishRefs
<1>3. \A t \in Ids : ~astray'[t] => ~astray[t] /\ (t = s => ~StoresUnshown(c))
  BY <1>1 DEF Store, TypeInv
<1>4. /\ \A t \in Ids : known[t] \subseteq known'[t]
      /\ v = None \/ (object[state[c]].epoch # None /\ (~astray'[s] => v \in known'[s]))
  <2>1. CASE TooLarge(c)
    BY <1>1, <1>3, <2>1 DEF Store, StoresUnshown, Cached
  <2>2. CASE ~TooLarge(c)
    <3>1. ~astray[s] => old[c] = None \/ old[c] \in known[s]
      BY <1>1 DEF DeltaInv, ReplyInv
    <3>2. Learn(s, old[c], new[c])
      BY <2>2 DEF Store
    <3>3. /\ \A t \in Ids : known[t] \subseteq known'[t]
          /\ ~astray[s] => new[c] \in known'[s]
      BY <1>1, <3>1, <3>2, LearnGrows
    <3> QED
      BY <1>1, <1>3, <3>3 DEF Cached
  <2> QED
    BY <2>1, <2>2
<1>5. KnownGrow
  BY <1>3, <1>4 DEF KnownGrow
<1>6. CacheStep
  <2>1. \/ v = None
        \/ /\ object[state[c]].epoch # None
           /\ Fresh(state[c], s) /\ ~astray'[s] => v \in known'[s]
    BY <1>4
  <2>2. ASSUME NEW o \in Objects, NEW t \in Ids, Ref(o, t)'
        PROVE  Ref(o, t) /\ object'[o] = objects[o]
    BY <1>2, <2>2
  <2>3. pc[c] \in Working
    BY <1>1
  <2> HIDE DEF v
  <2> QED
    BY <2>1, <2>2, <2>3, ShownStep
<1>7. ReplyStep(c)
  BY <1>1, <1>2 DEF ReplyStep, Viewing, IsOver, Finish, TypeInv
<1> QED
  BY <1>1, <1>2, <1>5, <1>6, <1>7, DeltaStep

\* After an edit the cache is advanced with the model's context, or emptied.
LEMMA DeltaNote ==
  ASSUME TypeInv, TypeInv', SessionInv, DeltaInv, NEW c \in Calls, Note(c)
  PROVE  DeltaInv'
<1> DEFINE v == IF object[state[c]].cache = old[c]
                THEN Cached(object[state[c]], new[c]) ELSE None
           objects == [object EXCEPT ![state[c]].cache = v]
           s == request[c].id
<1>1. /\ pc[c] = "note" /\ pc[c] \in Working /\ s \in Ids /\ state[c] \in Objects
      /\ old[c] \in Contents /\ old[c] # None
      /\ UNCHANGED <<table, epoch, astray>> /\ Learn(s, old[c], new[c])
  BY NoneIsNoObject DEF Note, Working, TypeInv, Underway, Request
<1>2. Noted(c) = objects
  BY DEF Noted
<1>3. /\ KnownGrow
      /\ \/ v = None
         \/ /\ object[state[c]].epoch # None
            /\ Fresh(state[c], s) /\ ~astray'[s] => v \in known'[s]
  <2>1. KnownGrow /\ (old[c] \in known[s] => new[c] \in known'[s])
    BY <1>1, LearnGrows DEF KnownGrow
  <2>2. CASE object[state[c]].cache = old[c]
    <3>1. /\ object[state[c]].epoch # None
          /\ Fresh(state[c], s) /\ ~astray[s] => old[c] \in known[s]
      BY <1>1, <2>2, HeldCache
    <3> QED
      BY <1>1, <2>1, <2>2, <3>1 DEF Cached
  <2> QED
    BY <2>1, <2>2
<1>4. OthersWait(c) /\ (IsOver(c) \/ GoesBack(c)) /\ state'[c] = None /\ pc'[c] # "store"
  BY <1>1 DEF Note, Finish, Goto, OthersWait, IsOver, GoesBack, TypeInv
<1>5. object' = Shared(Noted(c), table, state')
  BY DEF Note, Finish
<1>6. ASSUME NEW o \in Objects, NEW t \in Ids, Ref(o, t)'
      PROVE  Ref(o, t) /\ object'[o] = objects[o]
  <2>1. (\E u \in Ids : table[u] = o) \/ (\E d \in Calls : state'[d] = o)
    BY <1>1, <1>6 DEF Ref
  <2>2. object'[o] = objects[o]
    BY <1>2, <1>5, <2>1 DEF Shared
  <2>3. Ref(o, t)
    BY <1>1, <1>4, <1>6, NoneIsNoObject DEF Ref, OthersWait
  <2> QED
    BY <2>2, <2>3
<1> HIDE DEF v
<1>7. CacheStep
  BY <1>1, <1>3, <1>6, ShownStep
<1>8. ReplyStep(c)
  <2>1. \A d \in Calls \ {c} : old'[d] = old[d]
    BY DEF Note, Finish, TypeInv
  <2>2. ~Viewing(c)'
    <3>1. request[c] \in Request
      BY <1>1 DEF TypeInv, Underway
    <3>2. CASE IsOver(c)
      BY <3>2 DEF IsOver, Viewing
    <3>3. CASE GoesBack(c)
      BY <3>1, <3>3 DEF GoesBack, Viewing, Request
    <3> QED
      BY <1>4, <3>2, <3>3
  <2> QED
    BY <1>4, <2>1, <2>2 DEF ReplyStep
<1> QED
  BY <1>1, <1>3, <1>4, <1>7, <1>8, DeltaStep

\* A step that leaves every object, and what is known, as it is.
LEMMA SameCaches ==
  ASSUME UNCHANGED <<table, object, known, astray, request, state>>
  PROVE  CacheStep /\ KnownGrow
BY DEF CacheStep, KnownGrow, Ref

\* workdir leaves the caches.
LEMMA DeltaWorkdir ==
  ASSUME TypeInv, TypeInv', DeltaInv, NEW c \in Calls, Workdir(c)
  PROVE  DeltaInv'
<1> DEFINE v == IF Arg(c) = "reset" THEN None ELSE Arg(c)
           objects == [object EXCEPT ![state[c]].current = v]
<1>1. /\ pc[c] \in Working /\ UNCHANGED <<table, epoch, known, astray>>
      /\ state[c] \in Objects /\ object[state[c]] \in Object
  BY DEF Workdir, client, TypeInv, Working, Tools
<1>2. CASE Finish(c, object)
  BY <1>1, <1>2, DeltaAnswered
<1>3. CASE Finish(c, objects)
  <2>1. /\ \A o \in Objects, s \in Ids : Ref(o, s)' => Ref(o, s) /\ object'[o] = objects[o]
        /\ OthersWait(c) /\ IsOver(c)
    BY <1>1, <1>3, FinishRefs
  <2>2. \A o \in Objects : objects[o].epoch = object[o].epoch /\ objects[o].cache = object[o].cache
    BY <1>1 DEF TypeInv, Object
  <2> HIDE DEF objects
  <2>3. CacheStep /\ KnownGrow
    BY <1>1, <2>1, <2>2 DEF CacheStep, KnownGrow
  <2>4. ReplyStep(c)
    BY <1>3, <2>1 DEF ReplyStep, Viewing, IsOver, Finish, TypeInv
  <2> QED
    BY <1>1, <2>1, <2>3, <2>4, DeltaStep
<1> QED
  BY <1>2, <1>3 DEF Workdir

\* The client compacts.  No cache is of the new epoch yet, nor is a request; if
\* no view is under way, none is answered from what is there.
LEMMA CompactStep ==
  ASSUME TypeInv, DeltaInv, NEW s \in Ids, Compact(s)
  PROVE  DeltaInv'
<1> USE DEF DeltaInv
<1>1. /\ UNCHANGED <<table, object, pc, request, state, old>>
      /\ epoch[s] \in Nat /\ epoch'[s] = epoch[s] + 1
      /\ ~astray'[s] => \A c \in Calls : ~(Viewing(c) /\ request[c].id = s)
      /\ \A t \in Ids : t # s => /\ epoch'[t] = epoch[t] /\ known'[t] = known[t]
                                 /\ astray'[t] = astray[t]
  BY DEF Compact, TypeInv
<1>2. \A c \in Calls : pc[c] \in Underway =>
        request[c].id \in Ids /\ request[c].epoch \in Nat \cup {None}
  BY DEF TypeInv, Request
<1>3. \A c \in Calls : Viewing(c)' <=> Viewing(c)
  BY <1>1 DEF Viewing
<1>4. EpochInv'
  <2>1. ASSUME NEW c \in Calls, pc[c] \in Underway, request[c].epoch # None
        PROVE  /\ request[c].epoch <= epoch'[request[c].id]
               /\ Viewing(c) /\ ~astray'[request[c].id] => request[c].epoch = epoch'[request[c].id]
    <3>1. /\ request[c].id \in Ids /\ request[c].epoch \in Nat
          /\ request[c].epoch <= epoch[request[c].id]
          /\ Viewing(c) /\ ~astray[request[c].id] => request[c].epoch = epoch[request[c].id]
      BY <1>2, <2>1 DEF EpochInv
    <3>2. CASE request[c].id = s
      BY <1>1, <3>1, <3>2
    <3>3. CASE request[c].id # s
      BY <1>1, <3>1, <3>3
    <3> QED
      BY <3>2, <3>3
  <2>2. \A c \in Calls : pc[c] \in Working =>
          (object[state[c]].epoch = None <=> request[c].epoch = None)
    BY DEF EpochInv
  <2> QED
    BY <1>1, <1>3, <2>1, <2>2 DEF EpochInv
<1>5. ReplyInv'
  <2> SUFFICES ASSUME NEW c \in Calls, pc[c] = "store", old[c] # None
               PROVE  /\ request[c].epoch # None
                      /\ ~astray'[request[c].id] => old[c] \in known'[request[c].id]
    BY <1>1 DEF ReplyInv
  <2>1. /\ request[c].epoch # None /\ request[c].id \in Ids
        /\ ~astray[request[c].id] => old[c] \in known[request[c].id]
    BY <1>2 DEF ReplyInv, Underway, Working
  <2>2. Viewing(c)
    BY <2>1 DEF Viewing
  <2> QED
    BY <1>1, <2>1, <2>2
<1>6. CacheInv'
  <2> SUFFICES ASSUME NEW o \in Objects, NEW t \in Ids, Ref(o, t)
               PROVE  /\ object[o].epoch = None => object[o].cache = None
                      /\ object[o].epoch # None => object[o].epoch <= epoch'[t]
                      /\ Fresh(o, t)' /\ object[o].cache # None /\ ~astray'[t] =>
                           object[o].cache \in known'[t]
    BY <1>1 DEF CacheInv, Ref
  <2>1. /\ object[o].epoch = None => object[o].cache = None
        /\ object[o].epoch # None => object[o].epoch <= epoch[t]
        /\ Fresh(o, t) /\ object[o].cache # None /\ ~astray[t] => object[o].cache \in known[t]
    BY DEF CacheInv
  <2>2. CASE t # s
    <3>1. Fresh(o, t)' => Fresh(o, t)
      BY <1>1, <2>2 DEF Fresh
    <3> QED
      BY <1>1, <2>1, <2>2, <3>1
  <2>3. CASE t = s
    <3>1. object[o].epoch \in Nat \cup {None}
      <4>1. object[o] \in Object
        <5>1. (table[t] = o) \/ (\E c \in Calls : state[c] = o)
          BY DEF Ref
        <5> QED
          BY <5>1 DEF TypeInv
      <4> QED
        BY <4>1 DEF Object
    <3>2. object[o].epoch # epoch'[s]
      BY <1>1, <2>1, <2>3, <3>1, NoneIsNoObject
    <3>3. ASSUME NEW c \in Calls, state[c] = o, request[c].id = s
          PROVE  request[c].epoch # epoch'[s]
      <4>1. pc[c] \in Underway
        BY <3>3 DEF TypeInv, Underway
      <4>2. request[c].epoch # None => request[c].epoch <= epoch[s]
        BY <3>3, <4>1 DEF EpochInv
      <4> QED
        BY <1>1, <1>2, <4>1, <4>2, NoneIsNoObject
    <3>4. ~Fresh(o, t)'
      BY <1>1, <2>3, <3>2, <3>3 DEF Fresh
    <3> QED
      BY <1>1, <2>1, <2>3, <3>1, <3>4
  <2> QED
    BY <2>2, <2>3
<1> QED
  BY <1>4, <1>5, <1>6

\* The invariant of the view caches.
LEMMA DeltaInvCorrect == Spec => []DeltaInv
<1>1. Init => DeltaInv
  <2> SUFFICES ASSUME Init PROVE DeltaInv
    OBVIOUS
  <2>1. \A o \in Objects, s \in Ids : ~Ref(o, s)
    BY NoneIsNoObject DEF Init, Ref
  <2> QED
    BY <2>1 DEF Init, DeltaInv, EpochInv, CacheInv, ReplyInv, Underway, Working, Tools
<1>2. TypeInv /\ TypeInv' /\ SessionInv /\ DeltaInv /\ [Next]_vars => DeltaInv'
  <2> SUFFICES ASSUME TypeInv, TypeInv', SessionInv, DeltaInv, [Next]_vars PROVE DeltaInv'
    OBVIOUS
  <2> USE DEF client
  <2>1. ASSUME NEW c \in Calls, NEW r \in Requests, Arrive(c, r) PROVE DeltaInv'
    <3>1. /\ pc[c] = "idle" /\ pc'[c] = "enter" /\ state[c] \notin Objects
          /\ UNCHANGED <<table, object, state, old, epoch, known, astray>>
          /\ \A d \in Calls \ {c} : pc'[d] = pc[d] /\ request'[d] = request[d]
          /\ request'[c].id = r.id /\ request'[c].epoch = Sent(r)
      BY <2>1 DEF Arrive, Goto, TypeInv, Underway, Working, Tools
    <3>2. \A o \in Objects, s \in Ids : Ref(o, s)' => Ref(o, s)
      BY <3>1 DEF Ref
    <3>3. EpochInv'
      <4>1. Sent(r) # None => Sent(r) = epoch[r.id] /\ epoch[r.id] <= epoch[r.id]
        BY SessionsAssumption DEF SessionsAssumption, Sent, TypeInv
      <4>2. \A d \in Calls \ {c} : Viewing(d)' <=> Viewing(d)
        BY <3>1 DEF Viewing
      <4> QED
        BY <3>1, <4>1, <4>2 DEF DeltaInv, EpochInv, Working, Tools
    <3>4. \A o \in Objects, s \in Ids : Fresh(o, s)' => Fresh(o, s)
      BY <3>1 DEF Fresh
    <3>5. CacheInv' /\ ReplyInv'
      BY <3>1, <3>2, <3>4 DEF DeltaInv, CacheInv, ReplyInv
    <3> QED
      BY <3>3, <3>5 DEF DeltaInv
  <2>2. ASSUME NEW c \in Calls, Refuse(c) PROVE DeltaInv'
    <3>1. OthersWait(c) /\ IsOver(c)
      BY <2>2 DEF Refuse, Goto, OthersWait, IsOver, TypeInv, SessionInv, NoneYet, Underway,
                  Working, Tools
    <3> QED
      BY <2>2, <3>1, SameCaches, DeltaStep DEF Refuse, ReplyStep, Viewing, IsOver
  <2>3. ASSUME NEW c \in Calls, Enter(c) PROVE DeltaInv'
    BY <2>3, DeltaReuse, DeltaCreate DEF Enter
  <2>4. ASSUME NEW c \in Calls, Workdir(c) PROVE DeltaInv'
    BY <2>4, DeltaWorkdir
  <2>5. ASSUME NEW c \in Calls, Shell(c) PROVE DeltaInv'
    BY <2>5, DeltaAnswered DEF Shell
  <2>6. ASSUME NEW c \in Calls, Read(c) PROVE DeltaInv'
    <3>1. OthersWait(c) /\ GoesOn(c) /\ ReplyStep(c)
      BY <2>6 DEF Read, Goto, OthersWait, GoesOn, ReplyStep, Viewing, TypeInv, Working, Tools
    <3> QED
      BY <2>6, <3>1, SameCaches, DeltaStep DEF Read
  <2>7. ASSUME NEW c \in Calls, Peek(c) PROVE DeltaInv'
    <3>1. OthersWait(c) /\ GoesOn(c)
      BY <2>7 DEF Peek, Goto, OthersWait, GoesOn, TypeInv, Working, Tools
    <3>2. ReplyStep(c)
      <4>1. /\ \A d \in Calls \ {c} : old'[d] = old[d]
            /\ old'[c] \in {None, object[state[c]].cache}
            /\ UNCHANGED <<known, astray, request, epoch>>
            /\ pc[c] = "peek" /\ pc[c] \in Working /\ pc[c] \in Underway
        BY <2>7 DEF Peek, TypeInv, Working, Underway
      <4>2. Viewing(c)' => Viewing(c)
        BY <4>1 DEF Viewing
      <4>3. ASSUME old'[c] # None
            PROVE  /\ request[c].epoch # None
                   /\ ~astray[request[c].id] => old'[c] \in known[request[c].id]
        <5>1. object[state[c]].cache # None /\ old'[c] = object[state[c]].cache
          BY <4>1, <4>3
        <5>2. request[c].epoch # None
          BY <4>1, <5>1, HeldCache
        <5>3. ~astray[request[c].id] => request[c].epoch = epoch[request[c].id]
          BY <4>1, <5>2 DEF DeltaInv, EpochInv, Viewing
        <5> QED
          BY <4>1, <5>1, <5>2, <5>3, HeldCache
      <4> QED
        BY <4>1, <4>2, <4>3 DEF ReplyStep
    <3> QED
      BY <2>7, <3>1, <3>2, SameCaches, DeltaStep DEF Peek
  <2>8. ASSUME NEW c \in Calls, Store(c) PROVE DeltaInv'
    BY <2>8, StoreStep
  <2>9. ASSUME NEW c \in Calls, Write(c) PROVE DeltaInv'
    <3>1. CASE Finish(c, object)
      BY <2>9, <3>1, DeltaAnswered DEF Write
    <3>2. CASE /\ \E content \in Contents : old' = [old EXCEPT ![c] = content]
               /\ Goto(c, "note") /\ UNCHANGED <<request, state, dir, object>>
      <4>1. OthersWait(c) /\ GoesOn(c) /\ ReplyStep(c)
        BY <2>9, <3>2 DEF Write, Goto, OthersWait, GoesOn, ReplyStep, Viewing, TypeInv, Working, Tools
      <4> QED
        BY <2>9, <3>2, <4>1, SameCaches, DeltaStep DEF Write
    <3> QED
      BY <2>9, <3>1, <3>2 DEF Write, TypeInv
  <2>10. ASSUME NEW c \in Calls, Note(c) PROVE DeltaInv'
    BY <2>10, DeltaNote
  <2>11. ASSUME NEW s \in Ids, Compact(s) PROVE DeltaInv'
    BY <2>11, CompactStep
  <2>12. CASE UNCHANGED <<table, object, pc, request, state, old, epoch, known, astray>>
    BY <2>12 DEF DeltaInv, EpochInv, CacheInv, ReplyInv, Ref, Fresh, Viewing
  <2>13. ASSUME NEW content \in Contents, Change(content) PROVE DeltaInv'
    BY <2>12, <2>13 DEF Change
  <2>14. CASE UNCHANGED vars
    BY <2>12, <2>14 DEF vars
  <2> QED
    BY <2>1, <2>2, <2>3, <2>4, <2>5, <2>6, <2>7, <2>8, <2>9, <2>10, <2>11, <2>13, <2>14
       DEF Next, Terminated
<1> QED
  BY <1>1, <1>2, TypeInvCorrect, SessionInvCorrect, PTL DEF Spec

\* A delta or "unchanged" is answered against what the model's context holds, or
\* in a session that a view has led astray since its last compaction between
\* views: for any requests, compactions at any time and contents of any size.
THEOREM DeltaIsSafeCorrect == Spec => []DeltaIsSafe
<1>1. DeltaInv => DeltaIsSafe
  BY DEF DeltaInv, ReplyInv, DeltaIsSafe
<1>2. Spec => []DeltaInv
  BY DeltaInvCorrect
<1> QED
  BY <1>1, <1>2, PTL
================================================================================
