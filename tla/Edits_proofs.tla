------------------------------ MODULE Edits_proofs ------------------------------
(***************************************************************************)
(* FileEdits for every set of calls and paths: what the view cache claims, *)
(* who works on a file, and, where no path is a link, that the tools'      *)
(* locks, snapshots and rollbacks make them indivisible.  Then UndoHistory *)
(* for every set of files, sizes and caps: the store's budget and its byte *)
(* count, and that undo skips no edit.                                     *)
(***************************************************************************)
EXTENDS AtomicEdits, UndoHistory, FiniteSetTheorems, WellFoundedInduction, TLAPS

Texts == (SUBSET Calls) \cup {Absent}

\* The tools that lock, and the steps at which such a call has all its locks.
Lockers == {"edit", "extract", "delete", "undo", "transaction"}
Inside  == {"load", "save", "pop", "write", "commit", "restore", "record"}

\* Which tools are at which step.
ToolFits(c) ==
  /\ pc[c] = "lock" => tool[c] \in Lockers
  /\ pc[c] = "load" => tool[c] \in {"edit", "extract", "transaction"}
  /\ pc[c] = "save" => tool[c] \in {"edit", "extract", "delete"}
  /\ pc[c] = "pop" => tool[c] = "undo"
  /\ pc[c] = "write" => tool[c] \in {"edit", "extract", "delete", "undo"}
  /\ pc[c] = "note" => tool[c] \in {"edit", "extract", "delete", "undo", "create"}
  /\ pc[c] \in {"commit", "restore", "record"} => tool[c] = "transaction"
  /\ pc[c] = "render" => tool[c] = "view"
  /\ pc[c] \in {"open", "fill"} => tool[c] = "create"

\* Only a transaction has more than one path.
NamesFit(c) ==
  /\ pc[c] \notin {"start", "end"} => names[c] # {}
  /\ pc[c] \notin {"start", "end"} /\ tool[c] # "transaction" => \E n \in Names : names[c] = {n}
  /\ pc[c] \in {"lock", "load", "commit"} => todo[c] # {}
  /\ pc[c] \in {"load", "commit", "restore"} => todo[c] \subseteq names[c]

\* An edit has read a text before it goes on.
TextsFit(c) ==
  /\ pc[c] = "load" => \A n \in names[c] \ todo[c] : before[c][n] \in SUBSET Calls
  /\ (pc[c] \in {"save", "write", "note"} /\ tool[c] \in {"edit", "extract"})
       \/ pc[c] \in {"commit", "restore", "record"}
     => \A n \in names[c] : before[c][n] \in SUBSET Calls

Fits(c) == ToolFits(c) /\ NamesFit(c) /\ TextsFit(c)

Steps == Inside \cup {"start", "lock", "note", "render", "open", "fill", "end"}

TypeInv ==
  /\ file \in [Names -> Texts]
  /\ link \in [Names -> Names]
  /\ history \in [Names -> Seq(Texts)]
  /\ cache \in [Names -> Texts \cup {None}]
  /\ holder \in [Names -> SUBSET Calls]
  /\ pc \in [Calls -> Steps]
  /\ DOMAIN tool = Calls
  /\ names \in [Calls -> SUBSET Names]
  /\ key \in [Calls -> [Names -> Names]]
  /\ target \in [Calls -> [Names -> Names]]
  /\ todo \in [Calls -> SUBSET Names]
  /\ before \in [Calls -> [Names -> Texts]]
  /\ DOMAIN reply = Calls
  /\ known \in [Names -> SUBSET Texts]
  /\ past \in [Names -> Seq(Texts)]
  /\ \A c \in Calls : Fits(c)

------------------------------------------------------------------------------
\* A set of paths has a least and a greatest one: the turns of a transaction.
LEMMA Extremes ==
  ASSUME NEW S \in SUBSET Names, S # {}
  PROVE  /\ Least(S) \in S /\ \A m \in S : Least(S) <= m
         /\ Greatest(S) \in S /\ \A m \in S : m <= Greatest(S)
<1> DEFINE Has(T) == (\E n \in T : \A m \in T : n <= m) /\ (\E n \in T : \A m \in T : m <= n)
           Bad == {k \in Nat : \E T \in SUBSET Names : T # {} /\ Cardinality(T) = k /\ ~Has(T)}
           R == {p \in Nat \X Nat : p[1] < p[2]}
<1>0. /\ Names \subseteq Int /\ \A T \in SUBSET Names : IsFiniteSet(T)
  BY FileEditsAssumption, FS_Subset DEF FileEditsAssumption
<1>1. Bad = {}
  <2> SUFFICES ASSUME Bad # {} PROVE FALSE
    OBVIOUS
  <2>1. IsWellFoundedOn(R, Nat)
    BY NatLessThanWellFounded DEF OpToRel
  <2>2. PICK k \in Bad : \A j \in Bad : ~(<<j, k>> \in R)
    <3>1. Bad \in SUBSET Nat
      OBVIOUS
    <3> HIDE DEF Bad, R
    <3> QED
      BY <2>1, <3>1, WFMin
  <2>3. PICK T \in SUBSET Names : T # {} /\ Cardinality(T) = k /\ ~Has(T)
    OBVIOUS
  <2>4. PICK x \in T : TRUE
    BY <2>3
  <2> DEFINE U == T \ {x}
  <2>5. /\ U \in SUBSET Names /\ Cardinality(U) = Cardinality(T) - 1
        /\ Cardinality(U) \in Nat /\ Cardinality(T) \in Nat
    BY <1>0, <2>3, <2>4, FS_RemoveElement, FS_CardinalityType
  <2>6. U = {} \/ Has(U)
    <3> SUFFICES ASSUME U # {}, ~Has(U) PROVE FALSE
      OBVIOUS
    <3>1. Cardinality(U) \in Bad
      BY <2>5
    <3>2. <<Cardinality(U), k>> \in R
      BY <2>3, <2>5
    <3> HIDE DEF R, Bad, U
    <3> QED
      BY <2>2, <3>1, <3>2
  <2>7. x \in Int /\ \A m \in T : m = x \/ m \in U
    BY <1>0, <2>4
  <2>8. Has(T)
    <3>1. CASE U = {}
      BY <2>4, <2>7, <3>1
    <3>2. CASE Has(U)
      <4>1. PICK n \in U : \A m \in U : n <= m
        BY <3>2
      <4>2. PICK g \in U : \A m \in U : m <= g
        BY <3>2
      <4>3. T \subseteq Int /\ U \subseteq T /\ x \in T
        BY <1>0, <2>4
      <4> HIDE DEF U
      <4>4. \E a \in T : \A m \in T : a <= m
        BY <2>7, <4>1, <4>3
      <4>5. \E a \in T : \A m \in T : m <= a
        BY <2>7, <4>2, <4>3
      <4> QED
        BY <4>4, <4>5
    <3> QED
      BY <2>6, <3>1, <3>2
  <2> QED
    BY <2>3, <2>8
<1>2. Has(S)
  <2>1. Cardinality(S) \in Nat
    BY <1>0, FS_CardinalityType
  <2> QED
    BY <1>1, <2>1
<1> QED
  BY <1>2 DEF Least, Greatest

\* The parts of a stack of snapshots.
LEMMA SequenceParts ==
  ASSUME NEW T, NEW s \in Seq(T), s # <<>>
  PROVE  Front(s) \in Seq(T) /\ Last(s) \in T /\ s = Append(Front(s), Last(s))
BY DEF Front, Last

\* Putting a snapshot on a stack.
LEMMA StackGrows ==
  ASSUME NEW T, NEW s \in Seq(T), NEW t \in T
  PROVE  /\ Append(s, t) \in Seq(T) /\ Append(s, t) # <<>>
         /\ Front(Append(s, t)) = s /\ Last(Append(s, t)) = t
BY DEF Front, Last

\* A single-file tool's path.
LEMMA NameIs ==
  ASSUME TypeInv, NEW c \in Calls, pc[c] \notin {"start", "end"}, tool[c] # "transaction"
  PROVE  Name(c) \in Names /\ names[c] = {Name(c)}
BY DEF TypeInv, Fits, NamesFit, Name

\* A path has a key.
LEMMA KeyIs == ASSUME TypeInv, NEW n \in Names PROVE LockKey(n) \in Names
BY DEF TypeInv, LockKey

\* A reply leaves the types.
LEMMA ReturnTypes ==
  ASSUME TypeInv, NEW c \in Calls, NEW result, Return(c, result)
  PROVE  /\ pc' \in [Calls -> Steps]
         /\ DOMAIN reply' = Calls /\ holder' \in [Names -> SUBSET Calls]
         /\ pc'[c] = "end" /\ \A d \in Calls \ {c} : pc'[d] = pc[d]
BY DEF TypeInv, Return, Goto, Steps

\* A text replaces what a path was.
LEMMA ReplaceTypes ==
  ASSUME TypeInv, NEW n \in Names, NEW content \in Texts, Replace(n, content)
  PROVE  file' \in [Names -> Texts] /\ link' \in [Names -> Names]
BY DEF TypeInv, Replace

\* Patching a function at the paths of a call.
Chosen(c, at, k) == Least({n \in names[c] : at[n] = k})

LEMMA PatchIs ==
  ASSUME TypeInv, NEW c \in Calls, NEW f, NEW at \in [Names -> Names], NEW new, NEW k \in Names
  PROVE  \/ Patch(f, c, at, new)[k] = f[k] /\ \A n \in names[c] : at[n] # k
         \/ /\ Chosen(c, at, k) \in names[c] /\ at[Chosen(c, at, k)] = k
            /\ Patch(f, c, at, new)[k] = new[Chosen(c, at, k)]
<1> DEFINE S == {n \in names[c] : at[n] = k}
<1>1. Patch(f, c, at, new)[k] = IF S = {} THEN f[k] ELSE new[Least(S)]
  BY DEF Patch
<1>2. S \in SUBSET Names
  BY DEF TypeInv
<1>3. S # {} => Least(S) \in S
  BY <1>2, Extremes
<1> QED
  BY <1>1, <1>3 DEF Chosen

------------------------------------------------------------------------------
\* A step of c has to fit c.
LEMMA OthersFit ==
  ASSUME TypeInv, NEW c \in Calls, Fits(c)',
         \A d \in Calls \ {c} : /\ pc'[d] = pc[d] /\ tool'[d] = tool[d] /\ names'[d] = names[d]
                                /\ todo'[d] = todo[d] /\ before'[d] = before[d]
  PROVE  \A d \in Calls : Fits(d)'
<1> SUFFICES ASSUME NEW d \in Calls, d # c PROVE Fits(d)'
  OBVIOUS
<1>1. Fits(d)
  BY DEF TypeInv
<1>2. /\ pc'[d] = pc[d] /\ tool'[d] = tool[d] /\ names'[d] = names[d] /\ todo'[d] = todo[d]
      /\ before'[d] = before[d]
  OBVIOUS
<1> QED
  BY <1>1, <1>2 DEF Fits, ToolFits, NamesFit, TextsFit

\* One step of each tool leaves the types.
LEMMA StartLockedTypes ==
  ASSUME TypeInv, NEW c \in Calls, NEW kind \in Ops, NEW S \in SUBSET Names, StartLocked(c, kind, S)
  PROVE  TypeInv'
<1>1. kind \in Lockers /\ pc[c] = "start" /\ pc'[c] \in {"end", "lock"} /\ names'[c] = S /\ tool'[c] = kind
  BY FileEditsAssumption DEF FileEditsAssumption, StartLocked, TypeInv, Lockers, Return, Goto
<1>2. kind # "transaction" => \E n \in Names : S = {n}
  BY FileEditsAssumption, FS_Subset, FS_Singleton DEF FileEditsAssumption, StartLocked
<1>3. {LockKey(n) : n \in S} \in SUBSET Names /\ {LockKey(n) : n \in S} # {}
  BY KeyIs DEF StartLocked
<1>4. /\ pc' \in [Calls -> Steps]
      /\ DOMAIN reply' = Calls /\ holder' \in [Names -> SUBSET Calls]
      /\ \A d \in Calls \ {c} : pc'[d] = pc[d]
  BY ReturnTypes DEF StartLocked, TypeInv, Goto, Steps
<1>5. /\ todo' \in [Calls -> SUBSET Names] /\ (pc'[c] = "lock" => todo'[c] # {})
      /\ \A d \in Calls \ {c} : todo'[d] = todo[d]
  BY <1>3 DEF StartLocked, TypeInv, Return, Goto
<1>6. /\ UNCHANGED <<world, history, cache, target, before, known, past>>
      /\ tool' = [tool EXCEPT ![c] = kind] /\ names' = [names EXCEPT ![c] = S]
      /\ key' = [key EXCEPT ![c] = link] /\ S # {}
  BY DEF StartLocked
<1>7. Fits(c)'
  BY <1>1, <1>2, <1>5, <1>6 DEF Fits, ToolFits, NamesFit, TextsFit
<1>8. \A d \in Calls \ {c} : /\ pc'[d] = pc[d] /\ tool'[d] = tool[d] /\ names'[d] = names[d]
                              /\ todo'[d] = todo[d] /\ before'[d] = before[d]
  BY <1>4, <1>5, <1>6 DEF TypeInv
<1>9. \A d \in Calls : Fits(d)'
  BY <1>7, <1>8, OthersFit
<1>10. /\ names' \in [Calls -> SUBSET Names] /\ DOMAIN tool' = Calls
       /\ key' \in [Calls -> [Names -> Names]]
  BY <1>6 DEF TypeInv
<1> QED
  BY <1>4, <1>5, <1>6, <1>9, <1>10 DEF TypeInv, world

LEMMA TakeLockTypes ==
  ASSUME TypeInv, NEW c \in Calls, TakeLock(c) PROVE TypeInv'
<1> DEFINE k == Least(todo[c])
<1>1. /\ pc[c] = "lock" /\ Fits(c) /\ todo[c] \in SUBSET Names
      /\ UNCHANGED <<world, history, cache, local, target, before, reply, known, past>>
  BY DEF TakeLock, TypeInv
<1>2. tool[c] \in Lockers /\ names[c] # {} /\ todo[c] # {}
  BY <1>1 DEF Fits, ToolFits, NamesFit
<1>3. k \in Names /\ k \in todo[c]
  BY <1>1, <1>2, Extremes
<1>4. /\ Mutex!Lock(c, k)
      /\ IF todo[c] = {k}
         THEN Goto(c, FirstStep(tool[c])) /\ todo' = [todo EXCEPT ![c] = names[c]]
         ELSE todo' = [todo EXCEPT ![c] = @ \ {k}] /\ UNCHANGED pc
  BY DEF TakeLock
<1> HIDE DEF k
<1>5. holder' \in [Names -> SUBSET Calls]
  BY <1>3, <1>4 DEF TypeInv, Mutex!Lock
<1>6. /\ tool[c] \in {"edit", "extract", "transaction"} => FirstStep(tool[c]) = "load"
      /\ tool[c] = "delete" => FirstStep(tool[c]) = "save"
      /\ tool[c] = "undo" => FirstStep(tool[c]) = "pop"
  BY DEF FirstStep
<1>7. FirstStep(tool[c]) \in {"load", "save", "pop"}
  BY <1>2, <1>6 DEF Lockers
<1>8. /\ pc' \in [Calls -> Steps] /\ todo' \in [Calls -> SUBSET Names]
      /\ \A d \in Calls \ {c} : /\ pc'[d] = pc[d] /\ tool'[d] = tool[d] /\ names'[d] = names[d]
                                /\ todo'[d] = todo[d] /\ before'[d] = before[d]
  <2>1. pc \in [Calls -> Steps] /\ todo \in [Calls -> SUBSET Names] /\ names[c] \in SUBSET Names
    BY DEF TypeInv
  <2>2. FirstStep(tool[c]) \in Steps
    BY <1>7 DEF Steps, Inside
  <2>3. pc' \in [Calls -> Steps] /\ \A d \in Calls \ {c} : pc'[d] = pc[d]
    BY <1>4, <2>1, <2>2 DEF Goto
  <2>4. todo' \in [Calls -> SUBSET Names] /\ \A d \in Calls \ {c} : todo'[d] = todo[d]
    BY <1>4, <2>1
  <2> QED
    BY <1>1, <2>3, <2>4 DEF local
<1>9. /\ tool'[c] = tool[c] /\ names'[c] = names[c]
      /\ IF todo[c] = {k} THEN pc'[c] = FirstStep(tool[c]) /\ todo'[c] = names[c]
         ELSE pc'[c] = "lock" /\ todo'[c] = todo[c] \ {k}
  BY <1>1, <1>4 DEF TypeInv, Goto, local
<1>10. ToolFits(c)'
  <2>1. CASE todo[c] = {k}
    BY <1>2, <1>6, <1>9, <2>1 DEF ToolFits, Lockers
  <2>2. CASE todo[c] # {k}
    BY <1>2, <1>9, <2>2 DEF ToolFits
  <2> QED
    BY <2>1, <2>2
<1>11. NamesFit(c)'
  BY <1>1, <1>2, <1>3, <1>7, <1>9 DEF Fits, NamesFit
<1>12. TextsFit(c)'
  <2>1. pc'[c] = "save" => tool[c] = "delete"
    BY <1>2, <1>6, <1>9 DEF Lockers
  <2>2. pc'[c] = "load" => todo'[c] = names'[c]
    BY <1>7, <1>9
  <2>3. pc'[c] \in {"lock", "load", "save", "pop"}
    BY <1>7, <1>9
  <2> QED
    BY <1>9, <2>1, <2>2, <2>3 DEF TextsFit
<1>13. \A d \in Calls : Fits(d)'
  BY <1>8, <1>10, <1>11, <1>12, OthersFit DEF Fits
<1> QED
  BY <1>1, <1>5, <1>8, <1>13 DEF TypeInv, world, local

\* A reply ends the call.
LEMMA ReturnFits ==
  ASSUME TypeInv, NEW c \in Calls, NEW result, Return(c, result),
         \A d \in Calls \ {c} : /\ tool'[d] = tool[d] /\ names'[d] = names[d]
                                /\ todo'[d] = todo[d] /\ before'[d] = before[d]
  PROVE  \A d \in Calls : Fits(d)'
<1>1. pc'[c] = "end" /\ \A d \in Calls \ {c} : pc'[d] = pc[d]
  BY ReturnTypes
<1>2. Fits(c)'
  BY <1>1 DEF Fits, ToolFits, NamesFit, TextsFit
<1> QED
  BY <1>1, <1>2, OthersFit

LEMMA LoadTypes ==
  ASSUME TypeInv, NEW c \in Calls, Load(c) PROVE TypeInv'
<1> DEFINE n == Least(todo[c])
<1>1. /\ pc[c] = "load" /\ Fits(c)
      /\ todo[c] \in SUBSET Names /\ names[c] \in SUBSET Names
      /\ UNCHANGED <<world, history, cache, local, known, past>>
  BY DEF Load, TypeInv
<1>2. tool[c] \in {"edit", "extract", "transaction"} /\ todo[c] # {} /\ todo[c] \subseteq names[c]
  BY <1>1 DEF Fits, ToolFits, NamesFit
<1>3. n \in Names /\ n \in todo[c]
  BY <1>1, <1>2, Extremes
<1>4. CASE Return(c, "error") /\ UNCHANGED <<before, target, todo>>
  <2>1. \A d \in Calls : Fits(d)'
    BY <1>1, <1>4, ReturnFits DEF local
  <2> QED
    BY <1>1, <1>4, <2>1, ReturnTypes DEF TypeInv, world, local
<1>5. CASE ~(Return(c, "error") /\ UNCHANGED <<before, target, todo>>)
  <2>1. /\ before' = [before EXCEPT ![c][n] = Text(n)]
        /\ target' = [target EXCEPT ![c][n] = IF tool[c] = "transaction" THEN LockKey(n) ELSE n]
        /\ UNCHANGED <<reply, holder>>
        /\ IF todo[c] = {n}
           THEN /\ pc' = [pc EXCEPT ![c] = IF tool[c] = "transaction" THEN "commit" ELSE "save"]
                /\ todo' = [todo EXCEPT ![c] = names[c]]
           ELSE todo' = [todo EXCEPT ![c] = @ \ {n}] /\ UNCHANGED pc
    BY <1>5 DEF Load, Goto
  <2>2. Text(n) \in Texts /\ LockKey(n) \in Names
    BY <1>3, KeyIs DEF Text, Texts, TypeInv
  <2>9. Text(n) \in SUBSET Calls
    BY <1>3 DEF Text, Exists, Texts, TypeInv
  <2> HIDE DEF n
  <2>3. before' \in [Calls -> [Names -> Texts]] /\ target' \in [Calls -> [Names -> Names]]
    BY <1>3, <2>1, <2>2 DEF TypeInv
  <2>4. /\ todo' \in [Calls -> SUBSET Names] /\ pc' \in [Calls -> Steps]
        /\ \A d \in Calls \ {c} : /\ pc'[d] = pc[d] /\ tool'[d] = tool[d] /\ names'[d] = names[d]
                                  /\ todo'[d] = todo[d] /\ before'[d] = before[d]
    <3>1. pc \in [Calls -> Steps] /\ todo \in [Calls -> SUBSET Names]
      BY DEF TypeInv
    <3>2. {"commit", "save"} \subseteq Steps
      BY DEF Steps, Inside
    <3>3. pc' \in [Calls -> Steps] /\ \A d \in Calls \ {c} : pc'[d] = pc[d]
      BY <2>1, <3>1, <3>2
    <3>4. todo' \in [Calls -> SUBSET Names] /\ \A d \in Calls \ {c} : todo'[d] = todo[d]
      BY <1>1, <2>1, <3>1
    <3>5. \A d \in Calls \ {c} : before'[d] = before[d]
      BY <2>1 DEF TypeInv
    <3> QED
      BY <1>1, <3>3, <3>4, <3>5 DEF local
  <2>5. /\ tool'[c] = tool[c] /\ names'[c] = names[c]
        /\ IF todo[c] = {n}
           THEN pc'[c] = (IF tool[c] = "transaction" THEN "commit" ELSE "save") /\ todo'[c] = names[c]
           ELSE pc'[c] = "load" /\ todo'[c] = todo[c] \ {n}
    BY <1>1, <2>1 DEF TypeInv, local
  <2>6. ToolFits(c)' /\ NamesFit(c)'
    BY <1>1, <1>2, <1>3, <2>5 DEF Fits, ToolFits, NamesFit
  <2>7. TextsFit(c)'
    <3>1. before'[c][n] \in SUBSET Calls
      BY <1>3, <2>1, <2>9 DEF TypeInv
    <3>2. \A m \in names[c] \ todo[c] : before'[c][m] \in SUBSET Calls
      BY <1>1, <1>3, <2>1 DEF TypeInv, Fits, TextsFit
    <3>3. CASE todo[c] = {n}
      BY <2>5, <3>1, <3>2, <3>3 DEF TextsFit
    <3>4. CASE todo[c] # {n}
      BY <2>5, <3>1, <3>2, <3>4 DEF TextsFit
    <3> QED
      BY <3>3, <3>4
  <2>8. \A d \in Calls : Fits(d)'
    BY <2>4, <2>6, <2>7, OthersFit DEF Fits
  <2> QED
    BY <1>1, <2>1, <2>3, <2>4, <2>8 DEF TypeInv, world, local
<1> QED
  BY <1>4, <1>5

LEMMA SaveHistoryTypes ==
  ASSUME TypeInv, NEW c \in Calls, SaveHistory(c) PROVE TypeInv'
<1>1. /\ pc[c] = "save" /\ Fits(c) /\ pc' = [pc EXCEPT ![c] = "write"]
      /\ UNCHANGED <<world, cache, holder, local, target, todo, before, reply, known, past>>
  BY DEF SaveHistory, TypeInv, Goto
<1>2. Name(c) \in Names
  BY <1>1, NameIs DEF Fits, ToolFits
<1>3. history' \in [Names -> Seq(Texts)]
  <2>1. LockKey(Name(c)) \in Names /\ file[LockKey(Name(c))] \in Texts
    BY <1>2, KeyIs DEF TypeInv
  <2>2. Append(history[LockKey(Name(c))], file[LockKey(Name(c))]) \in Seq(Texts)
    BY <2>1, StackGrows DEF TypeInv
  <2> QED
    BY <2>1, <2>2 DEF SaveHistory, Snapshot, TypeInv
<1>4. /\ pc' \in [Calls -> Steps] /\ pc'[c] = "write" /\ tool'[c] = tool[c] /\ names'[c] = names[c]
      /\ \A d \in Calls \ {c} : /\ pc'[d] = pc[d] /\ tool'[d] = tool[d] /\ names'[d] = names[d]
                                /\ todo'[d] = todo[d] /\ before'[d] = before[d]
  BY <1>1 DEF TypeInv, Steps, Inside, local
<1>5. Fits(c)'
  BY <1>1, <1>4 DEF Fits, ToolFits, NamesFit, TextsFit
<1>6. \A d \in Calls : Fits(d)'
  BY <1>4, <1>5, OthersFit
<1> QED
  BY <1>1, <1>3, <1>4, <1>6 DEF TypeInv, world, local

LEMMA PopHistoryTypes ==
  ASSUME TypeInv, NEW c \in Calls, PopHistory(c) PROVE TypeInv'
<1> DEFINE k == LockKey(Name(c))
<1>1. /\ pc[c] = "pop" /\ Fits(c)
      /\ UNCHANGED <<world, cache, local, target, todo, known, past>>
  BY DEF PopHistory, TypeInv
<1>2. Name(c) \in Names /\ k \in Names
  BY <1>1, NameIs, KeyIs DEF Fits, ToolFits
<1>3. CASE history[k] = <<>>
  <2>1. Return(c, "error") /\ UNCHANGED <<history, before>>
    BY <1>3 DEF PopHistory
  <2>2. \A d \in Calls : Fits(d)'
    BY <1>1, <2>1, ReturnFits DEF local
  <2> QED
    BY <1>1, <2>1, <2>2, ReturnTypes DEF TypeInv, world, local
<1>4. CASE history[k] # <<>>
  <2>1. /\ history' = [history EXCEPT ![k] = Front(@)]
        /\ before' = [before EXCEPT ![c][Name(c)] = Last(history[k])]
        /\ pc' = [pc EXCEPT ![c] = "write"] /\ UNCHANGED <<reply, holder>>
    BY <1>4 DEF PopHistory, Goto
  <2>2. history[k] \in Seq(Texts)
    BY <1>2 DEF TypeInv
  <2>3. Front(history[k]) \in Seq(Texts) /\ Last(history[k]) \in Texts
    BY <1>4, <2>2, SequenceParts
  <2> HIDE DEF k
  <2>4. history' \in [Names -> Seq(Texts)] /\ before' \in [Calls -> [Names -> Texts]]
    BY <1>2, <2>1, <2>3 DEF TypeInv
  <2>5. /\ pc' \in [Calls -> Steps] /\ pc'[c] = "write" /\ tool'[c] = tool[c] /\ names'[c] = names[c]
        /\ \A d \in Calls \ {c} : /\ pc'[d] = pc[d] /\ tool'[d] = tool[d] /\ names'[d] = names[d]
                                  /\ todo'[d] = todo[d] /\ before'[d] = before[d]
    BY <1>1, <2>1 DEF TypeInv, Steps, Inside, local
  <2>6. Fits(c)'
    BY <1>1, <2>5 DEF Fits, ToolFits, NamesFit, TextsFit
  <2>7. \A d \in Calls : Fits(d)'
    BY <2>5, <2>6, OthersFit
  <2> QED
    BY <1>1, <2>1, <2>4, <2>5, <2>7 DEF TypeInv, world, local
<1> QED
  BY <1>3, <1>4

\* What a tool writes is a text.
LEMMA ResultIs ==
  ASSUME TypeInv, NEW c \in Calls, pc[c] = "write"
  PROVE  Name(c) \in Names /\ names[c] = {Name(c)} /\ Result(c) \in Texts
<1>1. Fits(c) /\ before[c] \in [Names -> Texts] /\ tool[c] \in {"edit", "extract", "delete", "undo"}
  BY DEF TypeInv, Fits, ToolFits
<1>2. Name(c) \in Names /\ names[c] = {Name(c)}
  BY <1>1, NameIs
<1>3. before[c][Name(c)] \in Texts /\ (tool[c] \in {"edit", "extract"} => Result(c) \in Texts)
  <2> SUFFICES ASSUME tool[c] \in {"edit", "extract"} PROVE Result(c) \in Texts
    BY <1>1, <1>2
  <2>1. Result(c) = before[c][Name(c)] \cup {c}
    BY DEF Result
  <2>2. before[c][Name(c)] \in SUBSET Calls
    BY <1>1, <1>2 DEF Fits, TextsFit
  <2> QED
    BY <2>1, <2>2 DEF Texts
<1>4. (tool[c] = "undo" => Result(c) = before[c][Name(c)]) /\ (tool[c] = "delete" => Result(c) = Absent)
  BY DEF Result
<1> QED
  BY <1>1, <1>2, <1>3, <1>4 DEF Texts

LEMMA WriteTypes ==
  ASSUME TypeInv, NEW c \in Calls, Write(c) PROVE TypeInv'
<1> DEFINE n == Name(c)
<1>1. /\ pc[c] = "write" /\ Fits(c)
      /\ UNCHANGED <<history, cache, local, target, todo, before, known>>
  BY DEF Write, TypeInv
<1>2. n \in Names /\ names[c] = {n} /\ Result(c) \in Texts
  BY <1>1, ResultIs
<1>3. CASE Return(c, "error") /\ UNCHANGED <<world, past>>
  <2>1. \A d \in Calls : Fits(d)'
    BY <1>1, <1>3, ReturnFits DEF local
  <2> QED
    BY <1>1, <1>3, <2>1, ReturnTypes DEF TypeInv, world, local
<1>4. CASE ~(Return(c, "error") /\ UNCHANGED <<world, past>>)
  <2>1. /\ Replace(n, Result(c))
        /\ past' = [past EXCEPT ![n] = IF tool[c] # "undo" THEN Append(@, file[link[n]])
                                       ELSE IF @ = <<>> THEN @ ELSE Front(@)]
        /\ pc' = [pc EXCEPT ![c] = "note"] /\ UNCHANGED <<reply, holder>>
    BY <1>4 DEF Write, Goto
  <2>2. past[n] \in Seq(Texts) /\ file[link[n]] \in Texts
    BY <1>2 DEF TypeInv
  <2>3. Append(past[n], file[link[n]]) \in Seq(Texts) /\ (past[n] # <<>> => Front(past[n]) \in Seq(Texts))
    BY <2>2, StackGrows, SequenceParts
  <2> HIDE DEF n
  <2>4. past' \in [Names -> Seq(Texts)]
    BY <1>2, <2>1, <2>2, <2>3 DEF TypeInv
  <2>5. file' \in [Names -> Texts] /\ link' \in [Names -> Names]
    BY <1>2, <2>1, ReplaceTypes
  <2>6. /\ pc' \in [Calls -> Steps] /\ pc'[c] = "note" /\ tool'[c] = tool[c] /\ names'[c] = names[c]
        /\ before'[c] = before[c]
        /\ \A d \in Calls \ {c} : /\ pc'[d] = pc[d] /\ tool'[d] = tool[d] /\ names'[d] = names[d]
                                  /\ todo'[d] = todo[d] /\ before'[d] = before[d]
    BY <1>1, <2>1 DEF TypeInv, Steps, local
  <2>7. Fits(c)'
    BY <1>1, <2>6 DEF Fits, ToolFits, NamesFit, TextsFit
  <2>8. \A d \in Calls : Fits(d)'
    BY <2>6, <2>7, OthersFit
  <2> QED
    BY <1>1, <2>1, <2>4, <2>5, <2>6, <2>8 DEF TypeInv, local
<1> QED
  BY <1>3, <1>4

\* What the cache and the client learn of a text are texts.
LEMMA LearnedTypes ==
  ASSUME TypeInv, NEW n \in Names, NEW old \in Texts, NEW new \in Texts, NEW entry \in Texts \cup {None}
  PROVE  Noted(entry, old, new) \in Texts \cup {None} /\ Learned(n, old, new) \in SUBSET Texts
BY DEF TypeInv, Noted, Learned

LEMMA NoteTypes ==
  ASSUME TypeInv, NEW c \in Calls, Note(c) PROVE TypeInv'
<1> DEFINE n == Name(c)
           k == LockKey(n)
           old == before[c][n]
<1>1. /\ pc[c] = "note" /\ Fits(c) /\ Return(c, "ok") /\ before[c] \in [Names -> Texts]
      /\ UNCHANGED <<world, history, local, target, todo, before, past>>
  BY DEF Note, TypeInv
<1>2. n \in Names /\ names[c] = {n} /\ k \in Names
  BY <1>1, NameIs, KeyIs DEF Fits, ToolFits
<1>3. cache' \in [Names -> Texts \cup {None}] /\ known' \in [Names -> SUBSET Texts]
  <2>1. CASE tool[c] \in {"undo", "delete"}
    <3>1. cache' = [cache EXCEPT ![k] = None] /\ UNCHANGED known
      BY <2>1 DEF Note
    <3> HIDE DEF k
    <3> QED
      BY <1>2, <3>1 DEF TypeInv
  <2>2. CASE tool[c] = "create"
    <3>1. cache' = [cache EXCEPT ![k] = {c}] /\ known' = [known EXCEPT ![k] = @ \cup {{c}}]
      BY <2>2 DEF Note
    <3>2. {c} \in Texts
      BY DEF Texts
    <3> HIDE DEF k
    <3> QED
      BY <1>2, <3>1, <3>2 DEF TypeInv
  <2>3. CASE tool[c] \in {"edit", "extract"}
    <3>1. /\ cache' = [cache EXCEPT ![k] = Noted(@, old, old \cup {c})]
          /\ known' = [known EXCEPT ![k] = Learned(k, old, old \cup {c})]
      BY <2>3 DEF Note
    <3>2. old \in Texts /\ old \cup {c} \in Texts
      BY <1>1, <1>2, <2>3 DEF Fits, TextsFit, Texts
    <3>3. cache[k] \in Texts \cup {None}
      BY <1>2 DEF TypeInv
    <3> HIDE DEF k, old
    <3>4. /\ Noted(cache[k], old, old \cup {c}) \in Texts \cup {None}
          /\ Learned(k, old, old \cup {c}) \in SUBSET Texts
      BY <1>2, <3>2, <3>3, LearnedTypes
    <3> QED
      BY <1>2, <3>1, <3>4 DEF TypeInv
  <2> QED
    BY <1>1, <2>1, <2>2, <2>3 DEF Fits, ToolFits
<1>4. \A d \in Calls : Fits(d)'
  BY <1>1, ReturnFits DEF local
<1> QED
  BY <1>1, <1>3, <1>4, ReturnTypes DEF TypeInv, world, local

LEMMA CommitTypes ==
  ASSUME TypeInv, NEW c \in Calls, Commit(c) PROVE TypeInv'
<1> DEFINE n == Least(todo[c])
<1>1. /\ pc[c] = "commit" /\ Fits(c) /\ before[c] \in [Names -> Texts] /\ target[c] \in [Names -> Names]
      /\ todo[c] \in SUBSET Names /\ names[c] \in SUBSET Names
      /\ UNCHANGED <<history, cache, holder, local, target, before, reply, known, past>>
  BY DEF Commit, TypeInv
<1>2. todo[c] # {} /\ todo[c] \subseteq names[c] /\ tool[c] = "transaction"
  BY <1>1 DEF Fits, ToolFits, NamesFit
<1>3. n \in todo[c] /\ n \in names[c] /\ n \in Names
  BY <1>1, <1>2, Extremes
<1>4. CASE /\ Replace(target[c][n], before[c][n] \cup {c})
           /\ IF todo[c] = {n} THEN Goto(c, "record") /\ UNCHANGED todo
              ELSE todo' = [todo EXCEPT ![c] = @ \ {n}] /\ UNCHANGED pc
  <2> HIDE DEF n
  <2>1. before[c][n] \cup {c} \in Texts /\ target[c][n] \in Names
    BY <1>1, <1>3 DEF Fits, TextsFit, Texts
  <2>2. file' \in [Names -> Texts] /\ link' \in [Names -> Names]
    BY <1>4, <2>1, ReplaceTypes
  <2>3. /\ pc' \in [Calls -> Steps] /\ todo' \in [Calls -> SUBSET Names]
        /\ \A d \in Calls \ {c} : pc'[d] = pc[d] /\ todo'[d] = todo[d]
    <3>1. pc \in [Calls -> Steps] /\ todo \in [Calls -> SUBSET Names] /\ "record" \in Steps
      BY DEF TypeInv, Steps, Inside
    <3> QED
      BY <1>4, <3>1 DEF Goto
  <2>4. IF todo[c] = {n} THEN pc'[c] = "record" ELSE pc'[c] = "commit" /\ todo'[c] = todo[c] \ {n}
    BY <1>1, <1>4 DEF TypeInv, Goto
  <2>5. Fits(c)'
    BY <1>1, <1>2, <1>3, <2>4 DEF Fits, ToolFits, NamesFit, TextsFit, local
  <2>6. \A d \in Calls : Fits(d)'
    BY <1>1, <2>3, <2>5, OthersFit DEF local
  <2> QED
    BY <1>1, <2>2, <2>3, <2>6 DEF TypeInv, local
<1>5. CASE /\ todo' = [todo EXCEPT ![c] = ToRestore(c, n)] /\ Goto(c, "restore") /\ UNCHANGED world
  <2>1. ToRestore(c, n) \subseteq names[c] /\ ToRestore(c, n) \in SUBSET Names
    BY <1>1 DEF ToRestore
  <2> HIDE DEF n
  <2>2. /\ pc' \in [Calls -> Steps] /\ todo' \in [Calls -> SUBSET Names]
        /\ pc'[c] = "restore" /\ todo'[c] = ToRestore(c, n)
        /\ \A d \in Calls \ {c} : pc'[d] = pc[d] /\ todo'[d] = todo[d]
    BY <1>5, <2>1 DEF TypeInv, Steps, Inside, Goto
  <2>3. Fits(c)'
    BY <1>1, <1>2, <2>1, <2>2 DEF Fits, ToolFits, NamesFit, TextsFit, local
  <2>4. \A d \in Calls : Fits(d)'
    BY <1>1, <2>2, <2>3, OthersFit DEF local
  <2> QED
    BY <1>1, <1>5, <2>2, <2>4 DEF TypeInv, world, local
<1> QED
  BY <1>4, <1>5 DEF Commit

LEMMA RestoreTypes ==
  ASSUME TypeInv, NEW c \in Calls, Restore(c) PROVE TypeInv'
<1> DEFINE n == Greatest(todo[c])
<1>1. /\ pc[c] = "restore" /\ Fits(c) /\ before[c] \in [Names -> Texts] /\ target[c] \in [Names -> Names]
      /\ todo[c] \in SUBSET Names
      /\ UNCHANGED <<history, cache, local, target, before, known, past>>
  BY DEF Restore, TypeInv
<1>2. CASE todo[c] = {}
  <2>1. Return(c, "error") /\ UNCHANGED <<world, todo>>
    BY <1>2 DEF Restore
  <2>2. \A d \in Calls : Fits(d)'
    BY <1>1, <2>1, ReturnFits DEF local
  <2> QED
    BY <1>1, <2>1, <2>2, ReturnTypes DEF TypeInv, world, local
<1>3. CASE todo[c] # {}
  <2>1. /\ Replace(target[c][n], before[c][n]) /\ todo' = [todo EXCEPT ![c] = @ \ {n}]
        /\ UNCHANGED <<pc, reply, holder>>
    BY <1>3 DEF Restore
  <2>2. n \in todo[c] /\ n \in Names
    BY <1>1, <1>3, Extremes
  <2> HIDE DEF n
  <2>3. before[c][n] \in Texts /\ target[c][n] \in Names
    BY <1>1, <2>2
  <2>4. file' \in [Names -> Texts] /\ link' \in [Names -> Names]
    BY <2>1, <2>3, ReplaceTypes
  <2>5. /\ todo' \in [Calls -> SUBSET Names] /\ todo'[c] = todo[c] \ {n}
        /\ \A d \in Calls \ {c} : todo'[d] = todo[d]
    BY <2>1 DEF TypeInv
  <2>6. Fits(c)'
    BY <1>1, <2>1, <2>5 DEF Fits, ToolFits, NamesFit, TextsFit, local
  <2>7. \A d \in Calls : Fits(d)'
    BY <1>1, <2>1, <2>5, <2>6, OthersFit DEF local
  <2> QED
    BY <1>1, <2>1, <2>4, <2>5, <2>7 DEF TypeInv, local
<1> QED
  BY <1>2, <1>3

\* A patched function: each path keeps its value or takes the one at some file of the call.
LEMMA PatchTypes ==
  ASSUME TypeInv, NEW c \in Calls, NEW T, NEW f \in [Names -> T], NEW at \in [Names -> Names], NEW new,
         \A n \in names[c] : new[n] \in T
  PROVE  Patch(f, c, at, new) \in [Names -> T]
<1>1. \A k \in Names : Patch(f, c, at, new)[k] \in T
  <2> SUFFICES ASSUME NEW k \in Names PROVE Patch(f, c, at, new)[k] \in T
    OBVIOUS
  <2>1. \/ Patch(f, c, at, new)[k] = f[k]
        \/ /\ Chosen(c, at, k) \in names[c]
           /\ Patch(f, c, at, new)[k] = new[Chosen(c, at, k)]
    BY PatchIs
  <2> QED
    BY <2>1
<1>2. Patch(f, c, at, new) = [k \in Names |-> Patch(f, c, at, new)[k]]
  BY DEF Patch
<1> QED
  BY <1>1, <1>2

LEMMA RecordTypes ==
  ASSUME TypeInv, NEW c \in Calls, Record(c) PROVE TypeInv'
<1> DEFINE old == before[c]
           at == key[c]
           to == target[c]
           Kept == [n \in names[c] |-> Append(history[at[n]], old[n])]
           Added == [n \in names[c] |-> Append(past[to[n]], old[n])]
           Entry == [n \in names[c] |-> Noted(cache[to[n]], old[n], old[n] \cup {c})]
           Told == [n \in names[c] |-> Learned(to[n], old[n], old[n] \cup {c})]
<1>1. /\ pc[c] = "record" /\ Fits(c) /\ names[c] \in SUBSET Names
      /\ at \in [Names -> Names] /\ to \in [Names -> Names] /\ Return(c, "ok")
      /\ history' = Patch(history, c, at, Kept) /\ past' = Patch(past, c, to, Added)
      /\ cache' = Patch(cache, c, to, Entry) /\ known' = Patch(known, c, to, Told)
      /\ UNCHANGED <<world, local, target, todo, before>>
  BY DEF Record, TypeInv
<1>2. \A n \in names[c] : /\ n \in Names /\ old[n] \in Texts /\ old[n] \cup {c} \in Texts
                          /\ at[n] \in Names /\ to[n] \in Names
  BY <1>1 DEF Fits, TextsFit, Texts
<1>3. \A k \in Names : /\ history[k] \in Seq(Texts) /\ past[k] \in Seq(Texts)
                       /\ cache[k] \in Texts \cup {None}
  BY DEF TypeInv
<1>4. \A n \in names[c] : /\ Kept[n] \in Seq(Texts) /\ Added[n] \in Seq(Texts)
                          /\ Entry[n] \in Texts \cup {None} /\ Told[n] \in SUBSET Texts
  <2> SUFFICES ASSUME NEW n \in names[c]
               PROVE  /\ Kept[n] \in Seq(Texts) /\ Added[n] \in Seq(Texts)
                      /\ Entry[n] \in Texts \cup {None} /\ Told[n] \in SUBSET Texts
    OBVIOUS
  <2>1. /\ old[n] \in Texts /\ old[n] \cup {c} \in Texts /\ at[n] \in Names /\ to[n] \in Names
        /\ history[at[n]] \in Seq(Texts) /\ past[to[n]] \in Seq(Texts)
        /\ cache[to[n]] \in Texts \cup {None}
    BY <1>2, <1>3
  <2> HIDE DEF old, at, to
  <2>2. Kept[n] \in Seq(Texts) /\ Added[n] \in Seq(Texts)
    BY <2>1, StackGrows
  <2>3. Entry[n] \in Texts \cup {None} /\ Told[n] \in SUBSET Texts
    BY <2>1, LearnedTypes
  <2> QED
    BY <2>2, <2>3
<1>5. history \in [Names -> Seq(Texts)] /\ past \in [Names -> Seq(Texts)]
      /\ cache \in [Names -> Texts \cup {None}] /\ known \in [Names -> SUBSET Texts]
  BY DEF TypeInv
<1> HIDE DEF old, at, to, Kept, Added, Entry, Told
<1>6. history' \in [Names -> Seq(Texts)] /\ past' \in [Names -> Seq(Texts)]
  BY <1>1, <1>4, <1>5, PatchTypes
<1>7. cache' \in [Names -> Texts \cup {None}] /\ known' \in [Names -> SUBSET Texts]
  BY <1>1, <1>4, <1>5, PatchTypes
<1>8. \A d \in Calls : Fits(d)'
  BY <1>1, ReturnFits DEF local
<1> QED
  BY <1>1, <1>6, <1>7, <1>8, ReturnTypes DEF TypeInv, world, local

LEMMA StartViewTypes ==
  ASSUME TypeInv, NEW c \in Calls, NEW n \in Names, StartView(c, n) PROVE TypeInv'
<1>1. /\ pc[c] = "start" /\ tool' = [tool EXCEPT ![c] = "view"] /\ names' = [names EXCEPT ![c] = {n}]
      /\ UNCHANGED <<world, history, cache, key, target, todo, known, past>>
  BY DEF StartView
<1>2. DOMAIN tool' = Calls /\ names' \in [Calls -> SUBSET Names]
  BY <1>1 DEF TypeInv
<1>3. CASE Exists(n)
  <2>1. /\ before' = [before EXCEPT ![c][n] = Text(n)] /\ pc' = [pc EXCEPT ![c] = "render"]
        /\ UNCHANGED <<reply, holder>>
    BY <1>3 DEF StartView, Goto
  <2>2. Text(n) \in Texts
    BY DEF Text, Texts, TypeInv
  <2>3. before' \in [Calls -> [Names -> Texts]] /\ pc' \in [Calls -> Steps]
    BY <2>1, <2>2 DEF TypeInv, Steps
  <2>4. /\ pc'[c] = "render" /\ tool'[c] = "view" /\ names'[c] = {n}
        /\ \A d \in Calls \ {c} : /\ pc'[d] = pc[d] /\ tool'[d] = tool[d] /\ names'[d] = names[d]
                                  /\ todo'[d] = todo[d] /\ before'[d] = before[d]
    BY <1>1, <2>1 DEF TypeInv
  <2>5. Fits(c)'
    BY <2>4 DEF Fits, ToolFits, NamesFit, TextsFit
  <2>6. \A d \in Calls : Fits(d)'
    BY <2>4, <2>5, OthersFit
  <2> QED
    BY <1>1, <1>2, <2>1, <2>3, <2>6 DEF TypeInv, world
<1>4. CASE ~Exists(n)
  <2>1. Return(c, "error") /\ UNCHANGED before
    BY <1>4 DEF StartView
  <2>2. \A d \in Calls : Fits(d)'
    BY <1>1, <2>1, ReturnFits DEF TypeInv
  <2> QED
    BY <1>1, <1>2, <2>1, <2>2, ReturnTypes DEF TypeInv, world
<1> QED
  BY <1>3, <1>4

LEMMA RenderTypes ==
  ASSUME TypeInv, NEW c \in Calls, Render(c) PROVE TypeInv'
<1> DEFINE k == LockKey(Name(c))
           shown == before[c][Name(c)]
<1>1. /\ pc[c] = "render" /\ Fits(c) /\ Return(c, "ok") /\ before[c] \in [Names -> Texts]
      /\ cache' = [cache EXCEPT ![k] = shown] /\ known' = [known EXCEPT ![k] = @ \cup {shown}]
      /\ UNCHANGED <<world, history, local, target, todo, before, past>>
  BY DEF Render, TypeInv
<1>2. k \in Names /\ shown \in Texts
  BY <1>1, NameIs, KeyIs DEF Fits, ToolFits
<1> HIDE DEF k, shown
<1>3. cache' \in [Names -> Texts \cup {None}] /\ known' \in [Names -> SUBSET Texts]
  BY <1>1, <1>2 DEF TypeInv
<1>4. \A d \in Calls : Fits(d)'
  BY <1>1, ReturnFits DEF local
<1> QED
  BY <1>1, <1>3, <1>4, ReturnTypes DEF TypeInv, world, local

LEMMA StartCreateTypes ==
  ASSUME TypeInv, NEW c \in Calls, NEW n \in Names, StartCreate(c, n) PROVE TypeInv'
<1>1. /\ pc[c] = "start" /\ tool' = [tool EXCEPT ![c] = "create"] /\ names' = [names EXCEPT ![c] = {n}]
      /\ UNCHANGED <<world, history, cache, key, target, todo, before, known, past>>
  BY DEF StartCreate
<1>2. DOMAIN tool' = Calls /\ names' \in [Calls -> SUBSET Names]
  BY <1>1 DEF TypeInv
<1>3. CASE Exists(n)
  <2>1. Return(c, "error")
    BY <1>3 DEF StartCreate
  <2>2. \A d \in Calls : Fits(d)'
    BY <1>1, <2>1, ReturnFits DEF TypeInv
  <2> QED
    BY <1>1, <1>2, <2>1, <2>2, ReturnTypes DEF TypeInv, world
<1>4. CASE ~Exists(n)
  <2>1. pc' = [pc EXCEPT ![c] = "open"] /\ UNCHANGED <<reply, holder>>
    BY <1>4 DEF StartCreate, Goto
  <2>2. pc' \in [Calls -> Steps]
    BY <2>1 DEF TypeInv, Steps
  <2>3. /\ pc'[c] = "open" /\ tool'[c] = "create" /\ names'[c] = {n}
        /\ \A d \in Calls \ {c} : /\ pc'[d] = pc[d] /\ tool'[d] = tool[d] /\ names'[d] = names[d]
                                  /\ todo'[d] = todo[d] /\ before'[d] = before[d]
    BY <1>1, <2>1 DEF TypeInv
  <2>4. Fits(c)'
    BY <2>3 DEF Fits, ToolFits, NamesFit, TextsFit
  <2>5. \A d \in Calls : Fits(d)'
    BY <2>3, <2>4, OthersFit
  <2> QED
    BY <1>1, <1>2, <2>1, <2>2, <2>5 DEF TypeInv, world
<1> QED
  BY <1>3, <1>4

\* The two steps of a create once it has found no file.
LEMMA CreateTypes ==
  ASSUME TypeInv, NEW c \in Calls, Open(c) \/ Fill(c) PROVE TypeInv'
<1>1. /\ pc[c] \in {"open", "fill"} /\ Fits(c) /\ names[c] \in SUBSET Names
      /\ pc' = [pc EXCEPT ![c] = IF pc[c] = "open" THEN "fill" ELSE "note"]
      /\ UNCHANGED <<link, history, cache, holder, local, target, todo, before, reply, known, past>>
  BY DEF Open, Fill, Goto, TypeInv
<1>2. tool[c] = "create" /\ Name(c) \in Names
  BY <1>1, NameIs DEF Fits, ToolFits
<1>3. file' \in [Names -> Texts]
  <2>1. CASE Open(c)
    <3>1. file' = [file EXCEPT ![link[Name(c)]] = {}]
      BY <2>1 DEF Open
    <3> QED
      BY <3>1 DEF TypeInv, Texts
  <2>2. CASE Fill(c)
    <3>1. PICK rest \in SUBSET Calls :
            file' = [k \in Names |-> IF c \in opened[k] THEN {c} \cup (file[k] \cap rest) ELSE file[k]]
      BY <2>2 DEF Fill
    <3>2. \A k \in Names : file[k] \in Texts /\ {c} \cup (file[k] \cap rest) \in Texts
      BY DEF TypeInv, Texts
    <3> QED
      BY <3>1, <3>2
  <2> QED
    BY <2>1, <2>2
<1>4. /\ pc' \in [Calls -> Steps] /\ pc'[c] \in {"fill", "note"}
      /\ \A d \in Calls \ {c} : pc'[d] = pc[d]
  BY <1>1 DEF TypeInv, Steps
<1>5. Fits(c)'
  BY <1>1, <1>2, <1>4 DEF Fits, ToolFits, NamesFit, TextsFit, local
<1>6. \A d \in Calls : Fits(d)'
  BY <1>1, <1>4, <1>5, OthersFit DEF local
<1> QED
  BY <1>1, <1>3, <1>4, <1>6 DEF TypeInv, local

LEMMA InitTypes == Init => TypeInv
<1> SUFFICES ASSUME Init PROVE TypeInv
  OBVIOUS
<1>1. LinkOf \in [Names -> Names] /\ {} \in Texts /\ Absent \in Texts
  BY FileEditsAssumption DEF FileEditsAssumption, Texts
<1>2. <<>> \in Seq(Texts)
  OBVIOUS
<1>3. /\ file \in [Names -> Texts] /\ link \in [Names -> Names] /\ cache \in [Names -> Texts \cup {None}]
      /\ holder \in [Names -> SUBSET Calls] /\ known \in [Names -> SUBSET Texts]
  BY <1>1 DEF Init, Mutex!MutexInit
<1>4. history \in [Names -> Seq(Texts)] /\ past \in [Names -> Seq(Texts)]
  BY <1>2 DEF Init
<1>5. /\ pc \in [Calls -> Steps] /\ DOMAIN tool = Calls /\ DOMAIN reply = Calls
      /\ names \in [Calls -> SUBSET Names] /\ todo \in [Calls -> SUBSET Names]
  BY DEF Init, Steps
<1>6. /\ key \in [Calls -> [Names -> Names]] /\ target \in [Calls -> [Names -> Names]]
      /\ before \in [Calls -> [Names -> Texts]]
  BY <1>1 DEF Init
<1>7. \A c \in Calls : Fits(c)
  BY DEF Init, Fits, ToolFits, NamesFit, TextsFit
<1> QED
  BY <1>3, <1>4, <1>5, <1>6, <1>7 DEF TypeInv

\* A step of the tools, by what moves.
LEMMA NextTypes ==
  ASSUME TypeInv, [Next]_vars PROVE TypeInv'
<1>1. ASSUME NEW c \in Calls, NEW kind \in Ops, NEW S \in SUBSET Names, StartLocked(c, kind, S) PROVE TypeInv'
  BY <1>1, StartLockedTypes
<1>2. ASSUME NEW c \in Calls, TakeLock(c) PROVE TypeInv'
  BY <1>2, TakeLockTypes
<1>3. ASSUME NEW c \in Calls, Load(c) PROVE TypeInv'
  BY <1>3, LoadTypes
<1>4. ASSUME NEW c \in Calls, SaveHistory(c) PROVE TypeInv'
  BY <1>4, SaveHistoryTypes
<1>5. ASSUME NEW c \in Calls, PopHistory(c) PROVE TypeInv'
  BY <1>5, PopHistoryTypes
<1>6. ASSUME NEW c \in Calls, Write(c) PROVE TypeInv'
  BY <1>6, WriteTypes
<1>7. ASSUME NEW c \in Calls, Note(c) PROVE TypeInv'
  BY <1>7, NoteTypes
<1>8. ASSUME NEW c \in Calls, Commit(c) PROVE TypeInv'
  BY <1>8, CommitTypes
<1>9. ASSUME NEW c \in Calls, Restore(c) PROVE TypeInv'
  BY <1>9, RestoreTypes
<1>10. ASSUME NEW c \in Calls, Record(c) PROVE TypeInv'
  BY <1>10, RecordTypes
<1>11. ASSUME NEW c \in Calls, NEW n \in Names, StartView(c, n) \/ StartCreate(c, n) PROVE TypeInv'
  BY <1>11, StartViewTypes, StartCreateTypes
<1>12. ASSUME NEW c \in Calls, Render(c) PROVE TypeInv'
  BY <1>12, RenderTypes
<1>13. ASSUME NEW c \in Calls, Open(c) \/ Fill(c) PROVE TypeInv'
  BY <1>13, CreateTypes
<1>14. CASE UNCHANGED vars
  <2>1. \A c \in Calls : Fits(c)'
    BY <1>14 DEF TypeInv, vars, world, local, Fits, ToolFits, NamesFit, TextsFit
  <2> QED
    BY <1>14, <2>1 DEF TypeInv, vars, world, local
<1> QED
  BY <1>1, <1>2, <1>3, <1>4, <1>5, <1>6, <1>7, <1>8, <1>9, <1>10, <1>11, <1>12, <1>13, <1>14
  DEF Next, Terminated

\* Whatever the tools do, calls, files, snapshots and cache entries are what
\* they should be, and a call is at a step its tool has.
THEOREM TypeInvCorrect == Spec => []TypeInv
<1>1. Init => TypeInv
  BY InitTypes
<1>2. TypeInv /\ [Next]_vars => TypeInv'
  BY NextTypes
<1> QED
  BY <1>1, <1>2, PTL DEF Spec

------------------------------------------------------------------------------
\* The cache hears of a step old -> new: an entry it keeps is one the client
\* knew, brought forward.
LEMMA NotedIsKnown ==
  ASSUME TypeInv, CacheIsKnown, NEW n \in Names, NEW old \in Texts, NEW new,
         Noted(cache[n], old, new) # None
  PROVE  Noted(cache[n], old, new) = new /\ new \in Learned(n, old, new)
<1>1. None \notin Texts
  BY FileEditsAssumption DEF FileEditsAssumption, Texts
<1>2. cache[n] = old /\ Noted(cache[n], old, new) = new
  BY DEF Noted
<1>3. old \in known[n]
  BY <1>1, <1>2 DEF CacheIsKnown
<1> QED
  BY <1>2, <1>3 DEF Learned

LEMMA NoteKnown == ASSUME TypeInv, CacheIsKnown, NEW c \in Calls, Note(c) PROVE CacheIsKnown'
<1> DEFINE n == Name(c)
           k == LockKey(n)
           old == before[c][n]
<1>1. pc[c] = "note" /\ Fits(c) /\ before[c] \in [Names -> Texts]
  BY DEF Note, TypeInv
<1>2. n \in Names /\ names[c] = {n} /\ k \in Names
  BY <1>1, NameIs, KeyIs DEF Fits, ToolFits
<1>3. DOMAIN cache = Names /\ DOMAIN known = Names
  BY DEF TypeInv
<1>4. CASE tool[c] \in {"undo", "delete"}
  <2>1. cache' = [cache EXCEPT ![k] = None] /\ UNCHANGED known
    BY <1>4 DEF Note
  <2> HIDE DEF k
  <2> QED
    BY <1>2, <1>3, <2>1 DEF CacheIsKnown
<1>5. CASE tool[c] = "create"
  <2>1. cache' = [cache EXCEPT ![k] = {c}] /\ known' = [known EXCEPT ![k] = @ \cup {{c}}]
    BY <1>5 DEF Note
  <2> HIDE DEF k
  <2> QED
    BY <1>2, <1>3, <2>1 DEF CacheIsKnown
<1>6. CASE tool[c] \in {"edit", "extract"}
  <2>1. /\ cache' = [cache EXCEPT ![k] = Noted(cache[k], old, old \cup {c})]
        /\ known' = [known EXCEPT ![k] = Learned(k, old, old \cup {c})]
    BY <1>6 DEF Note
  <2>2. old \in Texts
    BY <1>1, <1>2
  <2> HIDE DEF k, old
  <2>3. Noted(cache[k], old, old \cup {c}) # None
          => Noted(cache[k], old, old \cup {c}) \in Learned(k, old, old \cup {c})
    BY <1>2, <2>2, NotedIsKnown
  <2> QED
    BY <1>2, <1>3, <2>1, <2>3 DEF CacheIsKnown
<1> QED
  BY <1>1, <1>4, <1>5, <1>6 DEF Fits, ToolFits

LEMMA RecordKnown == ASSUME TypeInv, CacheIsKnown, NEW c \in Calls, Record(c) PROVE CacheIsKnown'
<1> DEFINE old == before[c]
           to == target[c]
           Entry == [n \in names[c] |-> Noted(cache[to[n]], old[n], old[n] \cup {c})]
           Told == [n \in names[c] |-> Learned(to[n], old[n], old[n] \cup {c})]
<1>1. /\ names[c] \in SUBSET Names /\ to \in [Names -> Names] /\ old \in [Names -> Texts]
      /\ cache' = Patch(cache, c, to, Entry) /\ known' = Patch(known, c, to, Told)
  BY DEF Record, TypeInv
<1> SUFFICES ASSUME NEW k \in Names, cache'[k] # None PROVE cache'[k] \in known'[k]
  BY DEF CacheIsKnown
<1> DEFINE S == {n \in names[c] : to[n] = k}
           m == Least(S)
<1>2. /\ cache'[k] = (IF S = {} THEN cache[k] ELSE Entry[m])
      /\ known'[k] = (IF S = {} THEN known[k] ELSE Told[m])
  BY <1>1 DEF Patch
<1>3. CASE S = {}
  BY <1>2, <1>3 DEF CacheIsKnown
<1>4. CASE S # {}
  <2>1. m \in S
    BY <1>1, <1>4, Extremes
  <2>2. /\ m \in names[c] /\ m \in Names /\ to[m] = k /\ old[m] \in Texts
        /\ cache'[k] = Noted(cache[k], old[m], old[m] \cup {c})
        /\ known'[k] = Learned(k, old[m], old[m] \cup {c})
    BY <1>1, <1>2, <1>4, <2>1
  <2> HIDE DEF m, old, to
  <2>3. Noted(cache[k], old[m], old[m] \cup {c}) \in Learned(k, old[m], old[m] \cup {c})
    BY <2>2, NotedIsKnown
  <2> QED
    BY <2>2, <2>3
<1> QED
  BY <1>3, <1>4

LEMMA RenderKnown == ASSUME TypeInv, CacheIsKnown, NEW c \in Calls, Render(c) PROVE CacheIsKnown'
<1> DEFINE k == LockKey(Name(c))
           shown == before[c][Name(c)]
<1>1. /\ pc[c] = "render" /\ Fits(c) /\ DOMAIN cache = Names /\ DOMAIN known = Names
      /\ cache' = [cache EXCEPT ![k] = shown] /\ known' = [known EXCEPT ![k] = @ \cup {shown}]
  BY DEF Render, TypeInv
<1>2. k \in Names
  BY <1>1, NameIs, KeyIs DEF Fits, ToolFits
<1> HIDE DEF k, shown
<1> QED
  BY <1>1, <1>2 DEF CacheIsKnown

\* Whatever views, edits, undos, creates and transactions interleave, and
\* whatever links lead where, the view cache holds for a file only a content
\* that the client was shown or wrote: "unchanged since you last viewed it"
\* is true when the server says it.
THEOREM CacheIsKnownCorrect == Spec => []CacheIsKnown
<1>1. Init => CacheIsKnown
  BY DEF Init, CacheIsKnown
<1>2. ASSUME TypeInv, CacheIsKnown, [Next]_vars PROVE CacheIsKnown'
  <2>1. ASSUME NEW c \in Calls, Note(c) \/ Record(c) \/ Render(c) PROVE CacheIsKnown'
    BY <1>2, <2>1, NoteKnown, RecordKnown, RenderKnown
  <2>2. CASE UNCHANGED <<cache, known>>
    BY <1>2, <2>2 DEF CacheIsKnown
  <2>3. ASSUME NEW c \in Calls, NEW kind \in Ops, NEW S \in SUBSET Names, StartLocked(c, kind, S)
        PROVE  UNCHANGED <<cache, known>>
    BY <2>3 DEF StartLocked
  <2>4. ASSUME NEW c \in Calls, TakeLock(c) \/ Load(c) \/ SaveHistory(c) \/ PopHistory(c)
        PROVE  UNCHANGED <<cache, known>>
    BY <2>4 DEF TakeLock, Load, SaveHistory, PopHistory
  <2>5. ASSUME NEW c \in Calls, Write(c) \/ Commit(c) \/ Restore(c)
        PROVE  UNCHANGED <<cache, known>>
    BY <2>5 DEF Write, Commit, Restore
  <2>6. ASSUME NEW c \in Calls, NEW n \in Names, StartView(c, n) \/ StartCreate(c, n)
        PROVE  UNCHANGED <<cache, known>>
    BY <2>6 DEF StartView, StartCreate
  <2>7. ASSUME NEW c \in Calls, Open(c) \/ Fill(c) PROVE UNCHANGED <<cache, known>>
    BY <2>7 DEF Open, Fill
  <2> QED
    BY <1>2, <2>1, <2>2, <2>3, <2>4, <2>5, <2>6, <2>7 DEF Next, Terminated, vars
<1> QED
  BY <1>1, <1>2, TypeInvCorrect, PTL DEF Spec

------------------------------------------------------------------------------
\* No path is a symbolic link: the lock key of a path is the path.
NoPathIsALink == LinkOf = [n \in Names |-> n]

Straight ==
  /\ \A n \in Names : link[n] = n
  /\ \A c \in Calls, n \in Names : key[c][n] = n /\ target[c][n] = n

\* A call holds the paths it is done locking, and all of its paths once inside.
Holds(c) ==
  /\ pc[c] = "lock" => todo[c] \subseteq names[c] /\ \A n \in names[c] \ todo[c] : c \in holder[n]
  /\ pc[c] \in Inside \/ (pc[c] = "note" /\ tool[c] # "create") => \A n \in names[c] : c \in holder[n]

\* A path has one holder.
Alone == \A n \in Names : \A c, d \in holder[n] : c = d

LockInv == Straight /\ Alone /\ \A c \in Calls : Holds(c)

\* The other calls see nothing of a step of c but what it does to shared state.
StepOf(c) ==
  \A d \in Calls \ {c} :
    /\ pc'[d] = pc[d] /\ tool'[d] = tool[d] /\ names'[d] = names[d] /\ todo'[d] = todo[d]
    /\ before'[d] = before[d] /\ reply'[d] = reply[d]
    /\ \A n \in Names : d \in holder'[n] <=> d \in holder[n]

\* A step of some call.
Acts(c) ==
  \/ \E kind \in Ops, S \in SUBSET Names : StartLocked(c, kind, S)
  \/ TakeLock(c) \/ Load(c) \/ SaveHistory(c) \/ PopHistory(c)
  \/ Write(c) \/ Note(c)
  \/ Commit(c) \/ Restore(c) \/ Record(c)
  \/ \E n \in Names : StartView(c, n) \/ StartCreate(c, n)
  \/ Render(c) \/ Open(c) \/ Fill(c)

LEMMA NextIsAct == [Next]_vars => (\E c \in Calls : Acts(c)) \/ UNCHANGED vars
BY DEF Next, Acts, Terminated

\* A reply is seen by its caller alone.
LEMMA ReturnIsOf ==
  ASSUME TypeInv, NEW c \in Calls, NEW result, Return(c, result)
  PROVE  \A d \in Calls \ {c} : /\ pc'[d] = pc[d] /\ reply'[d] = reply[d]
                                /\ \A n \in Names : d \in holder'[n] <=> d \in holder[n]
BY DEF TypeInv, Return, Goto

LEMMA ActIsOf == ASSUME TypeInv, NEW c \in Calls, Acts(c) PROVE StepOf(c)
<1>1. ASSUME NEW kind \in Ops, NEW S \in SUBSET Names, StartLocked(c, kind, S) PROVE StepOf(c)
  <2>1. UNCHANGED before /\ tool' = [tool EXCEPT ![c] = kind] /\ names' = [names EXCEPT ![c] = S]
    BY <1>1 DEF StartLocked
  <2>2. \/ Return(c, "error") /\ UNCHANGED todo
        \/ /\ todo' = [todo EXCEPT ![c] = {LockKey(n) : n \in S}]
           /\ pc' = [pc EXCEPT ![c] = "lock"] /\ UNCHANGED <<reply, holder>>
    BY <1>1 DEF StartLocked, Goto
  <2> QED
    BY <2>1, <2>2, ReturnIsOf DEF StepOf, TypeInv
<1>2. ASSUME TakeLock(c) PROVE StepOf(c)
  <2> DEFINE k == Least(todo[c])
  <2>1. /\ holder[k] = {} /\ holder' = [holder EXCEPT ![k] = {c}]
        /\ IF todo[c] = {k}
           THEN Goto(c, FirstStep(tool[c])) /\ todo' = [todo EXCEPT ![c] = names[c]]
           ELSE todo' = [todo EXCEPT ![c] = @ \ {k}] /\ UNCHANGED pc
        /\ UNCHANGED <<tool, names, before, reply>>
    BY <1>2 DEF TakeLock, Mutex!Lock, local
  <2> HIDE DEF k
  <2>2. \A d \in Calls \ {c} : pc'[d] = pc[d] /\ todo'[d] = todo[d]
    BY <2>1 DEF TypeInv, Goto
  <2>3. \A d \in Calls \ {c}, n \in Names : d \in holder'[n] <=> d \in holder[n]
    BY <2>1 DEF TypeInv
  <2> QED
    BY <2>1, <2>2, <2>3 DEF StepOf
<1>3. ASSUME Load(c) PROVE StepOf(c)
  <2> DEFINE n == Least(todo[c])
  <2>1. UNCHANGED <<tool, names>>
    BY <1>3 DEF Load, local
  <2>2. \/ /\ before' = [before EXCEPT ![c][n] = Text(n)] /\ UNCHANGED <<reply, holder>>
           /\ IF todo[c] = {n}
              THEN /\ Goto(c, IF tool[c] = "transaction" THEN "commit" ELSE "save")
                   /\ todo' = [todo EXCEPT ![c] = names[c]]
              ELSE todo' = [todo EXCEPT ![c] = @ \ {n}] /\ UNCHANGED pc
        \/ Return(c, "error") /\ UNCHANGED <<before, todo>>
    BY <1>3 DEF Load
  <2> HIDE DEF n
  <2>3. \A d \in Calls \ {c} : pc'[d] = pc[d] /\ todo'[d] = todo[d] /\ before'[d] = before[d]
    BY <2>2, ReturnIsOf DEF TypeInv, Goto
  <2> QED
    BY <2>1, <2>2, <2>3, ReturnIsOf DEF StepOf
<1>4. ASSUME SaveHistory(c) PROVE StepOf(c)
  BY <1>4 DEF SaveHistory, Goto, StepOf, TypeInv, local
<1>5. ASSUME PopHistory(c) PROVE StepOf(c)
  <2>1. UNCHANGED <<tool, names, todo>>
    BY <1>5 DEF PopHistory, local
  <2>2. \/ Return(c, "error") /\ UNCHANGED before
        \/ /\ before' = [before EXCEPT ![c][Name(c)] = Last(history[LockKey(Name(c))])]
           /\ Goto(c, "write") /\ UNCHANGED <<reply, holder>>
    BY <1>5 DEF PopHistory
  <2> QED
    BY <2>1, <2>2, ReturnIsOf DEF StepOf, TypeInv, Goto
<1>6. ASSUME Write(c) PROVE StepOf(c)
  <2>1. UNCHANGED <<tool, names, todo, before>>
    BY <1>6 DEF Write, local
  <2>2. Return(c, "error") \/ (Goto(c, "note") /\ UNCHANGED <<reply, holder>>)
    BY <1>6 DEF Write
  <2> QED
    BY <2>1, <2>2, ReturnIsOf DEF StepOf, TypeInv, Goto
<1>7. ASSUME Note(c) PROVE StepOf(c)
  BY <1>7, ReturnIsOf DEF Note, StepOf, local
<1>8. ASSUME Commit(c) PROVE StepOf(c)
  <2>1. UNCHANGED <<tool, names, before, reply, holder>>
    BY <1>8 DEF Commit, local
  <2>2. \/ Goto(c, "record") /\ UNCHANGED todo
        \/ todo' = [todo EXCEPT ![c] = @ \ {Least(todo[c])}] /\ UNCHANGED pc
        \/ todo' = [todo EXCEPT ![c] = ToRestore(c, Least(todo[c]))] /\ Goto(c, "restore")
    BY <1>8 DEF Commit
  <2> QED
    BY <2>1, <2>2 DEF StepOf, TypeInv, Goto
<1>9. ASSUME Restore(c) PROVE StepOf(c)
  <2>1. UNCHANGED <<tool, names, before>>
    BY <1>9 DEF Restore, local
  <2>2. \/ Return(c, "error") /\ UNCHANGED todo
        \/ todo' = [todo EXCEPT ![c] = @ \ {Greatest(todo[c])}] /\ UNCHANGED <<pc, reply, holder>>
    BY <1>9 DEF Restore
  <2> QED
    BY <2>1, <2>2, ReturnIsOf DEF StepOf, TypeInv
<1>10. ASSUME Record(c) PROVE StepOf(c)
  BY <1>10, ReturnIsOf DEF Record, StepOf, local
<1>11. ASSUME NEW n \in Names, StartView(c, n) \/ StartCreate(c, n) PROVE StepOf(c)
  <2>1. /\ UNCHANGED todo /\ \E kind \in {"view", "create"} : tool' = [tool EXCEPT ![c] = kind]
        /\ names' = [names EXCEPT ![c] = {n}]
    BY <1>11 DEF StartView, StartCreate
  <2>2. UNCHANGED before \/ before' = [before EXCEPT ![c][n] = Text(n)]
    BY <1>11 DEF StartView, StartCreate
  <2>3. \/ Return(c, "error")
        \/ (\E where \in {"render", "open"} : Goto(c, where)) /\ UNCHANGED <<reply, holder>>
    BY <1>11 DEF StartView, StartCreate
  <2> QED
    BY <2>1, <2>2, <2>3, ReturnIsOf DEF StepOf, TypeInv, Goto
<1>12. ASSUME Render(c) PROVE StepOf(c)
  BY <1>12, ReturnIsOf DEF Render, StepOf, local
<1>13. ASSUME Open(c) \/ Fill(c) PROVE StepOf(c)
  BY <1>13 DEF Open, Fill, Goto, StepOf, TypeInv, local
<1> QED
  BY <1>1, <1>2, <1>3, <1>4, <1>5, <1>6, <1>7, <1>8, <1>9, <1>10, <1>11, <1>12, <1>13 DEF Acts

\* A path that is no link is its own key and holds its own file.
LEMMA StraightPath ==
  ASSUME Straight, NEW n \in Names
  PROVE  link[n] = n /\ LockKey(n) = n /\ (Exists(n) <=> file[n] # Absent)
BY DEF Straight, LockKey, Exists

\* A call fixes its keys when it starts, its targets when it loads.
LEMMA KeyAndTarget ==
  ASSUME [Next]_vars
  PROVE  /\ UNCHANGED key \/ \E c \in Calls : key' = [key EXCEPT ![c] = link]
         /\ UNCHANGED target \/ \E c \in Calls : Load(c)
<1>1. ASSUME NEW c \in Calls, NEW kind \in Ops, NEW S \in SUBSET Names, StartLocked(c, kind, S)
      PROVE  key' = [key EXCEPT ![c] = link] /\ UNCHANGED target
  BY <1>1 DEF StartLocked
<1>2. ASSUME NEW c \in Calls, TakeLock(c) \/ SaveHistory(c) \/ PopHistory(c) \/ Write(c)
      PROVE  UNCHANGED key /\ UNCHANGED target
  BY <1>2 DEF TakeLock, SaveHistory, PopHistory, Write, local
<1>3. ASSUME NEW c \in Calls, Note(c) \/ Commit(c) \/ Restore(c) \/ Record(c)
      PROVE  UNCHANGED key /\ UNCHANGED target
  BY <1>3 DEF Note, Commit, Restore, Record, local
<1>4. ASSUME NEW c \in Calls, NEW n \in Names, StartView(c, n) \/ StartCreate(c, n)
      PROVE  UNCHANGED key /\ UNCHANGED target
  BY <1>4 DEF StartView, StartCreate
<1>5. ASSUME NEW c \in Calls, Render(c) \/ Open(c) \/ Fill(c) PROVE UNCHANGED key /\ UNCHANGED target
  BY <1>5 DEF Render, Open, Fill, local
<1>6. ASSUME NEW c \in Calls, Load(c) PROVE UNCHANGED key
  BY <1>6 DEF Load, local
<1>7. CASE UNCHANGED vars
  BY <1>7 DEF vars, local
<1> QED
  BY <1>1, <1>2, <1>3, <1>4, <1>5, <1>6, <1>7 DEF Next, Terminated

\* No tool makes a link.
LEMMA StraightStep ==
  ASSUME TypeInv, Straight, [Next]_vars PROVE Straight'
<1>1. link' = link
  <2>1. ASSUME NEW n \in Names, NEW content, Replace(n, content) PROVE link' = link
    <3>1. link' = [link EXCEPT ![n] = n] /\ link[n] = n /\ link \in [Names -> Names]
      BY <2>1 DEF Replace, Straight, TypeInv
    <3> QED
      BY <3>1
  <2>2. ASSUME NEW c \in Calls, Write(c) PROVE link' = link
    <3>1. pc[c] = "write" /\ (Replace(Name(c), Result(c)) \/ UNCHANGED world)
      BY <2>2 DEF Write
    <3>2. Name(c) \in Names
      BY <3>1, ResultIs
    <3> QED
      BY <2>1, <3>1, <3>2 DEF world
  <2>3. ASSUME NEW c \in Calls, Commit(c) PROVE link' = link
    <3> DEFINE n == Least(todo[c])
    <3>1. /\ pc[c] = "commit" /\ Fits(c) /\ todo[c] \in SUBSET Names /\ target[c] \in [Names -> Names]
          /\ Replace(target[c][n], before[c][n] \cup {c}) \/ UNCHANGED world
      BY <2>3 DEF Commit, TypeInv
    <3>2. target[c][n] \in Names
      BY <3>1, Extremes DEF Fits, NamesFit
    <3> QED
      BY <2>1, <3>1, <3>2 DEF world
  <2>4. ASSUME NEW c \in Calls, Restore(c) PROVE link' = link
    <3> DEFINE n == Greatest(todo[c])
    <3>1. /\ todo[c] \in SUBSET Names /\ target[c] \in [Names -> Names]
          /\ (todo[c] # {} /\ Replace(target[c][n], before[c][n])) \/ UNCHANGED world
      BY <2>4 DEF Restore, TypeInv
    <3>2. todo[c] # {} => target[c][n] \in Names
      BY <3>1, Extremes
    <3> QED
      BY <2>1, <3>1, <3>2 DEF world
  <2>5. ASSUME NEW c \in Calls, NEW kind \in Ops, NEW S \in SUBSET Names, StartLocked(c, kind, S)
        PROVE  link' = link
    BY <2>5 DEF StartLocked, world
  <2>6. ASSUME NEW c \in Calls, TakeLock(c) \/ Load(c) \/ SaveHistory(c) \/ PopHistory(c) PROVE link' = link
    BY <2>6 DEF TakeLock, Load, SaveHistory, PopHistory, world
  <2>7. ASSUME NEW c \in Calls, Note(c) \/ Record(c) \/ Render(c) PROVE link' = link
    BY <2>7 DEF Note, Record, Render, world
  <2>8. ASSUME NEW c \in Calls, NEW n \in Names, StartView(c, n) \/ StartCreate(c, n) PROVE link' = link
    BY <2>8 DEF StartView, StartCreate, world
  <2>9. ASSUME NEW c \in Calls, Open(c) \/ Fill(c) PROVE link' = link
    BY <2>9 DEF Open, Fill
  <2> QED
    BY <2>2, <2>3, <2>4, <2>5, <2>6, <2>7, <2>8, <2>9 DEF Next, Terminated, vars, world
<1>2. \A c \in Calls, n \in Names : key'[c][n] = n
  <2>1. UNCHANGED key \/ \E c \in Calls : key' = [key EXCEPT ![c] = link]
    BY KeyAndTarget
  <2> QED
    BY <2>1 DEF Straight, TypeInv
<1>3. \A c \in Calls, n \in Names : target'[c][n] = n
  <2>1. UNCHANGED target \/ \E c \in Calls : Load(c)
    BY KeyAndTarget
  <2>2. ASSUME NEW c \in Calls, Load(c) PROVE \A d \in Calls, m \in Names : target'[d][m] = m
    <3> DEFINE n == Least(todo[c])
    <3>1. /\ pc[c] = "load" /\ Fits(c) /\ todo[c] \in SUBSET Names
          /\ \/ UNCHANGED target
             \/ target' = [target EXCEPT ![c][n] = IF tool[c] = "transaction" THEN LockKey(n) ELSE n]
      BY <2>2 DEF Load, TypeInv
    <3>2. n \in Names
      BY <3>1, Extremes DEF Fits, NamesFit
    <3>3. LockKey(n) = n
      BY <3>2, StraightPath
    <3> HIDE DEF n
    <3> QED
      BY <3>1, <3>2, <3>3 DEF Straight, TypeInv
  <2> QED
    BY <2>1, <2>2 DEF Straight
<1> QED
  BY <1>1, <1>2, <1>3 DEF Straight

\* The holdings of the others, and that a path has one holder.
LEMMA OthersHold ==
  ASSUME TypeInv, LockInv, NEW c \in Calls, StepOf(c), Holds(c)', Straight',
         holder' \in [Names -> SUBSET Calls],
         \A n \in Names : c \in holder'[n] => c \in holder[n] \/ holder[n] = {}
  PROVE  LockInv'
<1>1. ASSUME NEW d \in Calls, d # c PROVE Holds(d)'
  <2>1. /\ pc'[d] = pc[d] /\ tool'[d] = tool[d] /\ names'[d] = names[d] /\ todo'[d] = todo[d]
        /\ \A n \in Names : d \in holder'[n] <=> d \in holder[n]
    BY <1>1 DEF StepOf
  <2>2. Holds(d) /\ names[d] \in SUBSET Names
    BY DEF LockInv, TypeInv
  <2> QED
    BY <2>1, <2>2 DEF Holds
<1>2. Alone'
  <2> SUFFICES ASSUME NEW n \in Names, NEW a \in holder'[n], NEW b \in holder'[n] PROVE a = b
    BY DEF Alone
  <2>1. a \in Calls /\ b \in Calls /\ holder[n] \in SUBSET Calls
    BY DEF TypeInv
  <2>2. (a # c => a \in holder[n]) /\ (b # c => b \in holder[n])
    BY <2>1 DEF StepOf
  <2>3. \A x, y \in holder[n] : x = y
    BY DEF LockInv, Alone
  <2> QED
    BY <2>2, <2>3
<1> QED
  BY <1>1, <1>2 DEF LockInv

LEMMA LockStep ==
  ASSUME TypeInv, LockInv, NEW c \in Calls, Acts(c), TypeInv', Straight' PROVE LockInv'
<1>1. StepOf(c) /\ Fits(c) /\ Holds(c) /\ Straight /\ names[c] \in SUBSET Names /\ todo[c] \in SUBSET Names
  BY ActIsOf DEF LockInv, TypeInv
<1>2. holder' \in [Names -> SUBSET Calls]
  BY DEF TypeInv
<1>3. ASSUME NEW result, Return(c, result) PROVE LockInv'
  <2>1. pc'[c] = "end" /\ \A n \in Names : c \notin holder'[n]
    BY <1>3, ReturnTypes DEF Return
  <2>2. Holds(c)'
    BY <2>1 DEF Holds, Inside
  <2> QED
    BY <1>1, <1>2, <2>1, <2>2, OthersHold
<1>4. ASSUME UNCHANGED holder, Holds(c)' PROVE LockInv'
  BY <1>1, <1>2, <1>4, OthersHold
<1>5. ASSUME NEW kind \in Ops, NEW S \in SUBSET Names, StartLocked(c, kind, S), ~Return(c, "error")
      PROVE  LockInv'
  <2>1. pc'[c] = "lock" /\ names'[c] = S /\ todo'[c] = {LockKey(n) : n \in S} /\ UNCHANGED holder
    BY <1>5 DEF StartLocked, Goto, TypeInv
  <2>2. {LockKey(n) : n \in S} = S
    BY <1>1, StraightPath
  <2>3. Holds(c)'
    BY <2>1, <2>2 DEF Holds, Inside
  <2> QED
    BY <1>4, <2>1, <2>3
<1>6. ASSUME TakeLock(c) PROVE LockInv'
  <2> DEFINE k == Least(todo[c])
  <2>1. /\ pc[c] = "lock" /\ holder[k] = {} /\ holder' = [holder EXCEPT ![k] = {c}] /\ UNCHANGED names
        /\ IF todo[c] = {k}
           THEN Goto(c, FirstStep(tool[c])) /\ todo' = [todo EXCEPT ![c] = names[c]]
           ELSE todo' = [todo EXCEPT ![c] = @ \ {k}] /\ UNCHANGED pc
    BY <1>6 DEF TakeLock, Mutex!Lock, local
  <2>2. todo[c] # {} /\ todo[c] \subseteq names[c] /\ tool[c] \in Lockers
        /\ \A n \in names[c] \ todo[c] : c \in holder[n]
    BY <1>1, <2>1 DEF Fits, NamesFit, ToolFits, Holds
  <2>3. k \in todo[c] /\ k \in Names
    BY <1>1, <2>2, Extremes
  <2> HIDE DEF k
  <2>4. /\ c \in holder'[k] /\ \A n \in Names \ {k} : holder'[n] = holder[n]
    BY <2>1, <2>3 DEF TypeInv
  <2>5. CASE todo[c] = {k}
    <3>1. pc'[c] = FirstStep(tool[c]) /\ names'[c] = names[c]
      BY <2>1, <2>5 DEF Goto, TypeInv
    <3>2. FirstStep(tool[c]) \in {"load", "save", "pop"}
      BY <2>2 DEF FirstStep, Lockers
    <3>3. \A n \in names[c] : c \in holder'[n]
      BY <1>1, <2>2, <2>4, <2>5
    <3> QED
      BY <1>1, <1>2, <2>1, <2>3, <2>4, <3>1, <3>2, <3>3, OthersHold DEF Holds
  <2>6. CASE todo[c] # {k}
    <3>1. pc'[c] = "lock" /\ names'[c] = names[c] /\ todo'[c] = todo[c] \ {k}
      BY <2>1, <2>6 DEF TypeInv
    <3>2. \A n \in names[c] \ todo'[c] : c \in holder'[n]
      BY <1>1, <2>2, <2>4, <3>1
    <3>3. Holds(c)'
      BY <2>2, <3>1, <3>2 DEF Holds, Inside
    <3> QED
      BY <1>1, <1>2, <2>1, <2>3, <2>4, <3>3, OthersHold
  <2> QED
    BY <2>5, <2>6
\* A step inside the locks stays inside.
<1>7. ASSUME pc[c] \in Inside, UNCHANGED <<holder, names>>, pc'[c] \in Inside \cup {"note"} PROVE LockInv'
  <2>1. \A n \in names[c] : c \in holder[n]
    BY <1>1, <1>7 DEF Holds
  <2>2. Holds(c)'
    BY <1>7, <2>1 DEF Holds, Inside
  <2> QED
    BY <1>4, <1>7, <2>2
<1>8. ASSUME Load(c) \/ SaveHistory(c) \/ PopHistory(c) PROVE LockInv'
  <2>1. pc[c] \in Inside /\ UNCHANGED names
    BY <1>8 DEF Load, SaveHistory, PopHistory, Inside, local
  <2>2. \/ \E result \in {"error"} : Return(c, result)
        \/ UNCHANGED holder /\ (UNCHANGED pc \/ \E where \in {"commit", "save", "write"} : Goto(c, where))
    BY <1>8 DEF Load, SaveHistory, PopHistory
  <2> QED
    BY <1>3, <1>7, <2>1, <2>2 DEF Goto, TypeInv, Inside
<1>9. ASSUME Write(c) \/ Commit(c) \/ Restore(c) PROVE LockInv'
  <2>1. pc[c] \in Inside /\ UNCHANGED names
    BY <1>9 DEF Write, Commit, Restore, Inside, local
  <2>2. \/ \E result \in {"error"} : Return(c, result)
        \/ UNCHANGED holder /\ (UNCHANGED pc \/ \E where \in {"note", "record", "restore"} : Goto(c, where))
    BY <1>9 DEF Write, Commit, Restore
  <2> QED
    BY <1>3, <1>7, <2>1, <2>2 DEF Goto, TypeInv, Inside
<1>10. ASSUME Note(c) \/ Record(c) \/ Render(c) PROVE LockInv'
  BY <1>3, <1>10 DEF Note, Record, Render
<1>11. ASSUME NEW n \in Names, StartView(c, n) \/ StartCreate(c, n) PROVE LockInv'
  <2>1. \/ Return(c, "error")
        \/ UNCHANGED holder /\ \E where \in {"render", "open"} : Goto(c, where)
    BY <1>11 DEF StartView, StartCreate
  <2>2. ASSUME UNCHANGED holder, pc'[c] \in {"render", "open"} PROVE LockInv'
    BY <1>4, <2>2 DEF Holds, Inside
  <2> QED
    BY <1>3, <2>1, <2>2 DEF Goto, TypeInv
<1>12. ASSUME Open(c) \/ Fill(c) PROVE LockInv'
  <2>1. UNCHANGED <<holder, tool>> /\ pc[c] \in {"open", "fill"} /\ \E where \in {"fill", "note"} : Goto(c, where)
    BY <1>12 DEF Open, Fill, local
  <2>2. pc'[c] \in {"fill", "note"} /\ tool'[c] = "create"
    BY <1>1, <2>1 DEF Goto, TypeInv, Fits, ToolFits
  <2>3. Holds(c)'
    BY <2>2 DEF Holds, Inside
  <2> QED
    BY <1>4, <2>1, <2>3
<1> QED
  BY <1>3, <1>5, <1>6, <1>8, <1>9, <1>10, <1>11, <1>12 DEF Acts

LEMMA LockInvCorrect == NoPathIsALink => (Spec => []LockInv)
<1> SUFFICES ASSUME NoPathIsALink PROVE Spec => []LockInv
  OBVIOUS
<1>1. Init => LockInv
  <2> SUFFICES ASSUME Init PROVE LockInv
    OBVIOUS
  <2>1. Straight
    BY DEF Init, Straight, NoPathIsALink
  <2>2. Alone
    BY DEF Init, Alone, Mutex!MutexInit
  <2>3. \A c \in Calls : Holds(c)
    BY DEF Init, Holds, Inside
  <2> QED
    BY <2>1, <2>2, <2>3 DEF LockInv
<1>2. ASSUME TypeInv, LockInv, TypeInv', [Next]_vars PROVE LockInv'
  <2>1. Straight'
    BY <1>2, StraightStep DEF LockInv
  <2>2. CASE UNCHANGED vars
    BY <1>2, <2>2 DEF LockInv, Straight, Alone, Holds, vars, world, local
  <2> QED
    BY <1>2, <2>1, <2>2, NextIsAct, LockStep
<1> QED
  BY <1>1, <1>2, TypeInvCorrect, PTL DEF Spec

\* Where no path is a link no two calls are between their snapshot and their
\* write of the same file, whatever tools run: the promise of lock_key_for.
THEOREM WritersSerializeCorrect == NoPathIsALink => (Spec => []WritersSerialize)
<1> SUFFICES ASSUME NoPathIsALink PROVE Spec => []WritersSerialize
  OBVIOUS
<1>1. ASSUME TypeInv, LockInv PROVE WritersSerialize
  <2> SUFFICES ASSUME NEW c \in Calls, NEW d \in Calls, pc[c] \in {"save", "write"},
                      pc[d] \in {"save", "write"}, LockKey(Name(c)) = LockKey(Name(d))
               PROVE  c = d
    BY DEF WritersSerialize
  <2>1. Fits(c) /\ Fits(d) /\ Holds(c) /\ Holds(d)
    BY <1>1 DEF TypeInv, LockInv
  <2>2. Name(c) \in Names /\ names[c] = {Name(c)} /\ Name(d) \in Names /\ names[d] = {Name(d)}
    BY <1>1, <2>1, NameIs DEF Fits, ToolFits
  <2>3. Name(c) = Name(d)
    BY <1>1, <2>2, StraightPath DEF LockInv
  <2>4. c \in holder[Name(c)] /\ d \in holder[Name(d)]
    BY <2>1, <2>2 DEF Holds, Inside
  <2> QED
    BY <1>1, <2>2, <2>3, <2>4 DEF LockInv, Alone
<1> QED
  BY <1>1, TypeInvCorrect, LockInvCorrect, PTL

------------------------------------------------------------------------------
\* The tools that take effect at one instant: those that lock and need their
\* file to be there.  extract_lines may start a new file, create takes no lock,
\* and a single-file write that fails keeps or loses a snapshot.
AtomicTools ==
  /\ Ops \subseteq {"edit", "delete", "undo", "transaction", "view"}
  /\ FaultyOps \subseteq {"transaction"}

\* What a call with its locks knows of its files and of their snapshots.
Data(c) ==
  /\ pc[c] # "end" => reply[c] = "none"
  /\ pc[c] # "start" => tool[c] \in Ops
  /\ pc[c] = "load" => \A n \in names[c] \ todo[c] : before[c][n] = file[n] /\ file[n] # Absent
  /\ pc[c] \in {"save", "write"} /\ tool[c] = "edit"
       => \A n \in names[c] : before[c][n] = file[n] /\ file[n] # Absent
  /\ pc[c] = "write" /\ tool[c] \in {"edit", "delete"}
       => \A n \in names[c] : file[n] # Absent => history[n] # <<>> /\ Last(history[n]) = file[n]
  /\ pc[c] \in {"commit", "restore", "record"} => \A n \in names[c] : before[c][n] # Absent
  /\ pc[c] = "commit" =>
       /\ \A n \in todo[c] : file[n] = before[c][n]
       /\ \A n \in names[c] \ todo[c] :
            file[n] = before[c][n] \cup {c} /\ \A m \in todo[c] : n < m
  /\ pc[c] = "restore" => \A n \in names[c] \ todo[c] : file[n] = before[c][n]
  /\ pc[c] = "record" => \A n \in names[c] : file[n] = before[c][n] \cup {c}

DataInv == \A c \in Calls : Data(c)

Inv == TypeInv /\ LockInv /\ DataInv

\* A step of c touches only what c has locked.
Reaches(c) ==
  \A n \in Names : c \notin holder[n] =>
    file'[n] = file[n] /\ history'[n] = history[n] /\ past'[n] = past[n]

\* A call inside holds its paths; the file and the key of a path are the path.
LEMMA InsideHolds ==
  ASSUME Inv, NEW c \in Calls, pc[c] \in Inside
  PROVE  /\ names[c] \in SUBSET Names /\ names[c] # {} /\ tool[c] \in Ops /\ reply[c] = "none"
         /\ \A n \in names[c] : /\ c \in holder[n] /\ LockKey(n) = n /\ link[n] = n
                                /\ key[c][n] = n /\ target[c][n] = n
                                /\ (Exists(n) <=> file[n] # Absent)
<1>1. Fits(c) /\ Holds(c) /\ Data(c) /\ Straight /\ names[c] \in SUBSET Names
  BY DEF Inv, TypeInv, LockInv, DataInv
<1>2. pc[c] # "start" /\ pc[c] # "end"
  BY DEF Inside
<1>3. \A n \in names[c] : n \in Names /\ c \in holder[n] /\ key[c][n] = n /\ target[c][n] = n
  BY <1>1 DEF Holds, Straight
<1>4. \A n \in names[c] : LockKey(n) = n /\ link[n] = n /\ (Exists(n) <=> file[n] # Absent)
  BY <1>1, StraightPath
<1> QED
  BY <1>1, <1>2, <1>3, <1>4 DEF Data, Fits, NamesFit

LEMMA OthersData ==
  ASSUME Inv, NEW c \in Calls, StepOf(c), Reaches(c), Data(c)' PROVE DataInv'
<1> SUFFICES ASSUME NEW d \in Calls, d # c PROVE Data(d)'
  BY DEF DataInv
<1>1. /\ pc'[d] = pc[d] /\ tool'[d] = tool[d] /\ names'[d] = names[d] /\ todo'[d] = todo[d]
      /\ before'[d] = before[d] /\ reply'[d] = reply[d]
  BY DEF StepOf
<1>2. Data(d) /\ Fits(d)
  BY DEF Inv, DataInv, TypeInv
<1>3. pc[d] \in Inside => \A n \in names[d] : file'[n] = file[n] /\ history'[n] = history[n]
  BY InsideHolds DEF Reaches, Inv, LockInv, Alone
<1>4. pc[d] \in {"load", "commit", "restore"} => todo[d] \subseteq names[d]
  BY <1>2 DEF Fits, NamesFit
<1> QED
  BY <1>1, <1>2, <1>3, <1>4 DEF Data, Inside

\* What the steps of these tools do where no path is a link.
LEMMA StartIs ==
  ASSUME Inv, AtomicTools, NEW c \in Calls, NEW kind \in Ops, NEW S \in SUBSET Names, StartLocked(c, kind, S)
  PROVE  /\ pc[c] = "start" /\ UNCHANGED <<file, history, past, before>> /\ tool'[c] = kind
         /\ Return(c, "error") \/ (pc'[c] = "lock" /\ UNCHANGED <<reply, holder>>)
BY DEF StartLocked, Goto, world, Inv, TypeInv

LEMMA LockIs ==
  ASSUME Inv, NEW c \in Calls, TakeLock(c)
  PROVE  /\ pc[c] = "lock" /\ UNCHANGED <<file, history, past, before, tool, names, reply>>
         /\ \/ pc'[c] = "lock" \/ pc'[c] = "pop" \/ (pc'[c] = "save" /\ tool[c] = "delete")
            \/ pc'[c] = "load" /\ todo'[c] = names[c]
<1> DEFINE k == Least(todo[c])
<1>1. /\ pc[c] = "lock" /\ UNCHANGED <<file, history, past, before, tool, names, reply>>
      /\ IF todo[c] = {k}
         THEN Goto(c, FirstStep(tool[c])) /\ todo' = [todo EXCEPT ![c] = names[c]] ELSE UNCHANGED pc
  BY DEF TakeLock, local, world
<1>2. tool[c] \in Lockers /\ DOMAIN pc = Calls /\ DOMAIN todo = Calls
  BY <1>1 DEF Inv, TypeInv, Fits, ToolFits
<1>3. /\ tool[c] \in {"edit", "extract", "transaction"} => FirstStep(tool[c]) = "load"
      /\ tool[c] = "delete" => FirstStep(tool[c]) = "save"
      /\ tool[c] = "undo" => FirstStep(tool[c]) = "pop"
  BY DEF FirstStep
<1> HIDE DEF k
<1> QED
  BY <1>1, <1>2, <1>3 DEF Goto, Lockers

LEMMA LoadIs ==
  ASSUME Inv, AtomicTools, NEW c \in Calls, Load(c)
  PROVE  /\ pc[c] = "load" /\ UNCHANGED <<file, history, past, tool, names>>
         /\ tool[c] \in {"edit", "transaction"}
         /\ \/ Return(c, "error") /\ UNCHANGED before
            \/ \E n \in todo[c] :
                 /\ n \in names[c] /\ file[n] # Absent /\ UNCHANGED <<reply, holder>>
                 /\ before'[c] = [before[c] EXCEPT ![n] = file[n]]
                 /\ IF todo[c] = {n}
                    THEN /\ pc'[c] = (IF tool[c] = "transaction" THEN "commit" ELSE "save")
                         /\ todo'[c] = names[c]
                    ELSE pc'[c] = "load" /\ todo'[c] = todo[c] \ {n}
<1> DEFINE n == Least(todo[c])
<1>1. /\ pc[c] = "load" /\ UNCHANGED <<file, history, past, tool, names>> /\ Fits(c)
      /\ todo[c] \in SUBSET Names
  BY DEF Load, local, world, Inv, TypeInv
<1>2. tool[c] \in {"edit", "extract", "transaction"} /\ todo[c] # {} /\ todo[c] \subseteq names[c]
  BY <1>1 DEF Fits, ToolFits, NamesFit
<1>3. tool[c] \in Ops /\ tool[c] # "extract"
  BY <1>1, InsideHolds DEF Inside, AtomicTools
<1>4. n \in todo[c] /\ n \in names[c] /\ n \in Names
  BY <1>1, <1>2, Extremes
<1>5. (Exists(n) <=> file[n] # Absent) /\ (Exists(n) => Text(n) = file[n])
  BY <1>1, <1>4, InsideHolds DEF Inside, Text
<1>6. \/ Return(c, "error") /\ UNCHANGED before
      \/ /\ Exists(n) \/ tool[c] = "extract"
         /\ before' = [before EXCEPT ![c][n] = Text(n)] /\ UNCHANGED <<reply, holder>>
         /\ IF todo[c] = {n}
            THEN /\ Goto(c, IF tool[c] = "transaction" THEN "commit" ELSE "save")
                 /\ todo' = [todo EXCEPT ![c] = names[c]]
            ELSE todo' = [todo EXCEPT ![c] = @ \ {n}] /\ UNCHANGED pc
  BY DEF Load
<1> HIDE DEF n
<1>7. DOMAIN pc = Calls /\ DOMAIN todo = Calls /\ DOMAIN before = Calls
  BY DEF Inv, TypeInv
<1>8. CASE Return(c, "error") /\ UNCHANGED before
  BY <1>1, <1>2, <1>3, <1>8
<1>9. CASE ~(Return(c, "error") /\ UNCHANGED before)
  <2>1. file[n] # Absent /\ before'[c] = [before[c] EXCEPT ![n] = file[n]] /\ UNCHANGED <<reply, holder>>
    BY <1>3, <1>5, <1>6, <1>7, <1>9
  <2>2. IF todo[c] = {n}
        THEN /\ pc'[c] = (IF tool[c] = "transaction" THEN "commit" ELSE "save")
             /\ todo'[c] = names[c]
        ELSE pc'[c] = "load" /\ todo'[c] = todo[c] \ {n}
    BY <1>1, <1>6, <1>7, <1>9 DEF Goto
  <2> QED
    BY <1>1, <1>2, <1>3, <1>4, <2>1, <2>2
<1> QED
  BY <1>8, <1>9

\* The one path of a single-file tool inside.
LEMMA OnePath ==
  ASSUME Inv, NEW c \in Calls, pc[c] \in {"save", "pop", "write"}
  PROVE  /\ Name(c) \in Names /\ names[c] = {Name(c)} /\ c \in holder[Name(c)]
         /\ LockKey(Name(c)) = Name(c) /\ link[Name(c)] = Name(c)
         /\ (Exists(Name(c)) <=> file[Name(c)] # Absent)
<1>1. TypeInv /\ Fits(c)
  BY DEF Inv, TypeInv
<1>2. Name(c) \in Names /\ names[c] = {Name(c)}
  BY <1>1, NameIs DEF Fits, ToolFits
<1> QED
  BY <1>2, InsideHolds DEF Inside

LEMMA SaveIs ==
  ASSUME Inv, AtomicTools, NEW c \in Calls, SaveHistory(c)
  PROVE  /\ pc[c] = "save" /\ pc'[c] = "write" /\ tool[c] \in {"edit", "delete"}
         /\ UNCHANGED <<file, past, before, tool, names, reply, holder>>
         /\ \A k \in Names \ {Name(c)} : history'[k] = history[k]
         /\ history'[Name(c)] = IF file[Name(c)] # Absent
                                THEN Append(history[Name(c)], file[Name(c)]) ELSE history[Name(c)]
<1> DEFINE n == Name(c)
<1>1. /\ pc[c] = "save" /\ pc'[c] = "write" /\ UNCHANGED <<file, past, before, tool, names, reply, holder>>
      /\ history' = IF TakesSnapshot(tool[c]) THEN Snapshot(history, n) ELSE history
      /\ Fits(c) /\ DOMAIN history = Names
  BY DEF SaveHistory, Goto, local, world, Inv, TypeInv
<1>2. tool[c] \in {"edit", "delete"}
  BY <1>1, InsideHolds DEF Inside, AtomicTools, Fits, ToolFits
<1>3. n \in Names /\ LockKey(n) = n /\ (Exists(n) <=> file[n] # Absent)
  BY <1>1, OnePath
<1>4. history' = IF file[n] # Absent THEN [history EXCEPT ![n] = Append(@, file[n])] ELSE history
  BY <1>1, <1>2, <1>3 DEF TakesSnapshot, Snapshot
<1> HIDE DEF n
<1> QED
  BY <1>1, <1>2, <1>3, <1>4 DEF n

LEMMA PopIs ==
  ASSUME Inv, NEW c \in Calls, PopHistory(c)
  PROVE  /\ pc[c] = "pop" /\ UNCHANGED <<file, past, tool, names>> /\ tool[c] = "undo"
         /\ \/ Return(c, "error") /\ UNCHANGED <<history, before>>
            \/ /\ history[Name(c)] # <<>> /\ pc'[c] = "write" /\ UNCHANGED <<reply, holder>>
               /\ history'[Name(c)] = Front(history[Name(c)])
               /\ \A k \in Names \ {Name(c)} : history'[k] = history[k]
               /\ before'[c][Name(c)] = Last(history[Name(c)])
<1> DEFINE n == Name(c)
<1>1. /\ pc[c] = "pop" /\ UNCHANGED <<file, past, tool, names>> /\ Fits(c) /\ DOMAIN history = Names
      /\ DOMAIN pc = Calls /\ before \in [Calls -> [Names -> Texts]]
  BY DEF PopHistory, local, world, Inv, TypeInv
<1>2. n \in Names /\ LockKey(n) = n /\ tool[c] = "undo"
  BY <1>1, OnePath DEF Fits, ToolFits
<1>3. IF history[n] = <<>> THEN Return(c, "error") /\ UNCHANGED <<history, before>>
      ELSE /\ history' = [history EXCEPT ![n] = Front(@)]
           /\ before' = [before EXCEPT ![c][n] = Last(history[n])]
           /\ pc' = [pc EXCEPT ![c] = "write"] /\ UNCHANGED <<reply, holder>>
  BY <1>2 DEF PopHistory, Goto
<1> HIDE DEF n
<1>4. history[n] # <<>> => before'[c][n] = Last(history[n])
  BY <1>1, <1>2, <1>3
<1> QED
  BY <1>1, <1>2, <1>3, <1>4 DEF n

LEMMA WriteIs ==
  ASSUME Inv, AtomicTools, NEW c \in Calls, Write(c)
  PROVE  /\ pc[c] = "write" /\ UNCHANGED <<history, before, tool, names>>
         /\ tool[c] \in {"edit", "delete", "undo"}
         /\ \/ /\ Return(c, "error") /\ UNCHANGED <<file, past>>
               /\ tool[c] = "delete" /\ file[Name(c)] = Absent
            \/ /\ pc'[c] = "note" /\ UNCHANGED <<reply, holder>>
               /\ tool[c] = "delete" => file[Name(c)] # Absent
               /\ file'[Name(c)] = Result(c) /\ \A k \in Names \ {Name(c)} : file'[k] = file[k]
               /\ \A k \in Names \ {Name(c)} : past'[k] = past[k]
               /\ past'[Name(c)] = IF tool[c] # "undo" THEN Append(past[Name(c)], file[Name(c)])
                                   ELSE IF past[Name(c)] = <<>> THEN <<>> ELSE Front(past[Name(c)])
<1> DEFINE n == Name(c)
<1>1. /\ pc[c] = "write" /\ UNCHANGED <<history, before, tool, names>> /\ Fits(c)
      /\ DOMAIN file = Names /\ DOMAIN past = Names /\ DOMAIN pc = Calls
  BY DEF Write, local, Inv, TypeInv
<1>2. n \in Names /\ link[n] = n
  BY <1>1, OnePath
<1>3. tool[c] \in {"edit", "delete", "undo"}
  BY <1>1, InsideHolds DEF Inside, AtomicTools, Fits, ToolFits
<1>4. tool[c] \in FaultyOps => FALSE
  BY <1>3 DEF AtomicTools
<1>5. \/ /\ ~(tool[c] = "delete" /\ file[n] = Absent) /\ Replace(n, Result(c))
         /\ past' = [past EXCEPT ![n] = IF tool[c] # "undo" THEN Append(past[n], file[n])
                                        ELSE IF past[n] = <<>> THEN past[n] ELSE Front(past[n])]
         /\ pc' = [pc EXCEPT ![c] = "note"] /\ UNCHANGED <<reply, holder>>
      \/ tool[c] = "delete" /\ file[n] = Absent /\ Return(c, "error") /\ UNCHANGED <<world, past>>
  BY <1>2, <1>4 DEF Write, Goto
<1> HIDE DEF n
<1>6. CASE tool[c] = "delete" /\ file[n] = Absent /\ Return(c, "error") /\ UNCHANGED <<world, past>>
  BY <1>1, <1>3, <1>6 DEF n, world
<1>7. CASE /\ ~(tool[c] = "delete" /\ file[n] = Absent) /\ Replace(n, Result(c))
           /\ past' = [past EXCEPT ![n] = IF tool[c] # "undo" THEN Append(past[n], file[n])
                                          ELSE IF past[n] = <<>> THEN past[n] ELSE Front(past[n])]
           /\ pc' = [pc EXCEPT ![c] = "note"] /\ UNCHANGED <<reply, holder>>
  <2>1. file' = [file EXCEPT ![n] = Result(c)] /\ pc'[c] = "note"
    BY <1>1, <1>7 DEF Replace
  <2>2. file'[n] = Result(c) /\ \A k \in Names \ {n} : file'[k] = file[k] /\ past'[k] = past[k]
    BY <1>1, <1>2, <1>7, <2>1
  <2>3. past'[n] = IF tool[c] # "undo" THEN Append(past[n], file[n])
                   ELSE IF past[n] = <<>> THEN <<>> ELSE Front(past[n])
    BY <1>1, <1>2, <1>7
  <2> QED
    BY <1>1, <1>3, <1>7, <2>1, <2>2, <2>3 DEF n
<1> QED
  BY <1>5, <1>6, <1>7

LEMMA CommitIs ==
  ASSUME Inv, NEW c \in Calls, Commit(c)
  PROVE  /\ pc[c] = "commit" /\ tool[c] = "transaction"
         /\ UNCHANGED <<history, past, before, tool, names, reply, holder>>
         /\ \E n \in todo[c] :
              /\ n \in names[c] /\ \A m \in todo[c] : n <= m
              /\ \/ /\ file'[n] = before[c][n] \cup {c} /\ \A k \in Names \ {n} : file'[k] = file[k]
                    /\ IF todo[c] = {n} THEN pc'[c] = "record"
                       ELSE pc'[c] = "commit" /\ todo'[c] = todo[c] \ {n}
                 \/ /\ UNCHANGED file /\ pc'[c] = "restore"
                    /\ todo'[c] = {m \in names[c] : m < n}
<1> DEFINE n == Least(todo[c])
<1>1. /\ pc[c] = "commit" /\ UNCHANGED <<history, past, before, tool, names, reply, holder>> /\ Fits(c)
      /\ DOMAIN file = Names /\ DOMAIN pc = Calls /\ DOMAIN todo = Calls
      /\ todo[c] \in SUBSET Names /\ names[c] \in SUBSET Names
  BY DEF Commit, local, Inv, TypeInv
<1>2. todo[c] # {} /\ todo[c] \subseteq names[c] /\ tool[c] = "transaction"
  BY <1>1 DEF Fits, ToolFits, NamesFit
<1>3. n \in todo[c] /\ n \in names[c] /\ n \in Names /\ \A m \in todo[c] : n <= m
  BY <1>1, <1>2, Extremes
<1>4. target[c][n] = n
  BY <1>1, <1>3, InsideHolds DEF Inside
<1>5. \/ /\ file' = [file EXCEPT ![n] = before[c][n] \cup {c}]
         /\ IF todo[c] = {n} THEN pc' = [pc EXCEPT ![c] = "record"] /\ UNCHANGED todo
            ELSE todo' = [todo EXCEPT ![c] = @ \ {n}] /\ UNCHANGED pc
      \/ /\ UNCHANGED file /\ pc' = [pc EXCEPT ![c] = "restore"]
         /\ todo' = [todo EXCEPT ![c] = {m \in names[c] : m < n}]
  BY <1>4 DEF Commit, Replace, Goto, ToRestore, world
<1> HIDE DEF n
<1>6. \/ /\ file'[n] = before[c][n] \cup {c} /\ \A k \in Names \ {n} : file'[k] = file[k]
         /\ IF todo[c] = {n} THEN pc'[c] = "record"
            ELSE pc'[c] = "commit" /\ todo'[c] = todo[c] \ {n}
      \/ /\ UNCHANGED file /\ pc'[c] = "restore"
         /\ todo'[c] = {m \in names[c] : m < n}
  BY <1>1, <1>3, <1>5
<1> QED
  BY <1>1, <1>2, <1>3, <1>6

LEMMA RestoreIs ==
  ASSUME Inv, NEW c \in Calls, Restore(c)
  PROVE  /\ pc[c] = "restore" /\ tool[c] = "transaction"
         /\ UNCHANGED <<history, past, before, tool, names>>
         /\ \/ todo[c] = {} /\ Return(c, "error") /\ UNCHANGED file
            \/ \E n \in todo[c] :
                 /\ n \in names[c] /\ pc'[c] = "restore" /\ UNCHANGED <<reply, holder>>
                 /\ file'[n] = before[c][n] /\ \A k \in Names \ {n} : file'[k] = file[k]
                 /\ todo'[c] = todo[c] \ {n}
<1> DEFINE n == Greatest(todo[c])
<1>1. /\ pc[c] = "restore" /\ UNCHANGED <<history, past, before, tool, names>> /\ Fits(c)
      /\ DOMAIN file = Names /\ DOMAIN pc = Calls /\ DOMAIN todo = Calls
      /\ todo[c] \in SUBSET Names /\ names[c] \in SUBSET Names
  BY DEF Restore, local, Inv, TypeInv
<1>2. todo[c] \subseteq names[c] /\ tool[c] = "transaction"
  BY <1>1 DEF Fits, ToolFits, NamesFit
<1>3. CASE todo[c] = {}
  BY <1>1, <1>2, <1>3 DEF Restore, world
<1>4. CASE todo[c] # {}
  <2>1. n \in todo[c] /\ n \in names[c] /\ n \in Names
    BY <1>1, <1>2, <1>4, Extremes
  <2>2. target[c][n] = n
    BY <1>1, <2>1, InsideHolds DEF Inside
  <2>3. /\ file' = [file EXCEPT ![n] = before[c][n]] /\ todo' = [todo EXCEPT ![c] = @ \ {n}]
        /\ UNCHANGED <<pc, reply, holder>>
    BY <1>4, <2>2 DEF Restore, Replace
  <2> HIDE DEF n
  <2>4. /\ file'[n] = before[c][n] /\ \A k \in Names \ {n} : file'[k] = file[k]
        /\ todo'[c] = todo[c] \ {n}
    BY <1>1, <2>1, <2>3
  <2> QED
    BY <1>1, <1>2, <2>1, <2>3, <2>4
<1> QED
  BY <1>3, <1>4

LEMMA RecordIs ==
  ASSUME Inv, NEW c \in Calls, Record(c)
  PROVE  /\ pc[c] = "record" /\ tool[c] = "transaction" /\ Return(c, "ok")
         /\ UNCHANGED <<file, before, tool, names>>
         /\ \A n \in Names : /\ history'[n] = IF n \in names[c] THEN Append(history[n], before[c][n])
                                              ELSE history[n]
                             /\ past'[n] = IF n \in names[c] THEN Append(past[n], before[c][n])
                                           ELSE past[n]
<1> DEFINE old == before[c]
           at == key[c]
           to == target[c]
           Kept == [n \in names[c] |-> Append(history[at[n]], old[n])]
           Added == [n \in names[c] |-> Append(past[to[n]], old[n])]
<1>1. /\ pc[c] = "record" /\ Return(c, "ok") /\ UNCHANGED <<file, before, tool, names>> /\ Fits(c)
      /\ history' = Patch(history, c, at, Kept) /\ past' = Patch(past, c, to, Added)
      /\ names[c] \in SUBSET Names /\ at \in [Names -> Names] /\ to \in [Names -> Names] /\ TypeInv
  BY DEF Record, local, world, Inv, TypeInv
<1>2. tool[c] = "transaction" /\ \A n \in names[c] : at[n] = n /\ to[n] = n
  BY <1>1, InsideHolds DEF Inside, Fits, ToolFits
<1>3. ASSUME NEW n \in Names
      PROVE  /\ history'[n] = IF n \in names[c] THEN Append(history[n], old[n]) ELSE history[n]
             /\ past'[n] = IF n \in names[c] THEN Append(past[n], old[n]) ELSE past[n]
  <2> HIDE DEF old, at, to, Kept, Added
  <2>4. TypeInv /\ at \in [Names -> Names] /\ to \in [Names -> Names]
    BY <1>1
  <2>1. \/ history'[n] = history[n] /\ n \notin names[c]
        \/ n \in names[c] /\ history'[n] = Kept[n]
    <3>1. \/ Patch(history, c, at, Kept)[n] = history[n] /\ \A m \in names[c] : at[m] # n
          \/ /\ Chosen(c, at, n) \in names[c] /\ at[Chosen(c, at, n)] = n
             /\ Patch(history, c, at, Kept)[n] = Kept[Chosen(c, at, n)]
      BY <2>4, PatchIs
    <3> QED
      BY <1>1, <1>2, <3>1
  <2>2. \/ past'[n] = past[n] /\ n \notin names[c]
        \/ n \in names[c] /\ past'[n] = Added[n]
    <3>1. \/ Patch(past, c, to, Added)[n] = past[n] /\ \A m \in names[c] : to[m] # n
          \/ /\ Chosen(c, to, n) \in names[c] /\ to[Chosen(c, to, n)] = n
             /\ Patch(past, c, to, Added)[n] = Added[Chosen(c, to, n)]
      BY <2>4, PatchIs
    <3> QED
      BY <1>1, <1>2, <3>1
  <2>3. n \in names[c] => Kept[n] = Append(history[n], old[n]) /\ Added[n] = Append(past[n], old[n])
    BY <1>2 DEF Kept, Added
  <2> QED
    BY <2>1, <2>2, <2>3
<1> QED
  BY <1>1, <1>2, <1>3

\* Tools that take no part in an atomic run.
LEMMA NoCreate ==
  ASSUME Inv, AtomicTools, NEW c \in Calls
  PROVE  ~Open(c) /\ ~Fill(c) /\ \A n \in Names : ~StartCreate(c, n)
<1>1. ASSUME Open(c) \/ Fill(c) PROVE FALSE
  <2>1. pc[c] \in {"open", "fill"} /\ Fits(c) /\ Data(c)
    BY <1>1 DEF Open, Fill, Inv, TypeInv, DataInv
  <2> QED
    BY <2>1 DEF Fits, ToolFits, Data, AtomicTools
<1>2. ASSUME NEW n \in Names, StartCreate(c, n) PROVE FALSE
  BY <1>2 DEF StartCreate, AtomicTools
<1> QED
  BY <1>1, <1>2

\* What a view does.
LEMMA ViewIs ==
  ASSUME Inv, NEW c \in Calls
  PROVE  /\ \A n \in Names : StartView(c, n) =>
              /\ pc[c] = "start" /\ UNCHANGED <<file, history, past>> /\ tool'[c] = "view" /\ "view" \in Ops
              /\ Return(c, "error") \/ (pc'[c] = "render" /\ UNCHANGED <<reply, holder>>)
         /\ Render(c) => /\ pc[c] = "render" /\ UNCHANGED <<file, history, past, tool>> /\ Return(c, "ok")
         /\ Note(c) => /\ pc[c] = "note" /\ UNCHANGED <<file, history, past, tool>> /\ Return(c, "ok")
<1>1. DOMAIN pc = Calls /\ DOMAIN tool = Calls
  BY DEF Inv, TypeInv
<1>2. ASSUME NEW n \in Names, StartView(c, n)
      PROVE  /\ pc[c] = "start" /\ UNCHANGED <<file, history, past>> /\ tool'[c] = "view" /\ "view" \in Ops
             /\ Return(c, "error") \/ (pc'[c] = "render" /\ UNCHANGED <<reply, holder>>)
  BY <1>1, <1>2 DEF StartView, Goto, world
<1>3. Render(c) => pc[c] = "render" /\ UNCHANGED <<file, history, past, tool>> /\ Return(c, "ok")
  BY DEF Render, world, local
<1>4. Note(c) => pc[c] = "note" /\ UNCHANGED <<file, history, past, tool>> /\ Return(c, "ok")
  BY DEF Note, world, local
<1> QED
  BY <1>2, <1>3, <1>4

LEMMA ActReaches ==
  ASSUME Inv, AtomicTools, NEW c \in Calls, Acts(c) PROVE Reaches(c)
<1>1. ASSUME UNCHANGED <<file, history, past>> PROVE Reaches(c)
  BY <1>1 DEF Reaches
<1>2. CASE SaveHistory(c)
  BY <1>2, SaveIs, OnePath DEF Reaches
<1>3. CASE PopHistory(c)
  BY <1>3, PopIs, OnePath DEF Reaches
<1>4. CASE Write(c)
  BY <1>4, WriteIs, OnePath DEF Reaches
<1>5. CASE Commit(c)
  BY <1>5, CommitIs, InsideHolds DEF Reaches, Inside
<1>6. CASE Restore(c)
  BY <1>6, RestoreIs, InsideHolds DEF Reaches, Inside
<1>7. CASE Record(c)
  BY <1>7, RecordIs, InsideHolds DEF Reaches, Inside
<1>8. ASSUME NEW kind \in Ops, NEW S \in SUBSET Names, StartLocked(c, kind, S) PROVE Reaches(c)
  BY <1>1, <1>8, StartIs
<1>9. CASE TakeLock(c) \/ Load(c)
  BY <1>1, <1>9, LockIs, LoadIs
<1>10. ASSUME NEW n \in Names, StartView(c, n) PROVE Reaches(c)
  BY <1>1, <1>10, ViewIs
<1>11. CASE Render(c) \/ Note(c)
  BY <1>1, <1>11, ViewIs
<1> QED
  BY <1>2, <1>3, <1>4, <1>5, <1>6, <1>7, <1>8, <1>9, <1>10, <1>11, NoCreate DEF Acts

LEMMA ActData ==
  ASSUME Inv, AtomicTools, NEW c \in Calls, Acts(c) PROVE Data(c)'
<1>1. /\ Data(c) /\ Fits(c) /\ DOMAIN pc = Calls /\ names[c] \in SUBSET Names /\ todo[c] \in SUBSET Names
      /\ before[c] \in [Names -> Texts] /\ Names \subseteq Int /\ \A n \in Names : history[n] \in Seq(Texts)
  BY FileEditsAssumption DEF Inv, DataInv, TypeInv, FileEditsAssumption
<1>2. ASSUME NEW result, Return(c, result), tool'[c] \in Ops PROVE Data(c)'
  <2>1. pc'[c] = "end"
    BY <1>1, <1>2 DEF Return, Goto
  <2> QED
    BY <1>2, <2>1 DEF Data
<1>3. ASSUME NEW kind \in Ops, NEW S \in SUBSET Names, StartLocked(c, kind, S) PROVE Data(c)'
  <2>1. /\ pc[c] = "start" /\ tool'[c] \in Ops
        /\ Return(c, "error") \/ (pc'[c] = "lock" /\ UNCHANGED <<reply, holder>>)
    BY <1>3, StartIs
  <2> QED
    BY <1>1, <1>2, <2>1 DEF Data
<1>4. ASSUME TakeLock(c) PROVE Data(c)'
  <2>1. /\ pc[c] = "lock" /\ UNCHANGED <<tool, names, reply>>
        /\ \/ pc'[c] = "lock" \/ pc'[c] = "pop" \/ (pc'[c] = "save" /\ tool[c] = "delete")
           \/ pc'[c] = "load" /\ todo'[c] = names[c]
    BY <1>4, LockIs
  <2> QED
    BY <1>1, <2>1 DEF Data
<1>5. ASSUME Load(c) PROVE Data(c)'
  <2>1. /\ pc[c] = "load" /\ UNCHANGED <<file, tool, names>> /\ tool[c] \in {"edit", "transaction"}
        /\ tool[c] \in Ops /\ reply[c] = "none" /\ todo[c] \subseteq names[c]
        /\ \A n \in names[c] \ todo[c] : before[c][n] = file[n] /\ file[n] # Absent
    BY <1>1, <1>5, LoadIs DEF Data, Fits, NamesFit
  <2>2. CASE Return(c, "error")
    BY <1>2, <2>1, <2>2
  <2>3. CASE ~Return(c, "error")
    <3>1. PICK n \in todo[c] :
            /\ n \in names[c] /\ file[n] # Absent /\ UNCHANGED <<reply, holder>>
            /\ before'[c] = [before[c] EXCEPT ![n] = file[n]]
            /\ IF todo[c] = {n}
               THEN /\ pc'[c] = (IF tool[c] = "transaction" THEN "commit" ELSE "save")
                    /\ todo'[c] = names[c]
               ELSE pc'[c] = "load" /\ todo'[c] = todo[c] \ {n}
      BY <1>5, <2>3, LoadIs
    <3>2. \A m \in (names[c] \ todo[c]) \cup {n} : before'[c][m] = file[m] /\ file[m] # Absent
      BY <1>1, <2>1, <3>1
    <3>3. CASE todo[c] = {n}
      <4>1. \A m \in names[c] : before'[c][m] = file[m] /\ file[m] # Absent
        BY <3>2, <3>3
      <4> QED
        BY <2>1, <3>1, <3>3, <4>1 DEF Data
    <3>4. CASE todo[c] # {n}
      <4>1. \A m \in names[c] \ todo'[c] : before'[c][m] = file[m] /\ file[m] # Absent
        BY <3>1, <3>2, <3>4
      <4> QED
        BY <2>1, <3>1, <3>4, <4>1 DEF Data
    <3> QED
      BY <3>3, <3>4
  <2> QED
    BY <2>2, <2>3
<1>6. ASSUME SaveHistory(c) PROVE Data(c)'
  <2> DEFINE n == Name(c)
  <2>1. /\ pc[c] = "save" /\ pc'[c] = "write" /\ tool[c] \in {"edit", "delete"}
        /\ UNCHANGED <<file, before, tool, names, reply>>
        /\ file[n] # Absent => history'[n] = Append(history[n], file[n])
        /\ names[c] = {n} /\ n \in Names
    BY <1>6, SaveIs, OnePath
  <2>2. file[n] # Absent => history'[n] # <<>> /\ Last(history'[n]) = file[n]
    <3>1. history[n] \in Seq(Texts) /\ file[n] \in Texts
      BY <1>1, <2>1 DEF Inv, TypeInv
    <3> HIDE DEF n
    <3>2. Append(history[n], file[n]) # <<>> /\ Last(Append(history[n], file[n])) = file[n]
      BY <3>1, StackGrows
    <3> QED
      BY <2>1, <3>2
  <2> HIDE DEF n
  <2> QED
    BY <1>1, <2>1, <2>2 DEF Data
<1>7. ASSUME PopHistory(c) PROVE Data(c)'
  <2>1. /\ pc[c] = "pop" /\ UNCHANGED tool /\ tool[c] = "undo"
        /\ Return(c, "error") \/ (pc'[c] = "write" /\ UNCHANGED <<reply, holder>>)
    BY <1>7, PopIs
  <2> QED
    BY <1>1, <1>2, <2>1 DEF Data
<1>8. ASSUME Write(c) PROVE Data(c)'
  <2>1. /\ pc[c] = "write" /\ UNCHANGED tool
        /\ Return(c, "error") \/ (pc'[c] = "note" /\ UNCHANGED <<reply, holder>>)
    BY <1>8, WriteIs
  <2> QED
    BY <1>1, <1>2, <2>1 DEF Data
<1>9. ASSUME Note(c) \/ Render(c) PROVE Data(c)'
  <2>1. pc[c] \in {"note", "render"} /\ UNCHANGED tool /\ Return(c, "ok")
    BY <1>9, ViewIs
  <2> QED
    BY <1>1, <1>2, <2>1 DEF Data
<1>10. ASSUME Commit(c) PROVE Data(c)'
  <2>1. PICK n \in todo[c] :
          /\ n \in names[c] /\ \A m \in todo[c] : n <= m
          /\ \/ /\ file'[n] = before[c][n] \cup {c} /\ \A k \in Names \ {n} : file'[k] = file[k]
                /\ IF todo[c] = {n} THEN pc'[c] = "record"
                   ELSE pc'[c] = "commit" /\ todo'[c] = todo[c] \ {n}
             \/ /\ UNCHANGED file /\ pc'[c] = "restore"
                /\ todo'[c] = {m \in names[c] : m < n}
    BY <1>10, CommitIs
  <2>2. /\ pc[c] = "commit" /\ tool[c] = "transaction" /\ UNCHANGED <<before, tool, names, reply>>
    BY <1>10, CommitIs
  <2>3. /\ tool[c] \in Ops /\ reply[c] = "none" /\ \A m \in names[c] : before[c][m] # Absent
        /\ \A m \in todo[c] : file[m] = before[c][m]
        /\ \A m \in names[c] \ todo[c] : file[m] = before[c][m] \cup {c} /\ \A k \in todo[c] : m < k
    BY <1>1, <2>2 DEF Data
  <2>4. CASE /\ file'[n] = before[c][n] \cup {c} /\ \A k \in Names \ {n} : file'[k] = file[k]
             /\ IF todo[c] = {n} THEN pc'[c] = "record"
                ELSE pc'[c] = "commit" /\ todo'[c] = todo[c] \ {n}
    <3>1. \A m \in (names[c] \ todo[c]) \cup {n} : file'[m] = before[c][m] \cup {c}
      BY <1>1, <2>1, <2>3, <2>4
    <3>2. \A m \in todo[c] \ {n} : file'[m] = before[c][m] /\ n < m
      <4>1. \A m \in todo[c] \ {n} : n <= m /\ n # m /\ n \in Int /\ m \in Int
        BY <1>1, <2>1
      <4> QED
        BY <1>1, <2>3, <2>4, <4>1
    <3>3. CASE pc'[c] = "record" /\ todo[c] = {n}
      BY <2>2, <2>3, <3>1, <3>3 DEF Data
    <3>4. CASE pc'[c] = "commit" /\ todo'[c] = todo[c] \ {n}
      <4>1. \A m \in names[c] \ todo'[c] : \A k \in todo'[c] : m < k
        BY <2>3, <3>2, <3>4
      <4> QED
        BY <2>2, <2>3, <3>1, <3>2, <3>4, <4>1 DEF Data
    <3> QED
      BY <2>4, <3>3, <3>4
  <2>5. CASE UNCHANGED file /\ pc'[c] = "restore" /\ todo'[c] = {m \in names[c] : m < n}
    <3>1. \A m \in names[c] \ todo'[c] : file[m] = before[c][m]
      BY <2>1, <2>3, <2>5
    <3> QED
      BY <2>2, <2>3, <2>5, <3>1 DEF Data
  <2> QED
    BY <2>1, <2>4, <2>5
<1>11. ASSUME Restore(c) PROVE Data(c)'
  <2>1. /\ pc[c] = "restore" /\ tool[c] = "transaction" /\ UNCHANGED <<before, tool, names>>
    BY <1>11, RestoreIs
  <2>2. /\ tool[c] \in Ops /\ reply[c] = "none" /\ \A m \in names[c] : before[c][m] # Absent
        /\ \A m \in names[c] \ todo[c] : file[m] = before[c][m]
    BY <1>1, <2>1 DEF Data
  <2>3. CASE Return(c, "error")
    BY <1>2, <2>1, <2>2, <2>3
  <2>4. CASE ~Return(c, "error")
    <3>1. PICK n \in todo[c] :
            /\ n \in names[c] /\ pc'[c] = "restore" /\ UNCHANGED <<reply, holder>>
            /\ file'[n] = before[c][n] /\ \A k \in Names \ {n} : file'[k] = file[k]
            /\ todo'[c] = todo[c] \ {n}
      BY <1>11, <2>4, RestoreIs
    <3>2. \A m \in names[c] \ todo'[c] : file'[m] = before[c][m]
      BY <1>1, <2>2, <3>1
    <3> QED
      BY <2>1, <2>2, <3>1, <3>2 DEF Data
  <2> QED
    BY <2>3, <2>4
<1>12. ASSUME Record(c) PROVE Data(c)'
  <2>1. pc[c] = "record" /\ UNCHANGED tool /\ Return(c, "ok")
    BY <1>12, RecordIs
  <2> QED
    BY <1>1, <1>2, <2>1 DEF Data
<1>13. ASSUME NEW n \in Names, StartView(c, n) PROVE Data(c)'
  <2>1. /\ pc[c] = "start" /\ tool'[c] \in Ops
        /\ Return(c, "error") \/ (pc'[c] = "render" /\ UNCHANGED <<reply, holder>>)
    BY <1>13, ViewIs
  <2> QED
    BY <1>1, <1>2, <2>1 DEF Data
<1> QED
  BY <1>3, <1>4, <1>5, <1>6, <1>7, <1>8, <1>9, <1>10, <1>11, <1>12, <1>13, NoCreate DEF Acts

LEMMA InvCorrect == NoPathIsALink /\ AtomicTools => (Spec => []Inv)
<1> SUFFICES ASSUME NoPathIsALink, AtomicTools PROVE Spec => []Inv
  OBVIOUS
<1>1. Init => DataInv
  BY DEF Init, DataInv, Data
<1>2. ASSUME TypeInv, LockInv, DataInv, [Next]_vars PROVE DataInv'
  <2>1. Inv
    BY <1>2 DEF Inv
  <2>2. ASSUME NEW c \in Calls, Acts(c) PROVE DataInv'
    BY <1>2, <2>1, <2>2, ActIsOf, ActReaches, ActData, OthersData
  <2>3. CASE UNCHANGED vars
    BY <1>2, <2>3 DEF DataInv, Data, vars, world, local
  <2> QED
    BY <1>2, <2>2, <2>3, NextIsAct
<1> QED
  BY <1>1, <1>2, TypeInvCorrect, LockInvCorrect, PTL DEF Spec, Inv

------------------------------------------------------------------------------
\* What a call inside hides from the abstract state of file n: the writes of a
\* transaction, the snapshot of a write to come, the snapshot an undo has taken.
Hidden(c, n) == Midway(c) /\ n \in names[c]
Spare(c, n) ==
  pc[c] = "write" /\ tool[c] \in {"edit", "extract", "delete"} /\ n \in names[c] /\ file[n] # Absent
Taken(c, n) == pc[c] = "write" /\ tool[c] = "undo" /\ n \in names[c]

\* The abstract state of each file, by the call that works on it.
Seen ==
  \A n \in Names :
    /\ \A c \in Calls : Hidden(c, n) => ContentOf(n) = before[c][n]
    /\ (\A c \in Calls : ~Hidden(c, n)) => ContentOf(n) = file[n]
    /\ \A c \in Calls : Spare(c, n) => StackOf(n) = Front(history[n])
    /\ \A c \in Calls : Taken(c, n) => StackOf(n) = Append(history[n], before[c][n])
    /\ (\A c \in Calls : ~Spare(c, n) /\ ~Taken(c, n)) => StackOf(n) = history[n]

\* The snapshots of a file are what it held before the writes not undone.
PastInv == \A n \in Names : past[n] = StackOf(n)

\* Only the holder of a path hides anything of it.
LEMMA OnlyHolder ==
  ASSUME Inv, NEW n \in Names, NEW c \in holder[n], NEW d \in Calls, d # c
  PROVE  ~Hidden(d, n) /\ ~Spare(d, n) /\ ~Taken(d, n)
<1>1. pc[d] \in Inside /\ n \in names[d] => d \in holder[n]
  BY InsideHolds
<1>2. \A a, b \in holder[n] : a = b
  BY DEF Inv, LockInv, Alone
<1> QED
  BY <1>1, <1>2 DEF Hidden, Spare, Taken, Midway, Inside

LEMMA SeenIs == Inv => Seen
<1> SUFFICES ASSUME Inv, NEW n \in Names
             PROVE  /\ \A c \in Calls : Hidden(c, n) => ContentOf(n) = before[c][n]
                    /\ (\A c \in Calls : ~Hidden(c, n)) => ContentOf(n) = file[n]
                    /\ \A c \in Calls : Spare(c, n) => StackOf(n) = Front(history[n])
                    /\ \A c \in Calls : Taken(c, n) => StackOf(n) = Append(history[n], before[c][n])
                    /\ (\A c \in Calls : ~Spare(c, n) /\ ~Taken(c, n)) => StackOf(n) = history[n]
  BY DEF Seen
<1>1. \A c \in Calls : (Saved(c) /\ n \in names[c] <=> Spare(c, n)) /\ (Popped(c) /\ n \in names[c] <=> Taken(c, n))
  <2> SUFFICES ASSUME NEW c \in Calls, pc[c] = "write", n \in names[c]
               PROVE  (Saved(c) <=> Spare(c, n)) /\ (Popped(c) <=> Taken(c, n))
    BY DEF Saved, Popped, Spare, Taken
  <2>1. Name(c) = n /\ (Exists(Name(c)) <=> file[n] # Absent)
    BY OnePath
  <2> QED
    BY <2>1 DEF Saved, Popped, Spare, Taken, TakesSnapshot
<1>2. ASSUME NEW c \in Calls, NEW d \in Calls, Hidden(c, n) \/ Spare(c, n) \/ Taken(c, n),
             Hidden(d, n) \/ Spare(d, n) \/ Taken(d, n)
      PROVE  c = d
  <2>1. pc[c] \in Inside /\ n \in names[c]
    BY <1>2 DEF Hidden, Spare, Taken, Midway, Inside
  <2>2. c \in holder[n]
    BY <2>1, InsideHolds
  <2> QED
    BY <1>2, <2>2, OnlyHolder
<1>3. ASSUME NEW c \in Calls, Hidden(c, n) PROVE ContentOf(n) = before[c][n]
  <2>1. (CHOOSE d \in Calls : Midway(d) /\ n \in names[d]) = c
    BY <1>2, <1>3 DEF Hidden
  <2> QED
    BY <1>3, <2>1 DEF ContentOf, Hidden
<1>4. (\A c \in Calls : ~Hidden(c, n)) => ContentOf(n) = file[n]
  BY DEF ContentOf, Hidden
<1>5. ASSUME NEW c \in Calls, Spare(c, n) PROVE StackOf(n) = Front(history[n])
  BY <1>1, <1>5 DEF StackOf
<1>6. ASSUME NEW c \in Calls, Taken(c, n) PROVE StackOf(n) = Append(history[n], before[c][n])
  <2>1. \A d \in Calls : ~Spare(d, n)
    BY <1>2, <1>6 DEF Spare, Taken
  <2>2. Popped(c) /\ n \in names[c] /\ \A d \in Calls : Popped(d) /\ n \in names[d] => d = c
    BY <1>1, <1>2, <1>6
  <2>3. (CHOOSE d \in Calls : Popped(d) /\ n \in names[d]) = c
    BY <2>2
  <2> QED
    BY <1>1, <2>1, <2>2, <2>3 DEF StackOf
<1>7. (\A c \in Calls : ~Spare(c, n) /\ ~Taken(c, n)) => StackOf(n) = history[n]
  BY <1>1 DEF StackOf
<1> QED
  BY <1>3, <1>4, <1>5, <1>6, <1>7

\* A step of c leaves what is seen of a file that c hides nothing of.
LEMMA Elsewhere ==
  ASSUME Inv, Inv', NEW c \in Calls, StepOf(c), NEW n \in Names,
         ~Hidden(c, n), ~Spare(c, n), ~Taken(c, n),
         ~Hidden(c, n)', ~Spare(c, n)', ~Taken(c, n)',
         file'[n] = file[n], history'[n] = history[n]
  PROVE  ContentOf(n)' = ContentOf(n) /\ StackOf(n)' = StackOf(n)
<1>1. Seen /\ Seen'
  <2>1. Inv' => Seen'
    BY SeenIs, PTL
  <2> QED
    BY <2>1, SeenIs
<1>2. ASSUME NEW d \in Calls
      PROVE  /\ Hidden(d, n)' <=> Hidden(d, n)
             /\ Spare(d, n)' <=> Spare(d, n)
             /\ Taken(d, n)' <=> Taken(d, n)
             /\ Hidden(d, n) \/ Taken(d, n) => before'[d] = before[d]
  <2>1. d # c => /\ pc'[d] = pc[d] /\ tool'[d] = tool[d] /\ names'[d] = names[d] /\ before'[d] = before[d]
    BY DEF StepOf
  <2> QED
    BY <2>1 DEF Hidden, Spare, Taken, Midway
<1>3. ContentOf(n)' = ContentOf(n)
  <2>1. CASE \E d \in Calls : Hidden(d, n)
    BY <1>1, <1>2, <2>1 DEF Seen
  <2>2. CASE \A d \in Calls : ~Hidden(d, n)
    BY <1>1, <1>2, <2>2 DEF Seen
  <2> QED
    BY <2>1, <2>2
<1>4. StackOf(n)' = StackOf(n)
  <2>1. CASE \E d \in Calls : Spare(d, n)
    BY <1>1, <1>2, <2>1 DEF Seen
  <2>2. CASE \E d \in Calls : Taken(d, n)
    BY <1>1, <1>2, <2>2 DEF Seen
  <2>3. CASE \A d \in Calls : ~Spare(d, n) /\ ~Taken(d, n)
    BY <1>1, <1>2, <2>3 DEF Seen
  <2> QED
    BY <2>1, <2>2, <2>3
<1> QED
  BY <1>3, <1>4

\* The abstract state of a file that c alone may hold.
HeldSeen ==
  \A n \in Names, c \in Calls : (\A d \in holder[n] : d = c) =>
    /\ ContentOf(n) = IF Hidden(c, n) THEN before[c][n] ELSE file[n]
    /\ StackOf(n) = IF Spare(c, n) THEN Front(history[n])
                    ELSE IF Taken(c, n) THEN Append(history[n], before[c][n]) ELSE history[n]

LEMMA HeldIs == Inv => HeldSeen
<1> SUFFICES ASSUME Inv, NEW n \in Names, NEW c \in Calls, \A d \in holder[n] : d = c
             PROVE  /\ ContentOf(n) = IF Hidden(c, n) THEN before[c][n] ELSE file[n]
                    /\ StackOf(n) = IF Spare(c, n) THEN Front(history[n])
                                    ELSE IF Taken(c, n) THEN Append(history[n], before[c][n])
                                    ELSE history[n]
  BY DEF HeldSeen
<1>1. Seen
  BY SeenIs
<1>2. \A d \in Calls \ {c} : ~Hidden(d, n) /\ ~Spare(d, n) /\ ~Taken(d, n)
  <2> SUFFICES ASSUME NEW d \in Calls \ {c}, Hidden(d, n) \/ Spare(d, n) \/ Taken(d, n) PROVE FALSE
    OBVIOUS
  <2>1. pc[d] \in Inside /\ n \in names[d]
    BY DEF Hidden, Spare, Taken, Midway, Inside
  <2> QED
    BY <2>1, InsideHolds
<1> QED
  BY <1>1, <1>2 DEF Seen

\* ... before and after a step of its holder.
LEMMA AtMine ==
  ASSUME Inv, Inv', NEW c \in Calls, StepOf(c), NEW n \in Names, c \in holder[n]
  PROVE  /\ ContentOf(n) = IF Hidden(c, n) THEN before[c][n] ELSE file[n]
         /\ StackOf(n) = IF Spare(c, n) THEN Front(history[n])
                         ELSE IF Taken(c, n) THEN Append(history[n], before[c][n]) ELSE history[n]
         /\ ContentOf(n)' = IF Hidden(c, n)' THEN before'[c][n] ELSE file'[n]
         /\ StackOf(n)' = IF Spare(c, n)' THEN Front(history'[n])
                          ELSE IF Taken(c, n)' THEN Append(history'[n], before'[c][n]) ELSE history'[n]
<1>1. HeldSeen /\ HeldSeen'
  <2>1. Inv' => HeldSeen'
    BY HeldIs, PTL
  <2> QED
    BY <2>1, HeldIs
<1>2. \A d \in holder[n] : d = c
  BY DEF Inv, LockInv, Alone
<1>3. \A d \in holder'[n] : d = c
  <2>1. holder'[n] \in SUBSET Calls
    BY DEF Inv, TypeInv
  <2> QED
    BY <1>2, <2>1 DEF StepOf
<1> QED
  BY <1>1, <1>2, <1>3 DEF HeldSeen

\* What a client has heard.
LEMMA Outcomes ==
  ASSUME Inv, NEW c \in Calls, StepOf(c)
  PROVE  /\ pc[c] \notin {"note", "end"} => OutcomeOf(c) = "pending"
         /\ \A d \in Calls \ {c} : OutcomeOf(d)' = OutcomeOf(d)
         /\ \A result \in {"ok", "error"} : Return(c, result) => OutcomeOf(c)' = result
         /\ pc'[c] = "note" => OutcomeOf(c)' = "ok"
         /\ pc[c] # "note" /\ pc'[c] # "note" /\ UNCHANGED reply => OutcomeOf(c)' = OutcomeOf(c)
<1>1. pc[c] \notin {"note", "end"} => OutcomeOf(c) = "pending"
  BY DEF Inv, DataInv, Data, OutcomeOf
<1>2. \A d \in Calls \ {c} : OutcomeOf(d)' = OutcomeOf(d)
  BY DEF StepOf, OutcomeOf
<1>3. ASSUME NEW result \in {"ok", "error"}, Return(c, result) PROVE OutcomeOf(c)' = result
  <2>1. pc'[c] = "end" /\ reply'[c] = result
    BY <1>3 DEF Return, Goto, Inv, TypeInv
  <2> QED
    BY <2>1 DEF OutcomeOf
<1> QED
  BY <1>1, <1>2, <1>3 DEF OutcomeOf

\* The steps of AtomicFiles, file by file and call by call.
LEMMA AtomicStutter ==
  ASSUME \A n \in Names : ContentOf(n)' = ContentOf(n) /\ StackOf(n)' = StackOf(n),
         \A d \in Calls : OutcomeOf(d)' = OutcomeOf(d)
  PROVE  UNCHANGED Atomic!atomicVars
BY DEF Atomic!atomicVars

LEMMA AtomicNoEffect ==
  ASSUME NEW c \in Calls, NEW result \in {"ok", "error"},
         OutcomeOf(c) = "pending", OutcomeOf(c)' = result,
         \A d \in Calls \ {c} : OutcomeOf(d)' = OutcomeOf(d),
         \A n \in Names : ContentOf(n)' = ContentOf(n) /\ StackOf(n)' = StackOf(n)
  PROVE  Atomic!AtomicNext
<1>1. Atomic!NoEffect(c, result)
  BY DEF Atomic!NoEffect, Atomic!Settle
<1> QED
  BY <1>1 DEF Atomic!AtomicNext

LEMMA AtomicEdit ==
  ASSUME NEW c \in Calls, NEW S \in (SUBSET Names) \ {{}},
         OutcomeOf(c) = "pending", OutcomeOf(c)' = "ok",
         \A d \in Calls \ {c} : OutcomeOf(d)' = OutcomeOf(d),
         \A n \in S : /\ ContentOf(n) # Absent /\ ContentOf(n)' = ContentOf(n) \cup {c}
                      /\ StackOf(n)' = Append(StackOf(n), ContentOf(n)),
         \A n \in Names \ S : ContentOf(n)' = ContentOf(n) /\ StackOf(n)' = StackOf(n)
  PROVE  Atomic!AtomicNext
<1>1. Atomic!Edit(c, S)
  BY DEF Atomic!Edit, Atomic!Settle
<1> QED
  BY <1>1 DEF Atomic!AtomicNext

LEMMA AtomicDelete ==
  ASSUME NEW c \in Calls, NEW m \in Names,
         OutcomeOf(c) = "pending", OutcomeOf(c)' = "ok",
         \A d \in Calls \ {c} : OutcomeOf(d)' = OutcomeOf(d),
         ContentOf(m) # Absent, ContentOf(m)' = Absent, StackOf(m)' = Append(StackOf(m), ContentOf(m)),
         \A n \in Names \ {m} : ContentOf(n)' = ContentOf(n) /\ StackOf(n)' = StackOf(n)
  PROVE  Atomic!AtomicNext
<1>1. Atomic!Delete(c, m)
  BY DEF Atomic!Delete, Atomic!Settle
<1> QED
  BY <1>1 DEF Atomic!AtomicNext

LEMMA AtomicUndo ==
  ASSUME NEW c \in Calls, NEW m \in Names,
         OutcomeOf(c) = "pending", OutcomeOf(c)' = "ok",
         \A d \in Calls \ {c} : OutcomeOf(d)' = OutcomeOf(d),
         StackOf(m) # <<>>, ContentOf(m)' = Last(StackOf(m)), StackOf(m)' = Front(StackOf(m)),
         \A n \in Names \ {m} : ContentOf(n)' = ContentOf(n) /\ StackOf(n)' = StackOf(n)
  PROVE  Atomic!AtomicNext
<1>1. Atomic!Undo(c, m)
  BY DEF Atomic!Undo, Atomic!Settle, Atomic!Front, Atomic!Last, Front, Last
<1> QED
  BY <1>1 DEF Atomic!AtomicNext

\* A step that does what AtomicFiles allows, or nothing, and keeps the pasts.
Maps == (Atomic!AtomicNext \/ UNCHANGED Atomic!atomicVars) /\ PastInv'

\* A step of a call that hides nothing and writes nothing.
LEMMA QuietMaps ==
  ASSUME Inv, Inv', PastInv, NEW c \in Calls, StepOf(c), UNCHANGED <<file, history, past>>,
         pc[c] \notin {"write", "commit", "restore", "record"},
         pc'[c] \notin {"write", "commit", "restore", "record"},
         \/ UNCHANGED reply /\ pc[c] # "note" /\ pc'[c] # "note"
         \/ \E result \in {"ok", "error"} : Return(c, result) /\ pc[c] \notin {"note", "end"}
         \/ pc[c] = "note" /\ Return(c, "ok")
  PROVE  Maps
<1>1. \A n \in Names : ContentOf(n)' = ContentOf(n) /\ StackOf(n)' = StackOf(n)
  <2>1. \A n \in Names : /\ ~Hidden(c, n) /\ ~Spare(c, n) /\ ~Taken(c, n)
                         /\ ~Hidden(c, n)' /\ ~Spare(c, n)' /\ ~Taken(c, n)'
    BY DEF Hidden, Spare, Taken, Midway
  <2> QED
    BY <2>1, Elsewhere
<1>2. PastInv'
  BY <1>1 DEF PastInv
<1>3. \A d \in Calls \ {c} : OutcomeOf(d)' = OutcomeOf(d)
  BY Outcomes
<1>4. CASE UNCHANGED reply /\ pc[c] # "note" /\ pc'[c] # "note"
  <2>1. OutcomeOf(c)' = OutcomeOf(c)
    BY <1>4, Outcomes
  <2> QED
    BY <1>1, <1>2, <1>3, <2>1, AtomicStutter DEF Maps
<1>5. ASSUME NEW result \in {"ok", "error"}, Return(c, result), pc[c] \notin {"note", "end"} PROVE Maps
  <2>1. OutcomeOf(c) = "pending" /\ OutcomeOf(c)' = result
    BY <1>5, Outcomes
  <2> QED
    BY <1>1, <1>2, <1>3, <2>1, AtomicNoEffect DEF Maps
<1>6. CASE pc[c] = "note" /\ Return(c, "ok")
  <2>1. OutcomeOf(c) = "ok" /\ OutcomeOf(c)' = "ok"
    BY <1>6, Outcomes DEF OutcomeOf
  <2> QED
    BY <1>1, <1>2, <1>3, <2>1, AtomicStutter DEF Maps
<1> QED
  BY <1>4, <1>5, <1>6

\* The steps of a call outside its write.
LEMMA QuietSteps ==
  ASSUME Inv, Inv', PastInv, AtomicTools, NEW c \in Calls, StepOf(c)
  PROVE  /\ \A kind \in Ops, S \in SUBSET Names : StartLocked(c, kind, S) => Maps
         /\ TakeLock(c) => Maps
         /\ \A n \in Names : StartView(c, n) => Maps
         /\ Render(c) \/ Note(c) => Maps
<1>1. ASSUME NEW kind \in Ops, NEW S \in SUBSET Names, StartLocked(c, kind, S) PROVE Maps
  <2>1. /\ pc[c] = "start" /\ UNCHANGED <<file, history, past>>
        /\ Return(c, "error") \/ (pc'[c] = "lock" /\ UNCHANGED <<reply, holder>>)
    BY <1>1, StartIs
  <2> QED
    BY <2>1, QuietMaps, ReturnTypes DEF Inv
<1>2. ASSUME TakeLock(c) PROVE Maps
  <2>1. /\ pc[c] = "lock" /\ UNCHANGED <<file, history, past, reply>> /\ pc'[c] \in {"lock", "pop", "save", "load"}
    BY <1>2, LockIs
  <2> QED
    BY <2>1, QuietMaps
<1>3. ASSUME NEW n \in Names, StartView(c, n) PROVE Maps
  <2>1. /\ pc[c] = "start" /\ UNCHANGED <<file, history, past>>
        /\ Return(c, "error") \/ (pc'[c] = "render" /\ UNCHANGED <<reply, holder>>)
    BY <1>3, ViewIs
  <2> QED
    BY <2>1, QuietMaps, ReturnTypes DEF Inv
<1>4. ASSUME Render(c) \/ Note(c) PROVE Maps
  <2>1. pc[c] \in {"render", "note"} /\ UNCHANGED <<file, history, past>> /\ Return(c, "ok")
    BY <1>4, ViewIs
  <2> QED
    BY <2>1, QuietMaps, ReturnTypes DEF Inv
<1> QED
  BY <1>1, <1>2, <1>3, <1>4

LEMMA LoadMaps ==
  ASSUME Inv, Inv', PastInv, AtomicTools, NEW c \in Calls, StepOf(c), Load(c) PROVE Maps
<1>1. pc[c] = "load" /\ UNCHANGED <<file, history, past, tool, names>>
  BY LoadIs
<1>2. CASE Return(c, "error")
  BY <1>1, <1>2, QuietMaps, ReturnTypes DEF Inv
<1>3. CASE ~Return(c, "error")
  <2>1. UNCHANGED <<reply, holder>> /\ pc'[c] \in {"load", "save", "commit"}
    BY <1>3, LoadIs
  <2>2. CASE pc'[c] # "commit"
    BY <1>1, <2>1, <2>2, QuietMaps
  <2>3. CASE pc'[c] = "commit"
    <3>1. /\ \A n \in names[c] : before'[c][n] = file[n]
          /\ names[c] \in SUBSET Names /\ \A n \in names[c] : c \in holder[n]
      <4>1. Data(c)' /\ Fits(c)' /\ todo'[c] = names[c]
        BY <1>1, <1>3, <2>3, LoadIs DEF Inv, DataInv, TypeInv
      <4> QED
        BY <1>1, <2>3, <4>1, InsideHolds DEF Data, Inside
    <3>2. \A n \in Names : ContentOf(n)' = ContentOf(n) /\ StackOf(n)' = StackOf(n)
      <4>1. ASSUME NEW n \in Names, n \notin names[c]
            PROVE  ContentOf(n)' = ContentOf(n) /\ StackOf(n)' = StackOf(n)
        <5>1. /\ ~Hidden(c, n) /\ ~Spare(c, n) /\ ~Taken(c, n)
              /\ ~Hidden(c, n)' /\ ~Spare(c, n)' /\ ~Taken(c, n)'
          BY <1>1, <4>1 DEF Hidden, Spare, Taken
        <5> QED
          BY <1>1, <5>1, Elsewhere
      <4>2. ASSUME NEW n \in names[c] PROVE ContentOf(n)' = ContentOf(n) /\ StackOf(n)' = StackOf(n)
        <5>1. n \in Names /\ c \in holder[n] /\ before'[c][n] = file[n]
          BY <3>1
        <5>2. /\ ~Hidden(c, n) /\ ~Spare(c, n) /\ ~Taken(c, n) /\ ~Spare(c, n)' /\ ~Taken(c, n)'
          BY <1>1, <2>3 DEF Hidden, Spare, Taken, Midway
        <5> QED
          BY <1>1, <5>1, <5>2, AtMine
      <4> QED
        BY <4>1, <4>2
    <3>3. PastInv'
      BY <1>1, <3>2 DEF PastInv
    <3>4. \A d \in Calls : OutcomeOf(d)' = OutcomeOf(d)
      BY <1>1, <2>1, Outcomes
    <3> QED
      BY <3>2, <3>3, <3>4, AtomicStutter DEF Maps
  <2> QED
    BY <2>2, <2>3
<1> QED
  BY <1>2, <1>3

\* A step of a single-file tool inside leaves the other files as they are seen.
LEMMA OtherPaths ==
  ASSUME Inv, Inv', NEW c \in Calls, StepOf(c), UNCHANGED names, NEW n \in Names, n \notin names[c],
         file'[n] = file[n], history'[n] = history[n]
  PROVE  ContentOf(n)' = ContentOf(n) /\ StackOf(n)' = StackOf(n)
<1>1. /\ ~Hidden(c, n) /\ ~Spare(c, n) /\ ~Taken(c, n)
      /\ ~Hidden(c, n)' /\ ~Spare(c, n)' /\ ~Taken(c, n)'
  BY DEF Hidden, Spare, Taken
<1> QED
  BY <1>1, Elsewhere

LEMMA SaveMaps ==
  ASSUME Inv, Inv', PastInv, AtomicTools, NEW c \in Calls, StepOf(c), SaveHistory(c) PROVE Maps
<1>0. PICK m \in Names : m = Name(c) /\ names[c] = {m} /\ c \in holder[m]
  BY SaveIs, OnePath
<1>1. /\ pc[c] = "save" /\ pc'[c] = "write" /\ tool[c] \in {"edit", "delete"}
      /\ UNCHANGED <<file, past, before, tool, names, reply, holder>>
      /\ \A k \in Names \ {m} : history'[k] = history[k]
      /\ history'[m] = IF file[m] # Absent THEN Append(history[m], file[m]) ELSE history[m]
  BY <1>0, SaveIs
<1>2. names[c] = {m} /\ c \in holder[m]
  BY <1>0
<1>3. history[m] \in Seq(Texts) /\ file[m] \in Texts
  BY <1>2 DEF Inv, TypeInv
<1>4. Front(Append(history[m], file[m])) = history[m]
  BY <1>3, StackGrows
<1>5. ContentOf(m)' = ContentOf(m) /\ StackOf(m)' = StackOf(m)
  <2>1. /\ ~Hidden(c, m) /\ ~Spare(c, m) /\ ~Taken(c, m) /\ ~Hidden(c, m)' /\ ~Taken(c, m)'
        /\ Spare(c, m)' <=> file[m] # Absent
    BY <1>1, <1>2 DEF Hidden, Spare, Taken, Midway
  <2> QED
    BY <1>1, <1>2, <1>4, <2>1, AtMine
<1>6. \A n \in Names : ContentOf(n)' = ContentOf(n) /\ StackOf(n)' = StackOf(n)
  BY <1>1, <1>2, <1>5, OtherPaths
<1>7. PastInv'
  BY <1>1, <1>6 DEF PastInv
<1>8. \A d \in Calls : OutcomeOf(d)' = OutcomeOf(d)
  BY <1>1, Outcomes
<1> QED
  BY <1>6, <1>7, <1>8, AtomicStutter DEF Maps

LEMMA PopMaps ==
  ASSUME Inv, Inv', PastInv, AtomicTools, NEW c \in Calls, StepOf(c), PopHistory(c) PROVE Maps
<1>0. PICK m \in Names : m = Name(c) /\ names[c] = {m} /\ c \in holder[m]
  BY PopIs, OnePath
<1>1. pc[c] = "pop" /\ tool[c] = "undo" /\ UNCHANGED <<file, past, tool, names>>
  BY PopIs
<1>2. CASE Return(c, "error") /\ UNCHANGED history
  BY <1>1, <1>2, QuietMaps, ReturnTypes DEF Inv
<1>3. CASE ~(Return(c, "error") /\ UNCHANGED history)
  <2>1. /\ history[m] # <<>> /\ pc'[c] = "write" /\ UNCHANGED <<reply, holder>>
        /\ history'[m] = Front(history[m]) /\ before'[c][m] = Last(history[m])
        /\ \A k \in Names \ {m} : history'[k] = history[k]
    BY <1>0, <1>3, PopIs
  <2>2. names[c] = {m} /\ c \in holder[m]
    BY <1>0
  <2>3. history[m] \in Seq(Texts)
    BY <2>2 DEF Inv, TypeInv
  <2>4. Append(Front(history[m]), Last(history[m])) = history[m]
    BY <2>1, <2>3, SequenceParts
  <2>5. ContentOf(m)' = ContentOf(m) /\ StackOf(m)' = StackOf(m)
    <3>1. /\ ~Hidden(c, m) /\ ~Spare(c, m) /\ ~Taken(c, m) /\ ~Hidden(c, m)' /\ ~Spare(c, m)' /\ Taken(c, m)'
      BY <1>1, <2>1, <2>2 DEF Hidden, Spare, Taken, Midway
    <3> QED
      BY <1>1, <2>1, <2>2, <2>4, <3>1, AtMine
  <2>6. \A n \in Names : ContentOf(n)' = ContentOf(n) /\ StackOf(n)' = StackOf(n)
    BY <1>1, <2>1, <2>2, <2>5, OtherPaths
  <2>7. PastInv'
    BY <1>1, <2>6 DEF PastInv
  <2>8. \A d \in Calls : OutcomeOf(d)' = OutcomeOf(d)
    BY <1>1, <2>1, Outcomes
  <2> QED
    BY <2>6, <2>7, <2>8, AtomicStutter DEF Maps
<1> QED
  BY <1>2, <1>3

LEMMA WriteMaps ==
  ASSUME Inv, Inv', PastInv, AtomicTools, NEW c \in Calls, StepOf(c), Write(c) PROVE Maps
<1>0. PICK m \in Names : m = Name(c) /\ names[c] = {m} /\ c \in holder[m]
  BY WriteIs, OnePath
<1>1. /\ pc[c] = "write" /\ UNCHANGED <<history, before, tool, names>>
      /\ tool[c] \in {"edit", "delete", "undo"}
  BY WriteIs
<1>2. /\ history[m] \in Seq(Texts) /\ file[m] \in Texts /\ before[c][m] \in Texts /\ past[m] = StackOf(m)
  BY <1>0 DEF Inv, TypeInv, PastInv
<1>3. OutcomeOf(c) = "pending" /\ \A d \in Calls \ {c} : OutcomeOf(d)' = OutcomeOf(d)
  BY <1>1, Outcomes
<1>4. CASE Return(c, "error") /\ UNCHANGED <<file, past>> /\ tool[c] = "delete" /\ file[m] = Absent
  <2>1. pc'[c] = "end" /\ OutcomeOf(c)' = "error"
    BY <1>4, Outcomes, ReturnTypes DEF Inv
  <2>2. /\ ~Hidden(c, m) /\ ~Spare(c, m) /\ ~Taken(c, m) /\ ~Hidden(c, m)' /\ ~Spare(c, m)' /\ ~Taken(c, m)'
    BY <1>1, <1>4, <2>1 DEF Hidden, Spare, Taken, Midway
  <2>3. ContentOf(m)' = ContentOf(m) /\ StackOf(m)' = StackOf(m)
    BY <1>0, <1>1, <1>4, <2>2, AtMine
  <2>4. \A n \in Names : ContentOf(n)' = ContentOf(n) /\ StackOf(n)' = StackOf(n)
    BY <1>0, <1>1, <1>4, <2>3, OtherPaths
  <2>5. PastInv'
    BY <1>4, <2>4 DEF PastInv
  <2> QED
    BY <1>3, <2>1, <2>4, <2>5, AtomicNoEffect DEF Maps
<1>5. ASSUME ~(Return(c, "error") /\ UNCHANGED <<file, past>> /\ tool[c] = "delete" /\ file[m] = Absent)
      PROVE  Maps
  <2>1. /\ pc'[c] = "note" /\ (tool[c] = "delete" => file[m] # Absent)
        /\ file'[m] = Result(c) /\ \A k \in Names \ {m} : file'[k] = file[k] /\ past'[k] = past[k]
        /\ past'[m] = IF tool[c] # "undo" THEN Append(past[m], file[m])
                      ELSE IF past[m] = <<>> THEN <<>> ELSE Front(past[m])
    BY <1>0, <1>5, WriteIs
  <2>2. OutcomeOf(c)' = "ok"
    BY <2>1, Outcomes
  <2>3. /\ ~Hidden(c, m) /\ ~Hidden(c, m)' /\ ~Spare(c, m)' /\ ~Taken(c, m)'
        /\ Spare(c, m) <=> tool[c] \in {"edit", "delete"} /\ file[m] # Absent
        /\ Taken(c, m) <=> tool[c] = "undo"
    BY <1>0, <1>1, <2>1 DEF Hidden, Spare, Taken, Midway
  <2>4. \A n \in Names \ {m} : ContentOf(n)' = ContentOf(n) /\ StackOf(n)' = StackOf(n)
    BY <1>0, <1>1, <2>1, OtherPaths
  <2>5. ContentOf(m) = file[m] /\ ContentOf(m)' = Result(c) /\ StackOf(m)' = history[m]
    BY <1>0, <1>1, <2>1, <2>3, AtMine
  <2>6. CASE tool[c] = "undo"
    <3>1. StackOf(m) = Append(history[m], before[c][m]) /\ Result(c) = before[c][m]
      BY <1>0, <1>1, <2>3, <2>6, AtMine DEF Result
    <3>2. StackOf(m) # <<>> /\ Front(StackOf(m)) = history[m] /\ Last(StackOf(m)) = before[c][m]
      BY <1>2, <3>1, StackGrows
    <3>3. ContentOf(m)' = Last(StackOf(m)) /\ StackOf(m)' = Front(StackOf(m)) /\ past'[m] = StackOf(m)'
      BY <1>2, <2>1, <2>5, <2>6, <3>1, <3>2
    <3>4. PastInv'
      BY <2>1, <2>4, <3>3 DEF PastInv
    <3> QED
      BY <1>3, <2>2, <2>4, <3>2, <3>3, <3>4, AtomicUndo DEF Maps
  <2>7. CASE tool[c] \in {"edit", "delete"}
    <3>1. /\ file[m] # Absent /\ history[m] # <<>> /\ Last(history[m]) = file[m]
          /\ tool[c] = "edit" => before[c][m] = file[m]
      BY <1>0, <1>1, <2>1, <2>7 DEF Inv, DataInv, Data
    <3>2. StackOf(m) = Front(history[m])
      BY <1>0, <2>3, <2>7, <3>1, AtMine
    <3>3. history[m] = Append(Front(history[m]), Last(history[m]))
      BY <1>2, <3>1, SequenceParts
    <3>4. StackOf(m)' = Append(StackOf(m), ContentOf(m)) /\ past'[m] = StackOf(m)' /\ ContentOf(m) # Absent
      BY <1>2, <2>1, <2>5, <2>7, <3>1, <3>2, <3>3
    <3>5. PastInv'
      BY <2>1, <2>4, <3>4 DEF PastInv
    <3>6. CASE tool[c] = "edit"
      <4>1. ContentOf(m)' = ContentOf(m) \cup {c}
        BY <1>0, <2>5, <3>1, <3>6 DEF Result
      <4>2. {m} \in (SUBSET Names) \ {{}}
        OBVIOUS
      <4> QED
        BY <1>3, <2>2, <2>4, <3>4, <3>5, <4>1, <4>2, AtomicEdit DEF Maps
    <3>7. CASE tool[c] = "delete"
      <4>1. ContentOf(m)' = Absent
        BY <2>5, <3>7 DEF Result
      <4> QED
        BY <1>3, <2>2, <2>4, <3>4, <3>5, <4>1, AtomicDelete DEF Maps
    <3> QED
      BY <2>7, <3>6, <3>7
  <2> QED
    BY <1>1, <2>6, <2>7
<1> QED
  BY <1>4, <1>5

\* While a transaction writes or rolls back its files are seen as they were.
LEMMA MidwayMaps ==
  ASSUME Inv, Inv', PastInv, NEW c \in Calls, StepOf(c),
         pc[c] \in {"commit", "restore"}, pc'[c] \in {"commit", "restore", "record"},
         tool[c] = "transaction", UNCHANGED <<history, past, before, tool, names, reply>>,
         \A n \in Names : n \notin names[c] => file'[n] = file[n]
  PROVE  Maps
<1>1. \A n \in Names : ContentOf(n)' = ContentOf(n) /\ StackOf(n)' = StackOf(n)
  <2>1. ASSUME NEW n \in Names, n \in names[c]
        PROVE  ContentOf(n)' = ContentOf(n) /\ StackOf(n)' = StackOf(n)
    <3>1. /\ Hidden(c, n) /\ ~Spare(c, n) /\ ~Taken(c, n) /\ Hidden(c, n)' /\ ~Spare(c, n)' /\ ~Taken(c, n)'
      BY <2>1 DEF Hidden, Spare, Taken, Midway
    <3>2. c \in holder[n]
      BY <2>1, InsideHolds DEF Inside
    <3> QED
      BY <3>1, <3>2, AtMine
  <2>2. ASSUME NEW n \in Names, n \notin names[c]
        PROVE  ContentOf(n)' = ContentOf(n) /\ StackOf(n)' = StackOf(n)
    BY <2>2, OtherPaths
  <2> QED
    BY <2>1, <2>2
<1>2. PastInv'
  BY <1>1 DEF PastInv
<1>3. \A d \in Calls : OutcomeOf(d)' = OutcomeOf(d)
  BY Outcomes
<1> QED
  BY <1>1, <1>2, <1>3, AtomicStutter DEF Maps

LEMMA CommitMaps ==
  ASSUME Inv, Inv', PastInv, NEW c \in Calls, StepOf(c), Commit(c) PROVE Maps
<1>1. /\ pc[c] = "commit" /\ tool[c] = "transaction"
      /\ UNCHANGED <<history, past, before, tool, names, reply>> /\ pc'[c] \in {"commit", "record", "restore"}
  BY CommitIs
<1>2. \A n \in Names : n \notin names[c] => file'[n] = file[n]
  BY CommitIs
<1> QED
  BY <1>1, <1>2, MidwayMaps

LEMMA RestoreMaps ==
  ASSUME Inv, Inv', PastInv, NEW c \in Calls, StepOf(c), Restore(c) PROVE Maps
<1>1. pc[c] = "restore" /\ tool[c] = "transaction" /\ UNCHANGED <<history, past, before, tool, names>>
  BY RestoreIs
<1>2. CASE ~(todo[c] = {} /\ Return(c, "error") /\ UNCHANGED file)
  <2>1. pc'[c] = "restore" /\ UNCHANGED reply /\ \A n \in Names : n \notin names[c] => file'[n] = file[n]
    BY <1>2, RestoreIs
  <2> QED
    BY <1>1, <2>1, MidwayMaps
<1>3. CASE todo[c] = {} /\ Return(c, "error") /\ UNCHANGED file
  <2>1. pc'[c] = "end" /\ OutcomeOf(c) = "pending" /\ OutcomeOf(c)' = "error"
    BY <1>1, <1>3, Outcomes, ReturnTypes DEF Inv
  <2>2. \A n \in names[c] : n \in Names /\ c \in holder[n] /\ file[n] = before[c][n]
    BY <1>1, <1>3, InsideHolds DEF Inv, DataInv, Data, Inside
  <2>3. \A n \in Names : ContentOf(n)' = ContentOf(n) /\ StackOf(n)' = StackOf(n)
    <3>1. ASSUME NEW n \in Names, n \in names[c]
          PROVE  ContentOf(n)' = ContentOf(n) /\ StackOf(n)' = StackOf(n)
      <4>1. /\ Hidden(c, n) /\ ~Spare(c, n) /\ ~Taken(c, n)
            /\ ~Hidden(c, n)' /\ ~Spare(c, n)' /\ ~Taken(c, n)'
        BY <1>1, <2>1, <3>1 DEF Hidden, Spare, Taken, Midway
      <4> QED
        BY <1>1, <1>3, <2>2, <3>1, <4>1, AtMine
    <3>2. ASSUME NEW n \in Names, n \notin names[c]
          PROVE  ContentOf(n)' = ContentOf(n) /\ StackOf(n)' = StackOf(n)
      BY <1>1, <1>3, <3>2, OtherPaths
    <3> QED
      BY <3>1, <3>2
  <2>4. PastInv'
    BY <1>1, <2>3 DEF PastInv
  <2>5. \A d \in Calls \ {c} : OutcomeOf(d)' = OutcomeOf(d)
    BY Outcomes
  <2> QED
    BY <2>1, <2>3, <2>4, <2>5, AtomicNoEffect DEF Maps
<1> QED
  BY <1>2, <1>3

LEMMA RecordMaps ==
  ASSUME Inv, Inv', PastInv, NEW c \in Calls, StepOf(c), Record(c) PROVE Maps
<1>1. /\ pc[c] = "record" /\ tool[c] = "transaction" /\ Return(c, "ok")
      /\ UNCHANGED <<file, before, tool, names>>
      /\ \A n \in Names : /\ history'[n] = IF n \in names[c] THEN Append(history[n], before[c][n])
                                           ELSE history[n]
                          /\ past'[n] = IF n \in names[c] THEN Append(past[n], before[c][n])
                                        ELSE past[n]
  BY RecordIs
<1>2. pc'[c] = "end" /\ OutcomeOf(c) = "pending" /\ OutcomeOf(c)' = "ok"
  BY <1>1, Outcomes, ReturnTypes DEF Inv
<1>3. /\ names[c] \in (SUBSET Names) \ {{}}
      /\ \A n \in names[c] : /\ c \in holder[n] /\ file[n] = before[c][n] \cup {c}
                             /\ before[c][n] # Absent
  BY <1>1, InsideHolds DEF Inv, DataInv, Data, Inside
<1>4. ASSUME NEW n \in names[c]
      PROVE  /\ ContentOf(n) # Absent /\ ContentOf(n)' = ContentOf(n) \cup {c}
             /\ StackOf(n)' = Append(StackOf(n), ContentOf(n)) /\ past'[n] = StackOf(n)'
  <2>1. n \in Names /\ c \in holder[n] /\ past[n] = StackOf(n)
    BY <1>3 DEF PastInv
  <2>2. /\ Hidden(c, n) /\ ~Spare(c, n) /\ ~Taken(c, n) /\ ~Hidden(c, n)' /\ ~Spare(c, n)' /\ ~Taken(c, n)'
    BY <1>1, <1>2 DEF Hidden, Spare, Taken, Midway
  <2>3. /\ ContentOf(n) = before[c][n] /\ ContentOf(n)' = file'[n]
        /\ StackOf(n) = history[n] /\ StackOf(n)' = history'[n]
    BY <2>1, <2>2, AtMine
  <2>4. /\ history'[n] = Append(history[n], before[c][n]) /\ past'[n] = Append(past[n], before[c][n])
        /\ file'[n] = before[c][n] \cup {c} /\ before[c][n] # Absent
    BY <1>1, <1>3, <2>1
  <2> QED
    BY <2>1, <2>3, <2>4
<1>5. ASSUME NEW n \in Names \ names[c]
      PROVE  ContentOf(n)' = ContentOf(n) /\ StackOf(n)' = StackOf(n) /\ past'[n] = past[n]
  BY <1>1, OtherPaths
<1>6. PastInv'
  BY <1>4, <1>5 DEF PastInv
<1>7. \A d \in Calls \ {c} : OutcomeOf(d)' = OutcomeOf(d)
  BY Outcomes
<1> QED
  BY <1>2, <1>3, <1>4, <1>5, <1>6, <1>7, AtomicEdit DEF Maps

LEMMA ActMaps ==
  ASSUME Inv, Inv', PastInv, AtomicTools, NEW c \in Calls, Acts(c) PROVE Maps
<1>1. StepOf(c)
  BY ActIsOf DEF Inv
<1>2. ASSUME NEW kind \in Ops, NEW S \in SUBSET Names, StartLocked(c, kind, S) PROVE Maps
  BY <1>1, <1>2, QuietSteps
<1>3. ASSUME TakeLock(c) \/ Render(c) \/ Note(c) PROVE Maps
  BY <1>1, <1>3, QuietSteps
<1>4. ASSUME NEW n \in Names, StartView(c, n) PROVE Maps
  BY <1>1, <1>4, QuietSteps
<1>5. ASSUME Load(c) PROVE Maps
  BY <1>1, <1>5, LoadMaps
<1>6. ASSUME SaveHistory(c) PROVE Maps
  BY <1>1, <1>6, SaveMaps
<1>7. ASSUME PopHistory(c) PROVE Maps
  BY <1>1, <1>7, PopMaps
<1>8. ASSUME Write(c) PROVE Maps
  BY <1>1, <1>8, WriteMaps
<1>9. ASSUME Commit(c) PROVE Maps
  BY <1>1, <1>9, CommitMaps
<1>10. ASSUME Restore(c) PROVE Maps
  BY <1>1, <1>10, RestoreMaps
<1>11. ASSUME Record(c) PROVE Maps
  BY <1>1, <1>11, RecordMaps
<1> QED
  BY <1>2, <1>3, <1>4, <1>5, <1>6, <1>7, <1>8, <1>9, <1>10, <1>11, NoCreate DEF Acts

LEMMA StepMaps == ASSUME Inv, Inv', PastInv, AtomicTools, [Next]_vars PROVE Maps
<1>1. ASSUME NEW c \in Calls, Acts(c) PROVE Maps
  BY <1>1, ActMaps
<1>2. CASE UNCHANGED vars
  <2>1. ASSUME NEW n \in Names PROVE ContentOf(n)' = ContentOf(n) /\ StackOf(n)' = StackOf(n)
    BY <1>2 DEF ContentOf, StackOf, Midway, Saved, Popped, Exists, Name, vars, world, local
  <2>2. \A d \in Calls : OutcomeOf(d)' = OutcomeOf(d)
    BY <1>2 DEF OutcomeOf, vars
  <2>3. PastInv'
    BY <1>2, <2>1 DEF PastInv, vars
  <2> QED
    BY <2>1, <2>2, <2>3, AtomicStutter DEF Maps
<1> QED
  BY <1>1, <1>2, NextIsAct

LEMMA InitMaps == Init => Atomic!AtomicInit /\ PastInv
<1> SUFFICES ASSUME Init PROVE Atomic!AtomicInit /\ PastInv
  OBVIOUS
<1>1. ASSUME NEW n \in Names PROVE ContentOf(n) = file[n] /\ StackOf(n) = history[n]
  BY DEF Init, ContentOf, StackOf, Midway, Saved, Popped
<1>2. \A n \in Names : file[n] \in {{}, Absent} /\ history[n] = <<>> /\ past[n] = <<>>
  BY DEF Init
<1>3. \A c \in Calls : OutcomeOf(c) = "pending"
  BY DEF Init, OutcomeOf
<1> QED
  BY <1>1, <1>2, <1>3 DEF Atomic!AtomicInit, PastInv

LEMMA PastInvCorrect == NoPathIsALink /\ AtomicTools => (Spec => []PastInv)
<1> SUFFICES ASSUME NoPathIsALink, AtomicTools PROVE Spec => []PastInv
  OBVIOUS
<1>1. Init => PastInv
  BY InitMaps
<1>2. ASSUME Inv, Inv', PastInv, [Next]_vars PROVE PastInv'
  BY <1>2, StepMaps DEF Maps
<1> QED
  BY <1>1, <1>2, InvCorrect, PTL DEF Spec

\* Where no path is a link and only a transaction's writes may fail, every
\* edit, delete, undo, view and transaction takes effect on all its files at
\* one instant or not at all, and its reply says which: the locks of
\* text_editing.rs, the snapshots of core.rs and the rollback of multi_edit.rs
\* together implement AtomicFiles.
THEOREM ImplementsAtomicCorrect == NoPathIsALink /\ AtomicTools => (Spec => ImplementsAtomic)
<1> SUFFICES ASSUME NoPathIsALink, AtomicTools PROVE Spec => ImplementsAtomic
  OBVIOUS
<1>1. Init => Atomic!AtomicInit
  BY InitMaps
<1>2. ASSUME Inv, Inv', PastInv, [Next]_vars PROVE [Atomic!AtomicNext]_(Atomic!atomicVars)
  BY <1>2, StepMaps DEF Maps
<1> QED
  BY <1>1, <1>2, InvCorrect, PastInvCorrect, PTL DEF Spec, ImplementsAtomic, Atomic!AtomicSpec

\* Under the same hypotheses an undo_edit that goes through finds a write to
\* revert and leaves the file as it was before the last write not yet undone,
\* whatever other calls did in between.
THEOREM UndoRevertsLastEditCorrect == NoPathIsALink /\ AtomicTools => (Spec => UndoRevertsLastEdit)
<1> SUFFICES ASSUME NoPathIsALink, AtomicTools PROVE Spec => UndoRevertsLastEdit
  OBVIOUS
<1> DEFINE Reverts ==
      \A c \in Calls : tool[c] = "undo" /\ pc[c] = "write" /\ pc'[c] = "note" =>
        past[Name(c)] # <<>> /\ file'[Name(c)] = Last(past[Name(c)])
<1>1. ASSUME Inv, PastInv, [Next]_vars PROVE Reverts
  <2> SUFFICES ASSUME NEW c \in Calls, tool[c] = "undo", pc[c] = "write", pc'[c] = "note"
               PROVE  past[Name(c)] # <<>> /\ file'[Name(c)] = Last(past[Name(c)])
    OBVIOUS
  <2>1. Acts(c)
    <3>1. pc' # pc
      OBVIOUS
    <3>2. \A e \in Calls : Acts(e) => e = c
      BY <1>1, ActIsOf DEF StepOf, Inv
    <3> QED
      BY <1>1, <3>1, <3>2, NextIsAct DEF vars
  <2>2. Write(c)
    <3>1. /\ ~TakeLock(c) /\ ~Load(c) /\ ~SaveHistory(c) /\ ~PopHistory(c) /\ ~Note(c)
      BY DEF TakeLock, Load, SaveHistory, PopHistory, Note
    <3>2. /\ ~Commit(c) /\ ~Restore(c) /\ ~Record(c) /\ ~Render(c) /\ ~Open(c) /\ ~Fill(c)
      BY DEF Commit, Restore, Record, Render, Open, Fill
    <3>3. /\ \A kind \in Ops, S \in SUBSET Names : ~StartLocked(c, kind, S)
          /\ \A n \in Names : ~StartView(c, n) /\ ~StartCreate(c, n)
      BY DEF StartLocked, StartView, StartCreate
    <3> QED
      BY <2>1, <3>1, <3>2, <3>3 DEF Acts
  <2>3. PICK m \in Names : m = Name(c) /\ names[c] = {m}
    BY <1>1, OnePath
  <2>4. file'[m] = before[c][m]
    <3>1. pc'[c] # "end"
      OBVIOUS
    <3>2. file'[m] = Result(c)
      BY <1>1, <2>2, <2>3, <3>1, WriteIs, ReturnTypes DEF Inv
    <3> QED
      BY <2>3, <3>2 DEF Result
  <2>5. past[m] = Append(history[m], before[c][m])
    BY <1>1, <2>3, SeenIs DEF PastInv, Seen, Taken
  <2>6. history[m] \in Seq(Texts) /\ before[c][m] \in Texts
    BY <1>1 DEF Inv, TypeInv
  <2>7. past[m] # <<>> /\ Last(past[m]) = before[c][m]
    BY <2>5, <2>6, StackGrows
  <2> QED
    BY <2>3, <2>4, <2>7
<1>2. Reverts => (\A c \in Calls : tool[c] = "undo" /\ pc[c] = "write" /\ pc'[c] = "note" =>
                    LET n == Name(c) IN past[n] # <<>> /\ file'[n] = Last(past[n]))
  OBVIOUS
<1> QED
  BY <1>1, <1>2, InvCorrect, PastInvCorrect, PTL DEF Spec, UndoRevertsLastEdit

------------------------------------------------------------------------------
(* The undo history store.                                                 *)

\* A snapshot of the store: its size, and the edit it undoes.
Undoable == [bytes : Nat, edit : Nat]

-------------------------------------------------------------------------------
(* The sum of a finite set of snapshots.                                   *)

\* A set of numbers has a least one: what every induction below starts from.
LEMMA LeastNumber ==
  ASSUME NEW K \in SUBSET Nat, K # {}
  PROVE  \E k \in K : \A j \in K : k <= j
<1> DEFINE R == {p \in Nat \X Nat : p[1] < p[2]}
<1>1. IsWellFoundedOn(R, Nat)
  BY NatLessThanWellFounded DEF OpToRel
<1>2. PICK k \in K : \A j \in K : ~(<<j, k>> \in R)
  <2> HIDE DEF R
  <2> QED
    BY <1>1, WFMin
<1>3. \A j \in K : j \in Nat /\ k \in Nat /\ ~(j < k)
  BY <1>2
<1> QED
  BY <1>3

AnyOf(S) == CHOOSE s \in S : TRUE

\* g gives every subset of S its sum.
IsTotals(g, S) ==
  g = [T \in SUBSET S |-> IF T = {} THEN 0 ELSE AnyOf(T).bytes + g[T \ {AnyOf(T)}]]
Totals(S) == CHOOSE g : IsTotals(g, S)

\* The community module's fold is this recursion.
LEMMA BytesIsTotals == \A S : Bytes(S) = Totals(S)[S]
  BY DEF Bytes, MapThenSumSet, MapThenFoldSet, Totals, IsTotals, AnyOf

\* Taking the chosen snapshot out of a set leaves a smaller one.
LEMMA WithoutChosen ==
  ASSUME NEW S \in SUBSET Undoable, IsFiniteSet(S)
  PROVE  \A T \in SUBSET S :
           /\ IsFiniteSet(T) /\ Cardinality(T) \in Nat
           /\ Cardinality(T) = 0 <=> T = {}
           /\ T # {} => /\ AnyOf(T) \in T /\ AnyOf(T).bytes \in Nat
                        /\ T \ {AnyOf(T)} \in SUBSET S
                        /\ Cardinality(T \ {AnyOf(T)}) = Cardinality(T) - 1
<1> SUFFICES ASSUME NEW T \in SUBSET S
             PROVE  /\ IsFiniteSet(T) /\ Cardinality(T) \in Nat
                    /\ Cardinality(T) = 0 <=> T = {}
                    /\ T # {} => /\ AnyOf(T) \in T /\ AnyOf(T).bytes \in Nat
                                 /\ T \ {AnyOf(T)} \in SUBSET S
                                 /\ Cardinality(T \ {AnyOf(T)}) = Cardinality(T) - 1
  OBVIOUS
<1>1. IsFiniteSet(T) /\ Cardinality(T) \in Nat /\ (Cardinality(T) = 0 <=> T = {})
  BY FS_Subset, FS_CardinalityType, FS_EmptySet
<1>2. T # {} => AnyOf(T) \in T
  BY DEF AnyOf
<1>3. T # {} => AnyOf(T).bytes \in Nat
  BY <1>2 DEF Undoable
<1>4. T # {} => Cardinality(T \ {AnyOf(T)}) = Cardinality(T) - 1
  BY <1>1, <1>2, FS_RemoveElement
<1> QED
  BY <1>1, <1>2, <1>3, <1>4

\* The recursion has a solution: it has one for the sets of up to k snapshots,
\* whatever k.
LEMMA TotalsExist ==
  ASSUME NEW S \in SUBSET Undoable, IsFiniteSet(S)
  PROVE  IsTotals(Totals(S), S)
<1> DEFINE Turn(g, T) == IF T = {} THEN 0 ELSE AnyOf(T).bytes + g[T \ {AnyOf(T)}]
           UpTo(g, k) == \A T \in SUBSET S : Cardinality(T) <= k => g[T] = Turn(g, T)
           Bad == {k \in Nat : \A g \in [SUBSET S -> Nat] : ~UpTo(g, k)}
<1>1. Bad = {}
  <2> SUFFICES ASSUME Bad # {} PROVE FALSE
    OBVIOUS
  <2>1. PICK k \in Bad : \A j \in Bad : k <= j
    <3> HIDE DEF Bad
    <3>1. Bad \in SUBSET Nat
      BY DEF Bad
    <3> QED
      BY <3>1, LeastNumber
  <2>2. k # 0
    <3> DEFINE zero == [T \in SUBSET S |-> 0]
    <3>1. zero \in [SUBSET S -> Nat] /\ \A T \in SUBSET S : zero[T] = 0
      OBVIOUS
    <3>2. UpTo(zero, 0)
      <4> SUFFICES ASSUME NEW T \in SUBSET S, Cardinality(T) <= 0
                   PROVE  zero[T] = Turn(zero, T)
        OBVIOUS
      <4>0. Cardinality(T) \in Nat /\ (Cardinality(T) = 0 <=> T = {})
        BY WithoutChosen
      <4>1. T = {}
        BY <4>0
      <4> HIDE DEF zero
      <4> QED
        BY <3>1, <4>1
    <3> HIDE DEF zero, UpTo
    <3>3. 0 \notin Bad
      BY <3>1, <3>2
    <3> QED
      BY <3>3
  <2>3. PICK g \in [SUBSET S -> Nat] : UpTo(g, k - 1)
    <3> HIDE DEF UpTo
    <3>a. Bad \in SUBSET Nat
      OBVIOUS
    <3>b. k \in Nat
      BY <3>a
    <3>1. k - 1 \in Nat /\ k - 1 \notin Bad
      <4> HIDE DEF Bad
      <4> QED
        BY <3>a, <3>b, <2>1, <2>2
    <3> QED
      BY <3>1
  <2> DEFINE h == [T \in SUBSET S |-> Turn(g, T)]
  <2>4. h \in [SUBSET S -> Nat]
    <3> SUFFICES ASSUME NEW T \in SUBSET S PROVE Turn(g, T) \in Nat
      OBVIOUS
    <3>a. T # {} => AnyOf(T).bytes \in Nat /\ T \ {AnyOf(T)} \in SUBSET S
      BY WithoutChosen
    <3>1. T # {} => AnyOf(T).bytes \in Nat /\ g[T \ {AnyOf(T)}] \in Nat
      BY <3>a
    <3> QED
      BY <3>1
  <2>5. \A T \in SUBSET S : Cardinality(T) <= k - 1 => h[T] = g[T]
    BY <2>3
  <2>6. UpTo(h, k)
    <3> SUFFICES ASSUME NEW T \in SUBSET S, Cardinality(T) <= k, T # {}
                 PROVE  h[T] = AnyOf(T).bytes + h[T \ {AnyOf(T)}]
      OBVIOUS
    <3>1. h[T \ {AnyOf(T)}] = g[T \ {AnyOf(T)}]
      <4> HIDE DEF h
      <4> QED
        BY <2>5, WithoutChosen
    <3> QED
      BY <3>1
  <2> QED
    BY <2>4, <2>6
<1>2. Cardinality(S) \in Nat /\ \A T \in SUBSET S : Cardinality(T) <= Cardinality(S)
  BY FS_CardinalityType, FS_Subset
<1>3. PICK g \in [SUBSET S -> Nat] : UpTo(g, Cardinality(S))
  BY <1>1, <1>2
<1>4. IsTotals(g, S)
  BY <1>2, <1>3 DEF IsTotals
<1> QED
  BY <1>4 DEF Totals

\* The sum of a subset does not depend on the set it is taken in.
LEMMA TotalsAgree ==
  \A S \in SUBSET Undoable : IsFiniteSet(S) =>
    \A T \in SUBSET S : Totals(S)[T] = Bytes(T) /\ Bytes(T) \in Nat
<1> DEFINE Agrees(S, T) == Totals(S)[T] = Bytes(T) /\ Bytes(T) \in Nat
           Bad == {k \in Nat : \E S \in SUBSET Undoable : IsFiniteSet(S) /\
                                 \E T \in SUBSET S : Cardinality(T) = k /\ ~Agrees(S, T)}
<1>1. Bad = {}
  <2> SUFFICES ASSUME Bad # {} PROVE FALSE
    OBVIOUS
  <2>1. PICK k \in Bad : \A j \in Bad : k <= j
    <3> HIDE DEF Bad
    <3>1. Bad \in SUBSET Nat
      BY DEF Bad
    <3> QED
      BY <3>1, LeastNumber
  <2>a. PICK S \in SUBSET Undoable : IsFiniteSet(S) /\
          \E T \in SUBSET S : Cardinality(T) = k /\ ~Agrees(S, T)
    OBVIOUS
  <2>2. PICK T \in SUBSET S : IsFiniteSet(S) /\ Cardinality(T) = k /\ ~Agrees(S, T)
    BY <2>a
  <2>3. /\ IsFiniteSet(T) /\ T \in SUBSET Undoable
        /\ T # {} => /\ AnyOf(T).bytes \in Nat
                     /\ T \ {AnyOf(T)} \in SUBSET T /\ T \ {AnyOf(T)} \in SUBSET S
                     /\ Cardinality(T \ {AnyOf(T)}) = k - 1
                     /\ k - 1 \in Nat
    <3> HIDE DEF Bad, Agrees
    <3>1. /\ IsFiniteSet(T) /\ Cardinality(T) \in Nat /\ Cardinality(T) = k
          /\ Cardinality(T) = 0 <=> T = {}
      BY <2>2, WithoutChosen
    <3>2. ASSUME T # {}
          PROVE  /\ AnyOf(T).bytes \in Nat /\ T \ {AnyOf(T)} \in SUBSET S
                 /\ Cardinality(T \ {AnyOf(T)}) = Cardinality(T) - 1
      BY <2>2, <3>2, WithoutChosen
    <3>3. T # {} => k - 1 \in Nat
      BY <3>1
    <3> QED
      BY <3>1, <3>2, <3>3
  <2>4. /\ Totals(S)[T] = IF T = {} THEN 0 ELSE AnyOf(T).bytes + Totals(S)[T \ {AnyOf(T)}]
        /\ Totals(T)[T] = IF T = {} THEN 0 ELSE AnyOf(T).bytes + Totals(T)[T \ {AnyOf(T)}]
    <3>1. IsTotals(Totals(S), S) /\ IsTotals(Totals(T), T)
      BY <2>2, <2>3, TotalsExist
    <3> QED
      BY <3>1 DEF IsTotals
  <2>5. T # {} => Agrees(S, T \ {AnyOf(T)}) /\ Agrees(T, T \ {AnyOf(T)})
    <3> SUFFICES ASSUME T # {}, ~Agrees(S, T \ {AnyOf(T)}) \/ ~Agrees(T, T \ {AnyOf(T)})
                 PROVE  k - 1 \in Bad
      BY <2>1, <2>2, <2>3
    <3> HIDE DEF Agrees
    <3> QED
      BY <2>2, <2>3
  <2>6. Bytes(T) = Totals(T)[T]
    BY BytesIsTotals
  <2> QED
    BY <2>2, <2>3, <2>4, <2>5, <2>6
<1> SUFFICES ASSUME NEW S \in SUBSET Undoable, IsFiniteSet(S), NEW T \in SUBSET S, ~Agrees(S, T)
             PROVE  FALSE
  OBVIOUS
<1>2. Cardinality(T) \in Nat
  BY WithoutChosen
<1>3. Cardinality(T) \in Bad
  <2> HIDE DEF Agrees
  <2> QED
    BY <1>2
<1> QED
  BY <1>1, <1>3

\* The recursion for one set of snapshots.
LEMMA BytesUnfold ==
  ASSUME NEW S \in SUBSET Undoable, IsFiniteSet(S)
  PROVE  /\ Bytes(S) \in Nat
         /\ S = {} => Bytes(S) = 0
         /\ S # {} => Bytes(S) = AnyOf(S).bytes + Bytes(S \ {AnyOf(S)})
<1>1. IsTotals(Totals(S), S)
  BY TotalsExist
<1>2. Totals(S)[S] = IF S = {} THEN 0 ELSE AnyOf(S).bytes + Totals(S)[S \ {AnyOf(S)}]
  BY <1>1 DEF IsTotals
<1>3. /\ Bytes(S) = Totals(S)[S] /\ Bytes(S) \in Nat
      /\ Totals(S)[S \ {AnyOf(S)}] = Bytes(S \ {AnyOf(S)})
  BY TotalsAgree
<1> QED
  BY <1>2, <1>3

\* The sum of a set is that of any of its snapshots and of the others.
LEMMA BytesRemove ==
  \A S \in SUBSET Undoable : IsFiniteSet(S) =>
    \A s \in S : Bytes(S) = s.bytes + Bytes(S \ {s})
<1> DEFINE Splits(S) == \A s \in S : Bytes(S) = s.bytes + Bytes(S \ {s})
           Bad == {k \in Nat : \E S \in SUBSET Undoable :
                                 IsFiniteSet(S) /\ Cardinality(S) = k /\ ~Splits(S)}
<1>1. Bad = {}
  <2> SUFFICES ASSUME Bad # {} PROVE FALSE
    OBVIOUS
  <2>1. PICK k \in Bad : \A j \in Bad : k <= j
    <3> HIDE DEF Bad
    <3>1. Bad \in SUBSET Nat
      BY DEF Bad
    <3> QED
      BY <3>1, LeastNumber
  <2>2. PICK S \in SUBSET Undoable : IsFiniteSet(S) /\ Cardinality(S) = k /\ ~Splits(S)
    OBVIOUS
  <2>3. PICK s \in S : Bytes(S) # s.bytes + Bytes(S \ {s})
    BY <2>2
  <2> DEFINE c == AnyOf(S)
             U == S \ {c}
             V == S \ {s}
  <2>4. /\ c \in S /\ U \in SUBSET Undoable /\ IsFiniteSet(U)
        /\ V \in SUBSET Undoable /\ IsFiniteSet(V)
        /\ Cardinality(U) = k - 1 /\ Cardinality(V) = k - 1 /\ k - 1 \in Nat
    <3>1. c \in S
      BY <2>3 DEF AnyOf
    <3> HIDE DEF c
    <3>2. S # {} /\ Cardinality(S) \in Nat \ {0}
      BY <2>2, <2>3, FS_CardinalityType, FS_EmptySet
    <3> QED
      BY <2>2, <2>3, <3>1, <3>2, FS_RemoveElement
  <2>5. Bytes(S) = c.bytes + Bytes(U)
    BY <2>2, <2>3, BytesUnfold
  <2>6. c # s
    BY <2>3, <2>5
  <2>7. Splits(U) /\ Splits(V)
    <3> HIDE DEF Splits, U, V
    <3>1. k - 1 \notin Bad
      BY <2>1, <2>4
    <3> QED
      BY <2>4, <3>1
  <2>8. s \in U /\ c \in V /\ U \ {s} = V \ {c}
    BY <2>3, <2>4, <2>6
  <2>9. /\ Bytes(U) = s.bytes + Bytes(U \ {s})
        /\ Bytes(V) = c.bytes + Bytes(V \ {c})
    <3> HIDE DEF U, V, c
    <3> QED
      BY <2>7, <2>8
  <2>10. /\ s.bytes \in Nat /\ c.bytes \in Nat /\ Bytes(V) \in Nat
         /\ Bytes(U \ {s}) \in Nat
    <3>1. U \ {s} \in SUBSET Undoable /\ IsFiniteSet(U \ {s})
      BY <2>4, FS_RemoveElement
    <3>2. s \in Undoable /\ c \in Undoable
      BY <2>3, <2>4
    <3> HIDE DEF U, V, c
    <3> QED
      BY <2>4, <3>1, <3>2, BytesUnfold DEF Undoable
  <2> HIDE DEF U, c
  <2> QED
    BY <2>3, <2>5, <2>8, <2>9, <2>10
<1> SUFFICES ASSUME NEW S \in SUBSET Undoable, IsFiniteSet(S), ~Splits(S)
             PROVE  FALSE
  OBVIOUS
<1>2. Cardinality(S) \in Nat
  BY FS_CardinalityType
<1>3. Cardinality(S) \in Bad
  <2> HIDE DEF Splits
  <2> QED
    BY <1>2
<1> QED
  BY <1>1, <1>3

-------------------------------------------------------------------------------
(* The queue.                                                              *)

Queue(o, f) == {i \in DOMAIN o : o[i] = f}

\* A file has finitely many entries in the queue.
LEMMA QueueIsFinite ==
  \A o \in Seq(Files) : \A f \in Files :
    IsFiniteSet(Queue(o, f)) /\ Cardinality(Queue(o, f)) \in Nat
<1> SUFFICES ASSUME NEW o \in Seq(Files), NEW f \in Files
             PROVE  IsFiniteSet(Queue(o, f)) /\ Cardinality(Queue(o, f)) \in Nat
  OBVIOUS
<1>1. IsFiniteSet(1..Len(o))
  BY FS_Interval
<1>2. Queue(o, f) \in SUBSET (1..Len(o))
  BY DEF Queue
<1> QED
  BY <1>1, <1>2, FS_Subset, FS_CardinalityType

\* A push gives its file one more entry.
LEMMA QueueAppend ==
  ASSUME NEW o \in Seq(Files), NEW g \in Files
  PROVE  \A f \in Files : Cardinality(Queue(Append(o, g), f)) =
                            Cardinality(Queue(o, f)) + (IF g = f THEN 1 ELSE 0)
<1> SUFFICES ASSUME NEW f \in Files
             PROVE  Cardinality(Queue(Append(o, g), f)) =
                      Cardinality(Queue(o, f)) + (IF g = f THEN 1 ELSE 0)
  OBVIOUS
<1>1. CASE g = f
  <2>1. Queue(Append(o, g), f) = Queue(o, f) \cup {Len(o) + 1} /\ Len(o) + 1 \notin Queue(o, f)
    BY <1>1 DEF Queue
  <2> QED
    BY <1>1, <2>1, QueueIsFinite, FS_AddElement
<1>2. CASE g # f
  <2>1. Queue(Append(o, g), f) = Queue(o, f)
    BY <1>2 DEF Queue
  <2> QED
    BY <1>2, <2>1, QueueIsFinite
<1> QED
  BY <1>1, <1>2

\* A turn of the loop takes one entry from the oldest entry's file.
LEMMA QueueTail ==
  ASSUME NEW o \in Seq(Files), o # <<>>
  PROVE  \A f \in Files : Cardinality(Queue(Tail(o), f)) =
                            Cardinality(Queue(o, f)) - (IF Head(o) = f THEN 1 ELSE 0)
<1> SUFFICES ASSUME NEW f \in Files
             PROVE  Cardinality(Queue(Tail(o), f)) =
                      Cardinality(Queue(o, f)) - (IF Head(o) = f THEN 1 ELSE 0)
  OBVIOUS
<1> DEFINE later == Queue(o, f) \ {1}
           m == [i \in Queue(Tail(o), f) |-> i + 1]
<1>1. Tail(o) \in Seq(Files) /\ Len(Tail(o)) = Len(o) - 1
      /\ \A i \in 1..Len(Tail(o)) : Tail(o)[i] = o[i + 1]
  OBVIOUS
<1>2. m \in Bijection(Queue(Tail(o), f), later)
  <2>1. m \in [Queue(Tail(o), f) -> later]
    BY <1>1 DEF Queue
  <2>2. \A i, j \in Queue(Tail(o), f) : m[i] = m[j] => i = j
    BY <1>1 DEF Queue
  <2>3. \A j \in later : \E i \in Queue(Tail(o), f) : m[i] = j
    <3> SUFFICES ASSUME NEW j \in later PROVE j - 1 \in Queue(Tail(o), f) /\ m[j - 1] = j
      OBVIOUS
    <3>1. j \in 2..Len(o) /\ o[j] = f
      BY DEF Queue
    <3>2. j - 1 \in Queue(Tail(o), f)
      BY <1>1, <3>1 DEF Queue
    <3> QED
      BY <3>1, <3>2
  <2> HIDE DEF m, later
  <2> QED
    BY <2>1, <2>2, <2>3 DEF Bijection, Injection, IsInjective, Surjection
<1>3. Cardinality(later) = Cardinality(Queue(Tail(o), f))
  <2> HIDE DEF m, later
  <2>1. ExistsBijection(Queue(Tail(o), f), later)
    BY <1>2 DEF ExistsBijection
  <2> QED
    BY <1>1, <2>1, QueueIsFinite, FS_Bijection
<1>4. 1 \in Queue(o, f) <=> Head(o) = f
  BY DEF Queue
<1>5. Cardinality(later) = IF 1 \in Queue(o, f) THEN Cardinality(Queue(o, f)) - 1
                           ELSE Cardinality(Queue(o, f))
  BY QueueIsFinite, FS_RemoveElement
<1> QED
  BY <1>3, <1>4, <1>5, QueueIsFinite

-------------------------------------------------------------------------------
(* The stacks.                                                             *)

Stacks == [Files -> Seq(Undoable)]
Retained(fs) == UNION {Range(fs[f]) : f \in Files}

\* An edit's number names one snapshot, and numbers go up to n.
Apart(fs) ==
  \A f, g \in Files : \A i \in DOMAIN fs[f], j \in DOMAIN fs[g] :
    fs[f][i].edit = fs[g][j].edit => f = g /\ i = j
Numbered(fs, n) == \A f \in Files : \A i \in DOMAIN fs[f] : fs[f][i].edit <= n

\* A snapshot is retained exactly when it is on some file's stack.
LEMMA RetainedIs ==
  \A fs \in Stacks :
    /\ Retained(fs) \in SUBSET Undoable
    /\ \A f \in Files : \A i \in DOMAIN fs[f] : fs[f][i] \in Retained(fs)
    /\ \A s \in Retained(fs) : \E f \in Files : \E i \in DOMAIN fs[f] : s = fs[f][i]
  BY DEF Retained, Stacks, Range

\* One end of a stack goes: the oldest snapshot (by = 1) or the newest (by = 0).
LEMMA Dropped ==
  ASSUME NEW fs \in Stacks, Apart(fs), NEW f \in Files, fs[f] # <<>>,
         NEW t \in Seq(Undoable), NEW by \in {0, 1},
         Len(t) = Len(fs[f]) - 1, \A i \in 1..Len(t) : t[i] = fs[f][i + by]
  PROVE  LET gone == fs[f][IF by = 1 THEN 1 ELSE Len(fs[f])]
             gs == [fs EXCEPT ![f] = t]
         IN  /\ gs \in Stacks /\ Apart(gs)
             /\ \A n \in Nat : Numbered(fs, n) => Numbered(gs, n)
             /\ gone \in Retained(fs)
             /\ Retained(gs) = Retained(fs) \ {gone}
<1> DEFINE last == IF by = 1 THEN 1 ELSE Len(fs[f])
           gs == [fs EXCEPT ![f] = t]
<1>1. /\ gs \in Stacks /\ gs[f] = t
      /\ \A g \in Files \ {f} : gs[g] = fs[g]
  BY DEF Stacks
<1>2. /\ fs[f] \in Seq(Undoable) /\ last \in DOMAIN fs[f]
      /\ \A g \in Files : fs[g] \in Seq(Undoable)
      /\ \A i \in DOMAIN t : i \in 1..Len(t) /\ i + by \in DOMAIN fs[f] /\ i + by # last
      /\ \A j \in DOMAIN fs[f] : j # last => j - by \in DOMAIN t /\ (j - by) + by = j
  BY DEF Stacks
<1> HIDE DEF gs, last
<1>3. \A g \in Files, i \in Nat : i \in DOMAIN gs[g] =>
        LET j == IF g = f THEN i + by ELSE i
        IN  j \in DOMAIN fs[g] /\ gs[g][i] = fs[g][j] /\ (g = f => j # last)
  BY <1>1, <1>2
<1>4. \A g \in Files : DOMAIN gs[g] \in SUBSET Nat
  BY <1>1 DEF Stacks
<1>5. Apart(gs)
  <2> SUFFICES ASSUME NEW g \in Files, NEW h \in Files, NEW i \in DOMAIN gs[g],
                      NEW j \in DOMAIN gs[h], gs[g][i].edit = gs[h][j].edit
               PROVE  g = h /\ i = j
    BY DEF Apart
  <2> DEFINE p == IF g = f THEN i + by ELSE i
             q == IF h = f THEN j + by ELSE j
  <2>1. i \in Nat /\ j \in Nat
    BY <1>4
  <2>2. /\ p \in DOMAIN fs[g] /\ gs[g][i] = fs[g][p]
        /\ q \in DOMAIN fs[h] /\ gs[h][j] = fs[h][q]
    BY <1>3, <2>1
  <2>3. g = h /\ p = q
    <3> HIDE DEF p, q
    <3> QED
      BY <2>2 DEF Apart
  <2> QED
    BY <2>1, <2>3
<1>6. \A n \in Nat : Numbered(fs, n) => Numbered(gs, n)
  BY <1>3, <1>4 DEF Numbered
<1>7. fs[f][last] \in Retained(fs)
  BY <1>2, RetainedIs
<1>8. ASSUME NEW s \in Retained(gs) PROVE s \in Retained(fs) \ {fs[f][last]}
  <2>1. PICK g \in Files, i \in Nat : i \in DOMAIN gs[g] /\ s = gs[g][i]
    BY <1>1, <1>4, RetainedIs
  <2>2. PICK j \in DOMAIN fs[g] : s = fs[g][j] /\ (g = f => j # last)
    BY <1>3, <2>1
  <2>3. s \in Retained(fs)
    BY <2>2, RetainedIs
  <2>4. fs[g][j].edit = fs[f][last].edit => g = f /\ j = last
    BY <1>2, <2>2 DEF Apart
  <2> QED
    BY <2>2, <2>3, <2>4
<1>9. ASSUME NEW s \in Retained(fs) \ {fs[f][last]} PROVE s \in Retained(gs)
  <2>a. PICK g \in Files : \E j \in DOMAIN fs[g] : s = fs[g][j]
    BY RetainedIs
  <2>1. PICK j \in DOMAIN fs[g] : s = fs[g][j]
    BY <2>a
  <2>2. \E i \in DOMAIN gs[g] : s = gs[g][i]
    <3>1. CASE g = f
      <4>1. j # last
        BY <2>1, <3>1
      <4> QED
        <5>1. j - by \in DOMAIN t /\ (j - by) + by = j
          BY <1>2, <3>1, <4>1
        <5>2. t[j - by] = fs[f][j]
          BY <1>2, <5>1
        <5> QED
          BY <1>1, <2>1, <3>1, <5>1, <5>2
    <3>2. CASE g # f
      BY <1>1, <2>1, <3>2
    <3> QED
      BY <3>1, <3>2
  <2> QED
    BY <1>1, <2>2, RetainedIs
<1>10. Retained(gs) = Retained(fs) \ {fs[f][last]}
  BY <1>8, <1>9
<1> QED
  BY <1>1, <1>5, <1>6, <1>7, <1>10 DEF gs, last

Gains(fs, gs, s) == s \notin Retained(fs) /\ Retained(gs) = Retained(fs) \cup {s}

\* A snapshot of a new edit goes on a stack.
LEMMA Added ==
  ASSUME NEW fs \in Stacks, Apart(fs), NEW n \in Nat, Numbered(fs, n),
         NEW f \in Files, NEW s \in Undoable, s.edit = n + 1,
         NEW gs, gs = [fs EXCEPT ![f] = Append(fs[f], s)]
  PROVE  /\ gs \in Stacks /\ Apart(gs) /\ Numbered(gs, n + 1)
         /\ Gains(fs, gs, s)
<1> DEFINE new == Len(fs[f]) + 1
<1>1. /\ gs \in Stacks /\ gs[f] = Append(fs[f], s)
      /\ \A g \in Files \ {f} : gs[g] = fs[g]
      /\ \A g \in Files : fs[g] \in Seq(Undoable)
  BY DEF Stacks
<1>2. /\ new \in DOMAIN gs[f] /\ gs[f][new] = s
      /\ \A i \in DOMAIN gs[f] : i # new => i \in DOMAIN fs[f] /\ gs[f][i] = fs[f][i]
      /\ \A i \in DOMAIN fs[f] : i \in DOMAIN gs[f] /\ i # new /\ gs[f][i] = fs[f][i]
  BY <1>1
<1>3. \A g \in Files : \A i \in DOMAIN fs[g] : fs[g][i].edit \in Nat /\ fs[g][i].edit <= n
  <2> SUFFICES ASSUME NEW g \in Files, NEW i \in DOMAIN fs[g]
               PROVE  fs[g][i].edit \in Nat /\ fs[g][i].edit <= n
    OBVIOUS
  <2>1. fs[g][i] \in Undoable
    BY <1>1
  <2> QED
    BY <2>1 DEF Numbered, Undoable
<1> HIDE DEF new
<1>4. \A g \in Files : \A i \in DOMAIN gs[g] :
        \/ g = f /\ i = new /\ gs[g][i] = s
        \/ i \in DOMAIN fs[g] /\ gs[g][i] = fs[g][i]
  BY <1>1, <1>2
<1>5. Apart(gs)
  BY <1>3, <1>4 DEF Apart
<1>6. Numbered(gs, n + 1)
  BY <1>3, <1>4 DEF Numbered
<1>7. s \notin Retained(fs)
  BY <1>3, RetainedIs
<1>8. ASSUME NEW x \in Retained(gs) PROVE x \in Retained(fs) \cup {s}
  <2>a. PICK g \in Files : \E i \in DOMAIN gs[g] : x = gs[g][i]
    BY <1>1, RetainedIs
  <2>1. PICK i \in DOMAIN gs[g] : x = gs[g][i]
    BY <2>a
  <2> QED
    BY <1>4, <2>1, RetainedIs
<1>9. ASSUME NEW x \in Retained(fs) \cup {s} PROVE x \in Retained(gs)
  <2>1. CASE x = s
    <3>1. f \in Files /\ new \in DOMAIN gs[f] /\ gs[f][new] = x
      BY <1>2, <2>1
    <3> QED
      BY <1>1, <3>1, RetainedIs
  <2>2. CASE x \in Retained(fs)
    <3>a. PICK g \in Files : \E i \in DOMAIN fs[g] : x = fs[g][i]
      BY <2>2, RetainedIs
    <3>1. PICK i \in DOMAIN fs[g] : x = fs[g][i]
      BY <3>a
    <3>2. i \in DOMAIN gs[g] /\ x = gs[g][i]
      BY <1>1, <1>2, <3>1
    <3> QED
      BY <1>1, <3>2, RetainedIs
  <2> QED
    BY <2>1, <2>2
<1>10. Retained(gs) = Retained(fs) \cup {s}
  BY <1>8, <1>9
<1> QED
  BY <1>1, <1>5, <1>6, <1>7, <1>10 DEF Gains

-------------------------------------------------------------------------------
(* The store: what push keeps through all its turns.                       *)

Store == [files : Stacks, order : Seq(Files), total : Nat]

\* Each stack is the newest part of the edits nobody has undone.
Newest(fs, u) ==
  \A f \in Files :
    /\ Len(fs[f]) <= Len(u[f])
    /\ \A i \in DOMAIN fs[f] : fs[f][i].edit = u[f][Len(u[f]) - Len(fs[f]) + i]

Queued(fs, o) == \A f \in Files : Len(fs[f]) <= Cardinality(Queue(o, f))

Counted(fs, n) == IsFiniteSet(Retained(fs)) /\ n = Bytes(Retained(fs))

\* u: the edits not undone, by file; n: the number of the last edit.
Sound(st, u, n) ==
  /\ st \in Store
  /\ Counted(st.files, st.total)
  /\ Apart(st.files) /\ Numbered(st.files, n)
  /\ Newest(st.files, u)
  /\ Queued(st.files, st.order)

\* The total less a snapshot that goes is the total of those that stay.
LEMMA CountedWithout ==
  ASSUME NEW fs \in Stacks, NEW gs \in Stacks, NEW s \in Retained(fs), NEW n,
         Counted(fs, n), Retained(gs) = Retained(fs) \ {s}
  PROVE  n - s.bytes \in Nat /\ n \in Nat /\ s.bytes \in Nat /\ Counted(gs, n - s.bytes)
<1>1. /\ Retained(fs) \in SUBSET Undoable /\ IsFiniteSet(Retained(fs))
      /\ Retained(gs) \in SUBSET Undoable /\ IsFiniteSet(Retained(gs))
  BY RetainedIs, FS_RemoveElement DEF Counted
<1>2. Bytes(Retained(fs)) = s.bytes + Bytes(Retained(gs))
  BY <1>1, BytesRemove
<1>3. Bytes(Retained(fs)) \in Nat /\ Bytes(Retained(gs)) \in Nat /\ s.bytes \in Nat
  BY <1>1, BytesUnfold DEF Undoable
<1> QED
  BY <1>1, <1>2, <1>3 DEF Counted

\* The total with a snapshot that comes is the total of those kept then.
LEMMA CountedWith ==
  ASSUME NEW fs \in Stacks, NEW gs \in Stacks, NEW s \in Undoable, NEW n,
         Counted(fs, n), s \notin Retained(fs), Retained(gs) = Retained(fs) \cup {s}
  PROVE  n + s.bytes \in Nat /\ Counted(gs, n + s.bytes)
<1>1. /\ Retained(fs) \in SUBSET Undoable /\ IsFiniteSet(Retained(fs))
      /\ Retained(gs) \in SUBSET Undoable /\ IsFiniteSet(Retained(gs))
  BY RetainedIs, FS_AddElement DEF Counted
<1>2. Retained(gs) \ {s} = Retained(fs) /\ s \in Retained(gs)
  OBVIOUS
<1>3. Bytes(Retained(gs)) = s.bytes + Bytes(Retained(fs))
  BY <1>1, <1>2, BytesRemove
<1>4. Bytes(Retained(fs)) \in Nat /\ s.bytes \in Nat
  BY <1>1, BytesUnfold DEF Undoable
<1> QED
  BY <1>1, <1>3, <1>4 DEF Counted

\* The oldest snapshot of a file goes, as push and its loop take it.
LEMMA OldestDropped ==
  ASSUME NEW u \in [Files -> Seq(Nat)], NEW n \in Nat, NEW st, Sound(st, u, n),
         NEW f \in Files, st.files[f] # <<>>
  PROVE  LET s == Head(st.files[f])
         IN  /\ Sound([files |-> [st.files EXCEPT ![f] = Tail(st.files[f])],
                       order |-> st.order, total |-> st.total - s.bytes], u, n)
             /\ s.bytes \in Nat
<1> DEFINE fs == st.files
           o == st.order
           t == Tail(fs[f])
           gs == [fs EXCEPT ![f] = t]
           s == Head(fs[f])
<1>1. /\ fs \in Stacks /\ o \in Seq(Files) /\ st.total \in Nat
      /\ \A g \in Files : fs[g] \in Seq(Undoable) /\ u[g] \in Seq(Nat)
  BY DEF Sound, Store, Stacks
<1>2. /\ Counted(fs, st.total) /\ Apart(fs) /\ Numbered(fs, n)
      /\ Newest(fs, u) /\ Queued(fs, o)
  BY DEF Sound
<1>3. /\ t \in Seq(Undoable) /\ Len(t) = Len(fs[f]) - 1 /\ s = fs[f][1]
      /\ \A i \in 1..Len(t) : t[i] = fs[f][i + 1]
      /\ fs[f] # <<>>
  BY <1>1
<1> HIDE DEF fs, o, t, s
<1>4. /\ gs \in Stacks /\ Apart(gs) /\ Numbered(gs, n)
      /\ s \in Retained(fs) /\ Retained(gs) = Retained(fs) \ {s}
  BY <1>1, <1>2, <1>3, Dropped
<1>5. s.bytes \in Nat /\ st.total - s.bytes \in Nat /\ Counted(gs, st.total - s.bytes)
  BY <1>1, <1>2, <1>4, CountedWithout
<1>6. gs[f] = t /\ \A g \in Files \ {f} : gs[g] = fs[g]
  BY <1>1 DEF Stacks
<1> HIDE DEF gs
<1>7. Newest(gs, u)
  <2> SUFFICES ASSUME NEW g \in Files
               PROVE  /\ Len(gs[g]) <= Len(u[g])
                      /\ \A i \in DOMAIN gs[g] :
                           gs[g][i].edit = u[g][Len(u[g]) - Len(gs[g]) + i]
    BY DEF Newest
  <2>1. /\ Len(fs[g]) <= Len(u[g])
        /\ \A i \in DOMAIN fs[g] : fs[g][i].edit = u[g][Len(u[g]) - Len(fs[g]) + i]
    BY <1>2 DEF Newest
  <2>2. CASE g = f
    <3>1. Len(t) <= Len(u[g])
      BY <1>1, <1>3, <2>1, <2>2
    <3>2. ASSUME NEW i \in DOMAIN t PROVE t[i].edit = u[g][Len(u[g]) - Len(t) + i]
      <4>a. /\ Len(u[g]) \in Nat /\ Len(fs[f]) \in Nat /\ Len(t) \in Nat
            /\ DOMAIN t = 1..Len(t) /\ DOMAIN fs[f] = 1..Len(fs[f])
            /\ Len(t) = Len(fs[f]) - 1
        BY <1>1, <1>3
      <4>1. i \in 1..Len(t) /\ i + 1 \in DOMAIN fs[g]
        BY <2>2, <4>a
      <4>2. Len(u[g]) - Len(fs[g]) + (i + 1) = Len(u[g]) - Len(t) + i
        <5>1. Len(fs[g]) = Len(t) + 1 /\ i \in Nat
          BY <2>2, <4>a, <4>1
        <5>2. \A a, b, j \in Int : a - (b + 1) + (j + 1) = a - b + j
          OBVIOUS
        <5>3. Len(u[g]) \in Int /\ Len(t) \in Int /\ i \in Int
          BY <4>a, <5>1
        <5> QED
          BY <5>1, <5>2, <5>3
      <4> QED
        BY <1>3, <2>1, <2>2, <4>1, <4>2
    <3> QED
      BY <1>6, <2>2, <3>1, <3>2
  <2>3. CASE g # f
    BY <1>6, <2>1, <2>3
  <2> QED
    BY <2>2, <2>3
<1>8. Queued(gs, o)
  <2> SUFFICES ASSUME NEW g \in Files PROVE Len(gs[g]) <= Cardinality(Queue(o, g))
    BY DEF Queued
  <2>1. /\ Len(fs[g]) <= Cardinality(Queue(o, g)) /\ Len(fs[g]) \in Nat
        /\ Cardinality(Queue(o, g)) \in Nat
    BY <1>1, <1>2, QueueIsFinite DEF Queued
  <2>2. Len(gs[g]) <= Len(fs[g]) /\ Len(gs[g]) \in Nat
    <3>1. CASE g = f
      <4>1. Len(fs[f]) \in Nat /\ Len(t) \in Nat /\ Len(t) = Len(fs[f]) - 1
        BY <1>1, <1>3
      <4> QED
        BY <1>6, <3>1, <4>1
    <3>2. CASE g # f
      BY <1>6, <2>1, <3>2
    <3> QED
      BY <3>1, <3>2
  <2> QED
    BY <2>1, <2>2
<1>9. Sound([files |-> gs, order |-> o, total |-> st.total - s.bytes], u, n)
  BY <1>1, <1>4, <1>5, <1>7, <1>8 DEF Sound, Store
<1> QED
  BY <1>5, <1>9 DEF fs, o, t, gs, s

\* A turn of the loop keeps all of it and takes one entry off the queue.
LEMMA EvictOldestKeeps ==
  ASSUME NEW u \in [Files -> Seq(Nat)], NEW n \in Nat, NEW st, Sound(st, u, n),
         st.order # <<>>
  PROVE  Sound(EvictOldest(st), u, n) /\ Len(EvictOldest(st).order) = Len(st.order) - 1
<1> DEFINE fs == st.files
           o == st.order
           f == Head(o)
<1>1. /\ st = [files |-> fs, order |-> o, total |-> st.total]
      /\ fs \in Stacks /\ o \in Seq(Files) /\ st.total \in Nat
      /\ f \in Files /\ fs[f] \in Seq(Undoable) /\ Tail(o) \in Seq(Files)
      /\ \A g \in Files : fs[g] \in Seq(Undoable) /\ u[g] \in Seq(Nat)
      /\ Len(Tail(o)) = Len(o) - 1
  BY DEF Sound, Store, Stacks
<1>2. /\ Counted(fs, st.total) /\ Apart(fs) /\ Numbered(fs, n)
      /\ Newest(fs, u) /\ Queued(fs, o)
  BY DEF Sound
<1>3. /\ \A g \in Files : Cardinality(Queue(Tail(o), g)) =
                             Cardinality(Queue(o, g)) - (IF f = g THEN 1 ELSE 0)
      /\ \A g \in Files : Cardinality(Queue(o, g)) \in Nat
  BY <1>1, QueueTail, QueueIsFinite
<1>4. CASE fs[f] = <<>>
  <2>1. EvictOldest(st) = [files |-> fs, order |-> Tail(o), total |-> st.total]
    BY <1>1, <1>4 DEF EvictOldest
  <2>2. Queued(fs, Tail(o))
    <3> SUFFICES ASSUME NEW g \in Files PROVE Len(fs[g]) <= Cardinality(Queue(Tail(o), g))
      BY DEF Queued
    <3>1. Cardinality(Queue(Tail(o), g)) \in Nat
      BY <1>1, QueueIsFinite
    <3> HIDE DEF fs, o, f
    <3>2. Len(fs[g]) \in Nat /\ (f = g => Len(fs[g]) = 0)
      BY <1>1, <1>4
    <3>3. Len(fs[g]) <= Cardinality(Queue(o, g))
      BY <1>2 DEF Queued
    <3>4. /\ Cardinality(Queue(o, g)) \in Nat
          /\ f # g => Cardinality(Queue(Tail(o), g)) = Cardinality(Queue(o, g))
      BY <1>3
    <3> QED
      BY <3>1, <3>2, <3>3, <3>4
  <2> HIDE DEF fs, o, f
  <2> QED
    BY <1>1, <1>2, <2>1, <2>2 DEF Sound, Store
<1>5. CASE fs[f] # <<>>
  <2> DEFINE t == Tail(fs[f])
             gs == [fs EXCEPT ![f] = t]
             s == Head(fs[f])
  <2>1. EvictOldest(st) = [files |-> gs, order |-> Tail(o), total |-> st.total - s.bytes]
    BY <1>1, <1>5 DEF EvictOldest
  <2>2. Sound([files |-> gs, order |-> o, total |-> st.total - s.bytes], u, n)
    BY <1>1, <1>5, OldestDropped
  <2>3. /\ gs \in Stacks /\ st.total - s.bytes \in Nat
        /\ Counted(gs, st.total - s.bytes) /\ Apart(gs) /\ Numbered(gs, n) /\ Newest(gs, u)
    BY <2>2 DEF Sound, Store
  <2>4. Len(t) = Len(fs[f]) - 1
    BY <1>1, <1>5
  <2> HIDE DEF fs, o, f, t, s
  <2>5. gs[f] = t /\ \A g \in Files \ {f} : gs[g] = fs[g]
    BY <1>1 DEF Stacks
  <2> HIDE DEF gs
  <2>7. Queued(gs, Tail(o))
    <3> SUFFICES ASSUME NEW g \in Files PROVE Len(gs[g]) <= Cardinality(Queue(Tail(o), g))
      BY DEF Queued
    <3>1. Len(fs[g]) <= Cardinality(Queue(o, g)) /\ Len(fs[g]) \in Nat
      BY <1>1, <1>2 DEF Queued
    <3>2. /\ Cardinality(Queue(o, g)) \in Nat
          /\ Cardinality(Queue(Tail(o), g)) =
               Cardinality(Queue(o, g)) - (IF f = g THEN 1 ELSE 0)
      BY <1>3
    <3>3. CASE g = f
      <4>1. Len(gs[g]) = Len(fs[g]) - 1
        BY <2>4, <2>5, <3>3
      <4>2. Cardinality(Queue(Tail(o), g)) = Cardinality(Queue(o, g)) - 1
        BY <3>2, <3>3
      <4> QED
        BY <3>1, <3>2, <4>1, <4>2
    <3>4. CASE g # f
      <4>1. gs[g] = fs[g] /\ Cardinality(Queue(Tail(o), g)) = Cardinality(Queue(o, g))
        BY <2>5, <3>2, <3>4
      <4> QED
        BY <3>1, <4>1
    <3> QED
      BY <3>3, <3>4
  <2> QED
    BY <1>1, <2>1, <2>3, <2>7 DEF Sound, Store
<1> QED
  BY <1>4, <1>5

\* A file whose stack is not full takes the snapshot of a new edit.
LEMMA SnapshotAdded ==
  ASSUME NEW u \in [Files -> Seq(Nat)], NEW n \in Nat, NEW st, Sound(st, u, n),
         NEW f \in Files, NEW b \in Nat
  PROVE  LET s == [bytes |-> b, edit |-> n + 1]
         IN  Sound([files |-> [st.files EXCEPT ![f] = Append(st.files[f], s)],
                    order |-> Append(st.order, f), total |-> st.total + b],
                   [u EXCEPT ![f] = Append(u[f], n + 1)], n + 1)
<1> DEFINE fs == st.files
           o == st.order
           s == [bytes |-> b, edit |-> n + 1]
           gs == [fs EXCEPT ![f] = Append(fs[f], s)]
           v == [u EXCEPT ![f] = Append(u[f], n + 1)]
<1>1. /\ fs \in Stacks /\ o \in Seq(Files) /\ st.total \in Nat
      /\ \A g \in Files : fs[g] \in Seq(Undoable) /\ u[g] \in Seq(Nat)
  BY DEF Sound, Store, Stacks
<1>2. /\ Counted(fs, st.total) /\ Apart(fs) /\ Numbered(fs, n)
      /\ Newest(fs, u) /\ Queued(fs, o)
  BY DEF Sound
<1>3. s \in Undoable /\ s.edit = n + 1 /\ s.bytes = b
  BY DEF Undoable
<1> HIDE DEF fs, o, s
<1>4. /\ gs \in Stacks /\ Apart(gs) /\ Numbered(gs, n + 1)
      /\ s \notin Retained(fs) /\ Retained(gs) = Retained(fs) \cup {s}
  <2>1. fs \in Stacks /\ Apart(fs) /\ Numbered(fs, n) /\ s \in Undoable /\ s.edit = n + 1
    BY <1>1, <1>2, <1>3
  <2>2. gs = [fs EXCEPT ![f] = Append(fs[f], s)]
    OBVIOUS
  <2> HIDE DEF gs
  <2>3. gs \in Stacks /\ Apart(gs) /\ Numbered(gs, n + 1) /\ Gains(fs, gs, s)
    BY <2>1, <2>2, Added
  <2> QED
    BY <2>3 DEF Gains
<1>5. st.total + b \in Nat /\ Counted(gs, st.total + b)
  BY <1>1, <1>2, <1>3, <1>4, CountedWith
<1>6. /\ gs[f] = Append(fs[f], s) /\ \A g \in Files \ {f} : gs[g] = fs[g]
      /\ v[f] = Append(u[f], n + 1) /\ \A g \in Files \ {f} : v[g] = u[g]
  BY <1>1 DEF Stacks
<1> HIDE DEF gs, v
<1>7. Newest(gs, v)
  <2> SUFFICES ASSUME NEW g \in Files
               PROVE  /\ Len(gs[g]) <= Len(v[g])
                      /\ \A i \in DOMAIN gs[g] :
                           gs[g][i].edit = v[g][Len(v[g]) - Len(gs[g]) + i]
    BY DEF Newest
  <2>1. /\ Len(fs[g]) <= Len(u[g])
        /\ \A i \in DOMAIN fs[g] : fs[g][i].edit = u[g][Len(u[g]) - Len(fs[g]) + i]
    BY <1>2 DEF Newest
  <2>2. CASE g = f
    <3> DEFINE p == Len(fs[f])
               q == Len(u[f])
    <3>1. /\ p \in Nat /\ q \in Nat /\ p <= q
          /\ DOMAIN fs[f] = 1..p /\ DOMAIN u[f] = 1..q
          /\ fs[f] \in Seq(Undoable) /\ u[f] \in Seq(Nat)
      BY <1>1, <2>1, <2>2
    <3>2. /\ Len(Append(fs[f], s)) = p + 1 /\ DOMAIN Append(fs[f], s) = 1..(p + 1)
          /\ Append(fs[f], s)[p + 1] = s
          /\ \A i \in 1..p : Append(fs[f], s)[i] = fs[f][i]
      BY <1>3, <3>1
    <3>3. /\ Len(Append(u[f], n + 1)) = q + 1
          /\ Append(u[f], n + 1)[q + 1] = n + 1
          /\ \A i \in 1..q : Append(u[f], n + 1)[i] = u[f][i]
      BY <3>1
    <3>4. \A i \in 1..p : fs[f][i].edit = u[f][q - p + i]
      BY <2>1, <2>2, <3>1
    <3>5. gs[g] = Append(fs[f], s) /\ v[g] = Append(u[f], n + 1)
      BY <1>6, <2>2
    <3> HIDE DEF p, q
    <3>6. ASSUME NEW i \in 1..(p + 1)
          PROVE  gs[g][i].edit = v[g][(q + 1) - (p + 1) + i]
      <4>1. CASE i = p + 1
        <5>1. (q + 1) - (p + 1) + i = q + 1
          BY <3>1, <4>1
        <5> QED
          BY <1>3, <3>2, <3>3, <3>5, <4>1, <5>1
      <4>2. CASE i # p + 1
        <5>1. /\ i \in 1..p /\ (q + 1) - (p + 1) + i = q - p + i
              /\ q - p + i \in 1..q
          BY <3>1, <4>2
        <5> QED
          BY <3>2, <3>3, <3>4, <3>5, <5>1
      <4> QED
        BY <4>1, <4>2
    <3>7. p + 1 <= q + 1
      BY <3>1
    <3> QED
      BY <3>2, <3>3, <3>5, <3>6, <3>7
  <2>3. CASE g # f
    BY <1>6, <2>1, <2>3
  <2> QED
    BY <2>2, <2>3
<1>8. Queued(gs, Append(o, f))
  <2> SUFFICES ASSUME NEW g \in Files
               PROVE  Len(gs[g]) <= Cardinality(Queue(Append(o, f), g))
    BY DEF Queued
  <2>1. /\ Len(fs[g]) <= Cardinality(Queue(o, g)) /\ Len(fs[g]) \in Nat
        /\ Cardinality(Queue(o, g)) \in Nat
    BY <1>1, <1>2, QueueIsFinite DEF Queued
  <2>2. Cardinality(Queue(Append(o, f), g)) =
          Cardinality(Queue(o, g)) + (IF f = g THEN 1 ELSE 0)
    BY <1>1, QueueAppend
  <2>3. CASE g = f
    <3>1. Len(gs[g]) = Len(fs[g]) + 1
      BY <1>1, <1>3, <1>6, <2>3
    <3>2. Cardinality(Queue(Append(o, f), g)) = Cardinality(Queue(o, g)) + 1
      BY <2>2, <2>3
    <3> QED
      BY <2>1, <3>1, <3>2
  <2>4. CASE g # f
    <3>1. gs[g] = fs[g] /\ Cardinality(Queue(Append(o, f), g)) = Cardinality(Queue(o, g))
      BY <1>6, <2>1, <2>2, <2>4
    <3> QED
      BY <2>1, <3>1
  <2> QED
    BY <2>3, <2>4
<1>9. Append(o, f) \in Seq(Files)
  BY <1>1
<1>10. Sound([files |-> gs, order |-> Append(o, f), total |-> st.total + b], v, n + 1)
  BY <1>1, <1>4, <1>5, <1>7, <1>8, <1>9 DEF Sound, Store
<1> QED
  BY <1>10 DEF fs, o, s, gs, v

\* The first half of push, per-file cap included.
LEMMA AddKeeps ==
  ASSUME NEW u \in [Files -> Seq(Nat)], NEW n \in Nat, NEW st, Sound(st, u, n),
         NEW f \in Files, NEW b \in Nat
  PROVE  Sound(Add(st, f, [bytes |-> b, edit |-> n + 1]),
               [u EXCEPT ![f] = Append(u[f], n + 1)], n + 1)
<1> DEFINE s == [bytes |-> b, edit |-> n + 1]
<1>1. /\ st.files \in Stacks /\ st.order \in Seq(Files) /\ st.total \in Nat
      /\ st.files[f] \in Seq(Undoable) /\ DOMAIN st.files = Files
  BY DEF Sound, Store, Stacks
<1>2. CASE Len(st.files[f]) >= PerFile
  <2> DEFINE head == Head(st.files[f])
             fs == [st.files EXCEPT ![f] = Tail(st.files[f])]
             lo == [files |-> fs, order |-> st.order, total |-> st.total - head.bytes]
  <2>1. st.files[f] # <<>>
    BY <1>1, <1>2, UndoHistoryAssumption DEF UndoHistoryAssumption
  <2>2. Sound(lo, u, n) /\ head.bytes \in Nat
    BY <2>1, OldestDropped
  <2>3. Sound([files |-> [lo.files EXCEPT ![f] = Append(lo.files[f], s)],
               order |-> Append(lo.order, f), total |-> lo.total + b],
              [u EXCEPT ![f] = Append(u[f], n + 1)], n + 1)
    <3> HIDE DEF lo
    <3> QED
      BY <2>2, SnapshotAdded
  <2>4. Add(st, f, s) = [files |-> [st.files EXCEPT ![f] = Append(Tail(st.files[f]), s)],
                         order |-> Append(st.order, f),
                         total |-> st.total + b - head.bytes]
    BY <1>2 DEF Add
  <2>5. /\ [lo.files EXCEPT ![f] = Append(lo.files[f], s)] =
             [st.files EXCEPT ![f] = Append(Tail(st.files[f]), s)]
        /\ lo.order = st.order
    BY <1>1
  <2>6. lo.total + b = st.total + b - head.bytes
    <3> HIDE DEF head
    <3> QED
      BY <1>1, <2>2
  <2> HIDE DEF lo, head, s
  <2> QED
    BY <2>3, <2>4, <2>5, <2>6 DEF s
<1>3. CASE ~(Len(st.files[f]) >= PerFile)
  <2>1. Add(st, f, s) = [files |-> [st.files EXCEPT ![f] = Append(st.files[f], s)],
                         order |-> Append(st.order, f), total |-> st.total + b - 0]
    BY <1>3 DEF Add
  <2>2. st.total + b - 0 = st.total + b
    BY <1>1
  <2> QED
    BY <2>1, <2>2, SnapshotAdded
<1> QED
  BY <1>2, <1>3

\* The loop as a function of the turns made so far.
Turn(st) == IF WithinCap(st) THEN st ELSE EvictOldest(st)

IsRun(g, st) ==
  g = [k \in 0..Len(st.order) |-> IF k = 0 THEN st ELSE Turn(g[k - 1])]

\* Evict is the last value of that function.
LEMMA EvictIsRun ==
  \A st : Evict(st) = (CHOOSE g : IsRun(g, st))[Len(st.order)]
  BY DEF Evict, IsRun, Turn

\* There is such a function: one for the first k turns, whatever k.
LEMMA RunExists ==
  ASSUME NEW st, Len(st.order) \in Nat
  PROVE  \E g : IsRun(g, st)
<1> DEFINE Moves(g, k) == g = [j \in 0..k |-> IF j = 0 THEN st ELSE Turn(g[j - 1])]
           Bad == {k \in Nat : \A g : ~Moves(g, k)}
<1>1. Bad = {}
  <2> SUFFICES ASSUME Bad # {} PROVE FALSE
    OBVIOUS
  <2>1. PICK k \in Bad : \A j \in Bad : k <= j
    <3> HIDE DEF Bad
    <3>1. Bad \in SUBSET Nat
      BY DEF Bad
    <3> QED
      BY <3>1, LeastNumber
  <2>2. k \in Nat /\ \A g : ~Moves(g, k)
    OBVIOUS
  <2>3. CASE k = 0
    <3> DEFINE g == [j \in 0..0 |-> st]
    <3>1. Moves(g, 0)
      OBVIOUS
    <3> QED
      BY <2>2, <2>3, <3>1
  <2>4. CASE k # 0
    <3>1. k - 1 \in Nat /\ k - 1 \notin Bad
      <4>1. k - 1 \in Nat /\ ~(k <= k - 1)
        BY <2>2, <2>4
      <4> HIDE DEF Bad
      <4> QED
        BY <2>1, <4>1
    <3>2. PICK g : Moves(g, k - 1)
      BY <3>1
    <3> DEFINE h == [j \in 0..k |-> IF j = k THEN Turn(g[k - 1]) ELSE g[j]]
    <3>3. Moves(h, k)
      <4>1. \A j \in 0..(k - 1) : g[j] = IF j = 0 THEN st ELSE Turn(g[j - 1])
        BY <3>2
      <4>2. \A j \in 0..k : j # k => j \in 0..(k - 1)
        BY <2>2
      <4>3. \A j \in 1..k : j - 1 \in 0..(k - 1) /\ j - 1 \in 0..k /\ j - 1 # k
        BY <2>2
      <4>4. ASSUME NEW j \in 0..k
            PROVE  h[j] = IF j = 0 THEN st ELSE Turn(h[j - 1])
        <5>1. CASE j = k
          <6>1. j \in 1..k /\ j # 0
            BY <2>2, <2>4, <5>1
          <6>2. h[j - 1] = g[j - 1] /\ h[j] = Turn(g[k - 1])
            BY <4>3, <5>1, <6>1
          <6> QED
            BY <5>1, <6>1, <6>2
        <5>2. CASE j # k
          <6>1. h[j] = g[j] /\ g[j] = IF j = 0 THEN st ELSE Turn(g[j - 1])
            BY <4>1, <4>2, <5>2
          <6>2. j # 0 => h[j - 1] = g[j - 1]
            <7>1. j # 0 => j \in 1..k
              BY <2>2
            <7> QED
              BY <4>3, <7>1
          <6> QED
            BY <6>1, <6>2
        <5> QED
          BY <5>1, <5>2
      <4>5. h = [j \in 0..k |-> h[j]]
        OBVIOUS
      <4> HIDE DEF h
      <4> QED
        BY <4>4, <4>5
    <3> HIDE DEF h, Moves
    <3> QED
      BY <2>2, <3>3
  <2> QED
    BY <2>3, <2>4
<1>2. PICK g : Moves(g, Len(st.order))
  BY <1>1
<1> QED
  BY <1>2 DEF IsRun

\* A turn keeps the store sound; short of the cap it takes an entry.
LEMMA TurnKeeps ==
  ASSUME NEW u \in [Files -> Seq(Nat)], NEW n \in Nat, NEW st, Sound(st, u, n)
  PROVE  /\ Sound(Turn(st), u, n)
         /\ WithinCap(st) => Turn(st) = st
         /\ ~WithinCap(st) => Len(Turn(st).order) = Len(st.order) - 1
<1>1. st.order \in Seq(Files)
  BY DEF Sound, Store
<1>2. CASE WithinCap(st)
  BY <1>2 DEF Turn
<1>3. CASE ~WithinCap(st)
  <2>1. st.order # <<>>
    BY <1>1, <1>3 DEF WithinCap
  <2>2. Sound(EvictOldest(st), u, n) /\ Len(EvictOldest(st).order) = Len(st.order) - 1
    BY <2>1, EvictOldestKeeps
  <2> QED
    BY <1>3, <2>2 DEF Turn
<1> QED
  BY <1>2, <1>3

\* The loop keeps all of it and ends within the cap: each turn short of the
\* cap takes an entry off the queue, so the turns do not run out before that.
LEMMA EvictKeeps ==
  ASSUME NEW u \in [Files -> Seq(Nat)], NEW n \in Nat, NEW st, Sound(st, u, n)
  PROVE  Sound(Evict(st), u, n) /\ WithinCap(Evict(st))
<1> DEFINE L == Len(st.order)
           g == CHOOSE r : IsRun(r, st)
           Good(k) == /\ Sound(g[k], u, n)
                      /\ WithinCap(g[k]) \/ Len(g[k].order) = L - k
           Bad == {k \in Nat : k <= L /\ ~Good(k)}
<1>1. st.order \in Seq(Files) /\ L \in Nat
  BY DEF Sound, Store
<1>2. IsRun(g, st)
  BY <1>1, RunExists
<1>3. Evict(st) = g[L]
  BY EvictIsRun
<1> HIDE DEF g, L
<1>4. g[0] = st /\ \A k \in Nat : k <= L /\ k # 0 => g[k] = Turn(g[k - 1])
  <2>1. g = [k \in 0..L |-> IF k = 0 THEN st ELSE Turn(g[k - 1])]
    BY <1>2 DEF IsRun, L
  <2>2. \A k \in 0..L : g[k] = IF k = 0 THEN st ELSE Turn(g[k - 1])
    BY <2>1
  <2>3. 0 \in 0..L /\ \A k \in Nat : k <= L => k \in 0..L
    BY <1>1
  <2> QED
    BY <2>2, <2>3
<1>5. Bad = {}
  <2> SUFFICES ASSUME Bad # {} PROVE FALSE
    OBVIOUS
  <2>1. PICK k \in Bad : \A j \in Bad : k <= j
    <3> HIDE DEF Bad
    <3>1. Bad \in SUBSET Nat
      BY DEF Bad
    <3> QED
      BY <3>1, LeastNumber
  <2>2. k \in Nat /\ k <= L /\ ~Good(k)
    OBVIOUS
  <2>3. CASE k = 0
    <3>1. Len(g[0].order) = L - 0
      BY <1>1, <1>4 DEF L
    <3> QED
      BY <1>4, <2>2, <2>3, <3>1
  <2>4. CASE k # 0
    <3>1. k - 1 \in Nat /\ k - 1 <= L /\ k - 1 \notin Bad
      <4>1. k - 1 \in Nat /\ k - 1 <= L /\ ~(k <= k - 1)
        BY <1>1, <2>2, <2>4
      <4> HIDE DEF Bad
      <4> QED
        BY <2>1, <4>1
    <3>2. Sound(g[k - 1], u, n) /\ (WithinCap(g[k - 1]) \/ Len(g[k - 1].order) = L - (k - 1))
      BY <3>1
    <3>3. g[k] = Turn(g[k - 1])
      BY <1>4, <2>2, <2>4
    <3>4. /\ Sound(g[k], u, n)
          /\ WithinCap(g[k - 1]) => g[k] = g[k - 1]
          /\ ~WithinCap(g[k - 1]) => Len(g[k].order) = Len(g[k - 1].order) - 1
      BY <3>2, <3>3, TurnKeeps
    <3>5. CASE WithinCap(g[k - 1])
      BY <2>2, <3>4, <3>5
    <3>6. CASE ~WithinCap(g[k - 1])
      <4>1. Len(g[k].order) = L - k
        <5>1. Len(g[k].order) = (L - (k - 1)) - 1
          BY <3>2, <3>4, <3>6
        <5> QED
          BY <1>1, <2>2, <5>1
      <4> QED
        BY <2>2, <3>4, <4>1
    <3> QED
      BY <3>5, <3>6
  <2> QED
    BY <2>3, <2>4
<1>6. Sound(g[L], u, n) /\ (WithinCap(g[L]) \/ Len(g[L].order) = L - L)
  <2>1. \A k \in Nat : k <= L => Good(k)
    BY <1>5
  <2>2. L <= L
    BY <1>1
  <2> HIDE DEF Good
  <2>3. Good(L)
    BY <1>1, <2>1, <2>2
  <2> QED
    BY <2>3 DEF Good
<1>7. WithinCap(g[L])
  BY <1>1, <1>6 DEF WithinCap
<1> QED
  BY <1>3, <1>6, <1>7

\* What Front leaves of a sequence.
LEMMA FrontIs ==
  ASSUME NEW S, NEW q \in Seq(S), Len(q) # 0
  PROVE  /\ Front(q) \in Seq(S) /\ Len(Front(q)) = Len(q) - 1
         /\ \A i \in 1..Len(Front(q)) : Front(q)[i] = q[i]
<1>1. Len(q) \in Nat /\ Len(q) - 1 \in Nat /\ \A i \in 1..Len(q) : q[i] \in S
  OBVIOUS
<1>2. Front(q) = [i \in 1..(Len(q) - 1) |-> q[i]]
  BY <1>1 DEF Front
<1>3. \A i \in 1..(Len(q) - 1) : q[i] \in S
  BY <1>1
<1> QED
  BY <1>1, <1>2, <1>3

\* The newest snapshot of a file goes, as undo_edit takes it.
LEMMA NewestDropped ==
  ASSUME NEW u \in [Files -> Seq(Nat)], NEW n \in Nat, NEW st, Sound(st, u, n),
         NEW f \in Files, st.files[f] # <<>>
  PROVE  LET s == Last(st.files[f])
             gs == [st.files EXCEPT ![f] = Front(st.files[f])]
             v == [u EXCEPT ![f] = Front(u[f])]
         IN  /\ Sound([files |-> gs, order |-> st.order, total |-> st.total - s.bytes], v, n)
             /\ v \in [Files -> Seq(Nat)]
             /\ s.bytes \in Nat
             /\ Retained(gs) \in SUBSET Retained(st.files)
<1> DEFINE fs == st.files
           o == st.order
           t == Front(fs[f])
           gs == [fs EXCEPT ![f] = t]
           s == Last(fs[f])
           v == [u EXCEPT ![f] = Front(u[f])]
<1>1. /\ fs \in Stacks /\ o \in Seq(Files) /\ st.total \in Nat
      /\ \A g \in Files : fs[g] \in Seq(Undoable) /\ u[g] \in Seq(Nat)
  BY DEF Sound, Store, Stacks
<1>2. /\ Counted(fs, st.total) /\ Apart(fs) /\ Numbered(fs, n)
      /\ Newest(fs, u) /\ Queued(fs, o)
  BY DEF Sound
<1>3. /\ t \in Seq(Undoable) /\ Len(t) = Len(fs[f]) - 1 /\ s = fs[f][Len(fs[f])]
      /\ \A i \in 1..Len(t) : t[i] = fs[f][i]
      /\ fs[f] # <<>> /\ Len(fs[f]) \in Nat /\ Len(fs[f]) # 0
  BY <1>1 DEF Front, Last
<1>4. /\ Len(fs[f]) <= Len(u[f])
      /\ \A i \in DOMAIN fs[f] : fs[f][i].edit = u[f][Len(u[f]) - Len(fs[f]) + i]
  BY <1>2 DEF Newest
<1>5. /\ Front(u[f]) \in Seq(Nat) /\ Len(Front(u[f])) = Len(u[f]) - 1
      /\ \A i \in 1..Len(Front(u[f])) : Front(u[f])[i] = u[f][i]
      /\ Len(u[f]) \in Nat
  <2>1. u[f] \in Seq(Nat) /\ Len(u[f]) \in Nat /\ Len(u[f]) # 0
    <3>1. u[f] \in Seq(Nat) /\ Len(u[f]) \in Nat
      BY <1>1
    <3> HIDE DEF fs
    <3> QED
      BY <1>3, <1>4, <3>1
  <2> QED
    BY <2>1, FrontIs
<1> HIDE DEF fs, o, t, s
<1>6. /\ gs \in Stacks /\ Apart(gs) /\ Numbered(gs, n)
      /\ s \in Retained(fs) /\ Retained(gs) = Retained(fs) \ {s}
  <2>1. 0 \in {0, 1} /\ \A i \in 1..Len(t) : t[i] = fs[f][i + 0]
    BY <1>3
  <2>2. s = fs[f][IF 0 = 1 THEN 1 ELSE Len(fs[f])]
    BY <1>3
  <2>3. /\ fs \in Stacks /\ Apart(fs) /\ Numbered(fs, n) /\ fs[f] # <<>>
        /\ t \in Seq(Undoable) /\ Len(t) = Len(fs[f]) - 1
    BY <1>1, <1>2, <1>3
  <2>4. /\ gs \in Stacks /\ Apart(gs)
        /\ \A m \in Nat : Numbered(fs, m) => Numbered(gs, m)
        /\ fs[f][IF 0 = 1 THEN 1 ELSE Len(fs[f])] \in Retained(fs)
        /\ Retained(gs) = Retained(fs) \ {fs[f][IF 0 = 1 THEN 1 ELSE Len(fs[f])]}
    BY <2>1, <2>3, Dropped
  <2> HIDE DEF gs
  <2> QED
    BY <2>2, <2>3, <2>4
<1>7. s.bytes \in Nat /\ st.total - s.bytes \in Nat /\ Counted(gs, st.total - s.bytes)
  BY <1>1, <1>2, <1>6, CountedWithout
<1>8. /\ gs[f] = t /\ \A g \in Files \ {f} : gs[g] = fs[g]
      /\ v[f] = Front(u[f]) /\ \A g \in Files \ {f} : v[g] = u[g]
      /\ v \in [Files -> Seq(Nat)]
  BY <1>1, <1>5 DEF Stacks
<1> HIDE DEF gs, v
<1>9. Newest(gs, v)
  <2> SUFFICES ASSUME NEW g \in Files
               PROVE  /\ Len(gs[g]) <= Len(v[g])
                      /\ \A i \in DOMAIN gs[g] :
                           gs[g][i].edit = v[g][Len(v[g]) - Len(gs[g]) + i]
    BY DEF Newest
  <2>1. CASE g = f
    <3> DEFINE p == Len(fs[f])
               q == Len(u[f])
    <3>1. /\ p \in Nat \ {0} /\ q \in Nat /\ p <= q
          /\ Len(gs[g]) = p - 1 /\ DOMAIN gs[g] = 1..(p - 1)
          /\ Len(v[g]) = q - 1
      BY <1>1, <1>3, <1>4, <1>5, <1>8, <2>1
    <3>2. /\ \A i \in 1..p : fs[f][i].edit = u[f][q - p + i]
          /\ \A i \in 1..(p - 1) : gs[g][i] = fs[f][i]
          /\ \A i \in 1..(q - 1) : v[g][i] = u[f][i]
      <4>1. DOMAIN fs[f] = 1..p /\ Len(t) = p - 1 /\ Len(Front(u[f])) = q - 1
        BY <1>1, <1>3, <1>5
      <4>2. gs[g] = t /\ v[g] = Front(u[f])
        BY <1>8, <2>1
      <4> HIDE DEF p, q
      <4>3. \A i \in 1..p : fs[f][i].edit = u[f][Len(u[f]) - Len(fs[f]) + i]
        BY <1>4, <4>1
      <4>4. \A i \in 1..p : fs[f][i].edit = u[f][q - p + i]
        BY <4>3 DEF p, q
      <4> QED
        BY <1>3, <1>5, <4>1, <4>2, <4>4
    <3> HIDE DEF p, q
    <3>3. ASSUME NEW i \in 1..(p - 1)
          PROVE  gs[g][i].edit = v[g][(q - 1) - (p - 1) + i]
      <4>1. /\ i \in 1..p /\ (q - 1) - (p - 1) + i = q - p + i
            /\ q - p + i \in 1..(q - 1)
        BY <3>1
      <4> QED
        BY <3>2, <4>1
    <3>4. p - 1 <= q - 1
      BY <3>1
    <3> QED
      BY <3>1, <3>3, <3>4
  <2>2. CASE g # f
    BY <1>2, <1>8, <2>2 DEF Newest
  <2> QED
    BY <2>1, <2>2
<1>10. Queued(gs, o)
  <2> SUFFICES ASSUME NEW g \in Files PROVE Len(gs[g]) <= Cardinality(Queue(o, g))
    BY DEF Queued
  <2>1. /\ Len(fs[g]) <= Cardinality(Queue(o, g)) /\ Len(fs[g]) \in Nat
        /\ Cardinality(Queue(o, g)) \in Nat
    BY <1>1, <1>2, QueueIsFinite DEF Queued
  <2>2. CASE g = f
    <3>1. Len(gs[g]) = Len(fs[g]) - 1
      BY <1>3, <1>8, <2>2
    <3> QED
      BY <2>1, <3>1
  <2>3. CASE g # f
    BY <1>8, <2>1, <2>3
  <2> QED
    BY <2>2, <2>3
<1>11. Sound([files |-> gs, order |-> o, total |-> st.total - s.bytes], v, n)
  BY <1>1, <1>6, <1>7, <1>9, <1>10 DEF Sound, Store
<1>12. Retained(gs) \in SUBSET Retained(fs)
  BY <1>6
<1> QED
  BY <1>7, <1>8, <1>11, <1>12 DEF fs, o, t, gs, s, v

\* One entry in the queue leaves room for one snapshot.
LEMMA FewQueued ==
  ASSUME NEW u, NEW n, NEW st, Sound(st, u, n), Len(st.order) <= 1
  PROVE  Cardinality(Retained(st.files)) <= 1
<1> DEFINE fs == st.files
           o == st.order
<1>1. /\ fs \in Stacks /\ o \in Seq(Files) /\ Len(o) \in Nat
      /\ \A g \in Files : fs[g] \in Seq(Undoable) /\ Len(fs[g]) \in Nat
      /\ \A g \in Files : Len(fs[g]) <= Cardinality(Queue(o, g))
  BY DEF Sound, Store, Stacks, Queued
<1>2. \A g \in Files : /\ Cardinality(Queue(o, g)) <= 1
                       /\ Cardinality(Queue(o, g)) # 0 => o[1] = g
  <2> SUFFICES ASSUME NEW g \in Files
               PROVE  /\ Cardinality(Queue(o, g)) <= 1
                      /\ Cardinality(Queue(o, g)) # 0 => o[1] = g
    OBVIOUS
  <2>1. DOMAIN o \in SUBSET {1}
    BY <1>1
  <2>2. CASE Queue(o, g) = {}
    BY <2>2, FS_EmptySet
  <2>3. CASE Queue(o, g) # {}
    <3>1. Queue(o, g) = {1} /\ o[1] = g
      BY <2>1, <2>3 DEF Queue
    <3>2. Cardinality({1}) = 1
      BY FS_Singleton
    <3> QED
      BY <3>1, <3>2
  <2> QED
    BY <2>2, <2>3
<1>3. \A g \in Files : \A i \in DOMAIN fs[g] : i = 1 /\ g = o[1]
  <2> SUFFICES ASSUME NEW g \in Files, NEW i \in DOMAIN fs[g] PROVE i = 1 /\ g = o[1]
    OBVIOUS
  <2>1. i \in 1..Len(fs[g]) /\ Len(fs[g]) \in Nat /\ Len(fs[g]) <= Cardinality(Queue(o, g))
    BY <1>1
  <2>2. Cardinality(Queue(o, g)) \in Nat
    BY <1>1, QueueIsFinite
  <2>3. i = 1 /\ Cardinality(Queue(o, g)) # 0
    BY <1>2, <2>1, <2>2
  <2> QED
    BY <1>2, <2>3
<1> HIDE DEF fs, o
<1>4. \A x, y \in Retained(fs) : x = y
  <2> SUFFICES ASSUME NEW x \in Retained(fs), NEW y \in Retained(fs) PROVE x = y
    OBVIOUS
  <2>1. x = fs[o[1]][1] /\ y = fs[o[1]][1]
    BY <1>1, <1>3, RetainedIs
  <2> QED
    BY <2>1
<1>5. CASE Retained(fs) = {}
  BY <1>5, FS_EmptySet DEF fs
<1>6. CASE Retained(fs) # {}
  <2>1. PICK x \in Retained(fs) : Retained(fs) = {x}
    BY <1>4, <1>6
  <2>2. Cardinality({x}) = 1
    BY FS_Singleton
  <2> QED
    BY <2>1, <2>2 DEF fs
<1> QED
  BY <1>5, <1>6

-------------------------------------------------------------------------------
(* The specification.                                                      *)

Kept == [files |-> files, order |-> order, total |-> total]

HistoryInv ==
  /\ edits \in Nat
  /\ undoable \in [Files -> Seq(Nat)]
  /\ Sound(Kept, undoable, edits)
  /\ WithinBudget

\* The store starts empty.
LEMMA InitIsSound == HistoryInit => HistoryInv
<1> SUFFICES ASSUME HistoryInit PROVE HistoryInv
  OBVIOUS
<1>1. /\ files = [f \in Files |-> <<>>] /\ order = <<>> /\ total = 0 /\ edits = 0
      /\ undoable = [f \in Files |-> <<>>]
  BY DEF HistoryInit
<1>2. /\ files \in Stacks /\ \A f \in Files : files[f] = <<>> /\ Len(files[f]) = 0
      /\ undoable \in [Files -> Seq(Nat)] /\ \A f \in Files : Len(undoable[f]) = 0
      /\ order \in Seq(Files)
  BY <1>1 DEF Stacks
<1>3. Retained(files) = {}
  BY <1>2, RetainedIs
<1>4. Counted(files, 0)
  <2>1. {} \in SUBSET Undoable /\ IsFiniteSet({})
    BY FS_EmptySet
  <2>2. Bytes({}) = 0
    BY <2>1, BytesUnfold
  <2> QED
    BY <1>3, <2>1, <2>2 DEF Counted
<1>5. Apart(files) /\ Numbered(files, 0) /\ Newest(files, undoable)
  BY <1>2 DEF Apart, Numbered, Newest
<1>6. Queued(files, order)
  <2> SUFFICES ASSUME NEW f \in Files PROVE Len(files[f]) <= Cardinality(Queue(order, f))
    BY DEF Queued
  <2>1. Cardinality(Queue(order, f)) \in Nat
    BY <1>2, QueueIsFinite
  <2> QED
    BY <1>2, <2>1
<1>7. Sound(Kept, undoable, edits)
  BY <1>1, <1>2, <1>4, <1>5, <1>6 DEF Sound, Store, Kept
<1>8. WithinBudget
  BY <1>1, UndoHistoryAssumption DEF WithinBudget, UndoHistoryAssumption
<1> QED
  BY <1>1, <1>2, <1>7, <1>8 DEF HistoryInv

\* push leaves the store sound and within the budget.
LEMMA PushKeepsInv ==
  ASSUME HistoryInv, NEW f \in Files, NEW bytes \in Sizes, Push(f, bytes)
  PROVE  HistoryInv'
<1> DEFINE snap == [bytes |-> bytes, edit |-> edits + 1]
           more == Add(Kept, f, snap)
           st == Evict(more)
           v == [undoable EXCEPT ![f] = Append(undoable[f], edits + 1)]
<1>1. /\ edits \in Nat /\ undoable \in [Files -> Seq(Nat)] /\ Sound(Kept, undoable, edits)
      /\ bytes \in Nat
  BY UndoHistoryAssumption DEF HistoryInv, UndoHistoryAssumption
<1>2. /\ files' = st.files /\ order' = st.order /\ total' = st.total
      /\ edits' = edits + 1 /\ undoable' = v
  BY DEF Push, Kept
<1>3. Sound(more, v, edits + 1)
  BY <1>1, AddKeeps
<1>4. v \in [Files -> Seq(Nat)] /\ edits + 1 \in Nat
  BY <1>1
<1> HIDE DEF more, v
<1>5. Sound(st, v, edits + 1) /\ WithinCap(st)
  BY <1>3, <1>4, EvictKeeps
<1>6. Cardinality(Retained(st.files)) <= 1 \/ st.total <= ByteCap
  BY <1>5, FewQueued DEF WithinCap
<1> HIDE DEF st
<1>7. Kept' = st
  <2>1. st = [files |-> st.files, order |-> st.order, total |-> st.total]
    BY <1>5 DEF Sound, Store
  <2> QED
    BY <1>2, <2>1 DEF Kept
<1>8. WithinBudget'
  BY <1>2, <1>6 DEF WithinBudget, Snapshots, Retained
<1> QED
  BY <1>2, <1>4, <1>5, <1>7, <1>8 DEF HistoryInv

\* pop does so too: the byte count follows what it removes.
LEMMA PopKeepsInv ==
  ASSUME HistoryInv, NEW f \in Files, Pop(f)
  PROVE  HistoryInv'
<1> DEFINE s == Last(files[f])
           gs == [files EXCEPT ![f] = Front(files[f])]
           v == [undoable EXCEPT ![f] = Front(undoable[f])]
<1>1. /\ edits \in Nat /\ undoable \in [Files -> Seq(Nat)] /\ Sound(Kept, undoable, edits)
      /\ WithinBudget
  BY DEF HistoryInv
<1>2. /\ files[f] # <<>> /\ files' = gs /\ order' = order /\ total' = total - s.bytes
      /\ edits' = edits /\ undoable' = v
  BY DEF Pop
<1>3. Kept.files = files /\ Kept.order = order /\ Kept.total = total
  BY DEF Kept
<1>4. /\ Sound([files |-> gs, order |-> order, total |-> total - s.bytes], v, edits)
      /\ v \in [Files -> Seq(Nat)] /\ s.bytes \in Nat
      /\ Retained(gs) \in SUBSET Retained(files)
  BY <1>1, <1>2, <1>3, NewestDropped
<1> HIDE DEF gs, v, s
<1>5. Sound(Kept, undoable, edits)'
  BY <1>2, <1>4 DEF Kept
<1>6. WithinBudget'
  <2>1. IsFiniteSet(Retained(files)) /\ total \in Nat
    BY <1>1, <1>3 DEF Sound, Store, Counted
  <2>2. /\ Cardinality(Retained(gs)) <= Cardinality(Retained(files))
        /\ Cardinality(Retained(gs)) \in Nat /\ Cardinality(Retained(files)) \in Nat
    BY <1>4, <2>1, FS_Subset, FS_CardinalityType
  <2>3. total <= ByteCap \/ Cardinality(Retained(files)) <= 1
    BY <1>1 DEF WithinBudget, Snapshots, Retained
  <2>4. ByteCap \in Nat
    BY UndoHistoryAssumption DEF UndoHistoryAssumption
  <2>5. total - s.bytes <= ByteCap \/ Cardinality(Retained(gs)) <= 1
    BY <1>4, <2>1, <2>2, <2>3, <2>4
  <2> QED
    BY <1>2, <2>5 DEF WithinBudget, Snapshots, Retained
<1> QED
  BY <1>1, <1>2, <1>4, <1>5, <1>6 DEF HistoryInv

\* HistoryInv is inductive: it relates what is kept, the queue, the byte count
\* and the edits nobody has undone.
THEOREM HistoryInvCorrect == HistorySpec => []HistoryInv
<1>1. HistoryInit => HistoryInv
  BY InitIsSound
<1>2. HistoryInv /\ [HistoryNext]_historyVars => HistoryInv'
  <2> SUFFICES ASSUME HistoryInv, [HistoryNext]_historyVars PROVE HistoryInv'
    OBVIOUS
  <2>1. CASE HistoryNext
    BY <2>1, PushKeepsInv, PopKeepsInv DEF HistoryNext
  <2>2. CASE UNCHANGED historyVars
    BY <2>2 DEF historyVars, HistoryInv, Kept, WithinBudget, Snapshots
  <2> QED
    BY <2>1, <2>2
<1> QED
  BY <1>1, <1>2, PTL DEF HistorySpec

\* The global byte budget of HistoryStore: whatever is pushed and popped on
\* any number of files, total_bytes is what the snapshots take, more than one
\* snapshot is kept only within the cap, and every snapshot can be evicted.
THEOREM BudgetIsKeptCorrect == HistorySpec => []BudgetIsKept
<1>1. HistoryInv => BudgetIsKept
  <2> SUFFICES ASSUME HistoryInv PROVE BudgetIsKept
    OBVIOUS
  <2>1. Counted(files, total) /\ Queued(files, order)
    BY DEF HistoryInv, Sound, Kept
  <2>2. TotalIsExact
    BY <2>1 DEF Counted, TotalIsExact, Snapshots, Retained
  <2>3. EverySnapshotIsQueued
    BY <2>1 DEF Queued, Queue, EverySnapshotIsQueued
  <2> QED
    BY <2>2, <2>3 DEF HistoryInv, BudgetIsKept
<1> QED
  BY <1>1, HistoryInvCorrect, PTL

\* A suffix is a sequence whose elements are the last ones of the other.
LEMMA SuffixByIndex ==
  ASSUME NEW s \in Seq(Nat), NEW t \in Seq(Nat), Len(s) <= Len(t),
         \A i \in 1..Len(s) : s[i] = t[Len(t) - Len(s) + i]
  PROVE  IsSuffix(s, t)
<1> DEFINE p == Len(s)
           q == Len(t)
           a == Reverse(s)
           b == Reverse(t)
<1>1. p \in Nat /\ q \in Nat /\ p <= q
  OBVIOUS
<1>2. /\ a \in Seq(Nat) /\ Len(a) = p /\ \A i \in 1..p : a[i] = s[(p - i) + 1]
      /\ b \in Seq(Nat) /\ Len(b) = q /\ \A i \in 1..q : b[i] = t[(q - i) + 1]
  <2>1. /\ \A i \in 1..p : s[(p - i) + 1] \in Nat
        /\ \A i \in 1..q : t[(q - i) + 1] \in Nat
    OBVIOUS
  <2> QED
    BY <1>1, <2>1 DEF Reverse
<1>3. \A i \in 1..p : a[i] = b[i]
  <2> SUFFICES ASSUME NEW i \in 1..p PROVE a[i] = b[i]
    OBVIOUS
  <2> HIDE DEF a, b
  <2>1. (p - i) + 1 \in 1..p /\ q - p + ((p - i) + 1) = (q - i) + 1 /\ i \in 1..q
    <3> HIDE DEF p, q
    <3> QED
      BY <1>1
  <2>2. s[(p - i) + 1] = t[q - p + ((p - i) + 1)]
    BY <2>1
  <2> QED
    BY <1>2, <2>1, <2>2
<1> HIDE DEF a, b, p, q
<1>4. SubSeq(a, 1, p) = SubSeq(b, 1, p)
  <2>1. /\ SubSeq(a, 1, p) = [i \in 1..p |-> a[i]]
        /\ SubSeq(b, 1, p) = [i \in 1..p |-> b[i]]
    BY <1>1, <1>2
  <2> QED
    BY <1>3, <2>1
<1> QED
  BY <1>1, <1>2, <1>4 DEF IsSuffix, IsPrefix, a, b

\* undo_edit steps back through the edits of a file without skipping one,
\* whatever the caps of HistoryStore removed.
THEOREM UndoSkipsNoEditCorrect == HistorySpec => []UndoSkipsNoEdit
<1>1. HistoryInv => UndoSkipsNoEdit
  <2> SUFFICES ASSUME HistoryInv, NEW f \in Files
               PROVE  IsSuffix([i \in DOMAIN files[f] |-> files[f][i].edit], undoable[f])
    BY DEF UndoSkipsNoEdit
  <2> DEFINE kept == [i \in DOMAIN files[f] |-> files[f][i].edit]
  <2>1. /\ files[f] \in Seq(Undoable) /\ undoable[f] \in Seq(Nat)
        /\ Len(files[f]) <= Len(undoable[f])
        /\ \A i \in DOMAIN files[f] :
             files[f][i].edit = undoable[f][Len(undoable[f]) - Len(files[f]) + i]
    BY DEF HistoryInv, Sound, Kept, Store, Stacks, Newest
  <2>2. \A i \in DOMAIN files[f] : files[f][i].edit \in Nat
    <3> SUFFICES ASSUME NEW i \in DOMAIN files[f] PROVE files[f][i].edit \in Nat
      OBVIOUS
    <3>1. files[f][i] \in Undoable
      BY <2>1
    <3> QED
      BY <3>1 DEF Undoable
  <2>3. /\ kept \in Seq(Nat) /\ Len(kept) = Len(files[f])
        /\ \A i \in 1..Len(files[f]) : kept[i] = files[f][i].edit
    BY <2>1, <2>2
  <2>4. DOMAIN files[f] = 1..Len(files[f])
    BY <2>1
  <2> HIDE DEF kept
  <2>5. IsSuffix(kept, undoable[f])
    BY <2>1, <2>3, <2>4, SuffixByIndex
  <2> QED
    BY <2>5 DEF kept
<1> QED
  BY <1>1, HistoryInvCorrect, PTL

===============================================================================
