----------------------------- MODULE UndoHistory -----------------------------
(***************************************************************************)
(* HistoryStore of core.rs: the snapshots undo_edit restores.  Each file   *)
(* has a stack, capped in length; all stacks share a byte budget, enforced *)
(* by a queue `order` of one key per push.  Undo and the per-file cap      *)
(* remove snapshots without touching `order`.                              *)
(*                                                                         *)
(* A snapshot is its size and the number of the edit that took it; the     *)
(* number stands for the content.                                          *)
(***************************************************************************)
EXTENDS Integers, Sequences, SequencesExt, FiniteSetsExt

CONSTANTS Files,      \* lock keys of the edited files
          Sizes,      \* sizes a snapshot can have
          PerFile,    \* MAX_HISTORY_PER_FILE, 10 in the code
          ByteCap,    \* MAX_HISTORY_TOTAL_BYTES, 64 MiB in the code
          MaxEdits    \* bound: edits in one behaviour

ASSUME UndoHistoryAssumption ==
  /\ Sizes \subseteq Nat
  /\ PerFile \in Nat \ {0}
  /\ ByteCap \in Nat
  /\ MaxEdits \in Nat

VARIABLES files,   \* files[f]: the snapshots of f, oldest first
          order,   \* one key per push, oldest first
          total,   \* total_bytes
          edits,   \* number of pushes so far
          undoable,\* history: edits of f that nobody has undone, oldest first
          latest   \* history: the file pushed by the last step, or "undo"

historyVars == <<files, order, total, edits, undoable, latest>>

HistoryInit ==
  /\ files = [f \in Files |-> <<>>]
  /\ order = <<>>
  /\ total = 0
  /\ edits = 0
  /\ undoable = [f \in Files |-> <<>>]
  /\ latest = "undo"

------------------------------------------------------------------------------
\* Seeded fault: a snapshot pushed out by the per-file cap stays in the total.
AddForgettingCap(st, f, snap) ==
  LET full == Len(st.files[f]) >= PerFile
      kept == IF full THEN Tail(st.files[f]) ELSE st.files[f]
  IN  [files |-> [st.files EXCEPT ![f] = Append(kept, snap)],
       order |-> Append(st.order, f),
       total |-> st.total + snap.bytes]

\* The first half of push: the per-file cap, the snapshot, its queue entry.
Add(st, f, snap) ==
  LET full == Len(st.files[f]) >= PerFile
      kept == IF full THEN Tail(st.files[f]) ELSE st.files[f]
      freed == IF full THEN Head(st.files[f]).bytes ELSE 0
  IN  [files |-> [st.files EXCEPT ![f] = Append(kept, snap)],
       order |-> Append(st.order, f),
       total |-> st.total + snap.bytes - freed]

\* Seeded fault: the loop stops one entry early.
NothingToEvict(st) == st.total <= ByteCap + 1 \/ Len(st.order) <= 1

WithinCap(st) == st.total <= ByteCap \/ Len(st.order) <= 1

\* Seeded fault: eviction takes the newest snapshot of the oldest file.
EvictNewest(st) ==
  LET f == Head(st.order)
      rest == [st EXCEPT !.order = Tail(@)]
  IN  IF st.files[f] = <<>> THEN rest
      ELSE [rest EXCEPT !.files[f] = Front(@),
                        !.total = @ - Last(st.files[f]).bytes]

\* Seeded fault: the bytes given back are those of the newest snapshot.
EvictMiscounted(st) ==
  LET f == Head(st.order)
      rest == [st EXCEPT !.order = Tail(@)]
  IN  IF st.files[f] = <<>> THEN rest
      ELSE [rest EXCEPT !.files[f] = Tail(@),
                        !.total = @ - Last(st.files[f]).bytes]

\* Seeded fault: the queue entry goes, the snapshot stays.
EvictEntryOnly(st) == [st EXCEPT !.order = Tail(@)]

\* One turn of the eviction loop: the oldest queue entry, and the oldest
\* snapshot of its file if that file has any.
EvictOldest(st) ==
  LET f == Head(st.order)
      rest == [st EXCEPT !.order = Tail(@)]
  IN  IF st.files[f] = <<>> THEN rest
      ELSE [rest EXCEPT !.files[f] = Tail(@),
                        !.total = @ - Head(st.files[f]).bytes]

\* The loop, whose turns each take a queue entry; there are no more than those.
Evict(st) ==
  LET after[n \in 0..Len(st.order)] ==
        IF n = 0 THEN st
        ELSE IF WithinCap(after[n - 1]) THEN after[n - 1] ELSE EvictOldest(after[n - 1])
  IN  after[Len(st.order)]

\* HistoryStore::push, called by save_file_history and, once per file of a
\* committed transaction, by record_transaction_history.
Push(f, bytes) ==
  LET snap == [bytes |-> bytes, edit |-> edits + 1]
      st == Evict(Add([files |-> files, order |-> order, total |-> total], f, snap))
  IN  /\ edits < MaxEdits
      /\ files' = st.files
      /\ order' = st.order
      /\ total' = st.total
      /\ edits' = edits + 1
      /\ undoable' = [undoable EXCEPT ![f] = Append(@, edits + 1)]
      /\ latest' = f

\* HistoryStore::pop, called by undo_edit; without a snapshot it returns None
\* and undo_edit reports that there is nothing to undo.
Pop(f) ==
  /\ files[f] # <<>>
  /\ files' = [files EXCEPT ![f] = Front(@)]
  /\ total' = total - Last(files[f]).bytes
  /\ undoable' = [undoable EXCEPT ![f] = Front(@)]
  /\ latest' = "undo"
  /\ UNCHANGED <<order, edits>>

HistoryNext == \E f \in Files : Pop(f) \/ \E bytes \in Sizes : Push(f, bytes)

HistorySpec == HistoryInit /\ [][HistoryNext]_historyVars

------------------------------------------------------------------------------
\* What the store retains; the numbers of the edits keep snapshots apart.
Snapshots == UNION {Range(files[f]) : f \in Files}

Bytes(snapshots) == MapThenSumSet(LAMBDA s : s.bytes, snapshots)

\* total_bytes is what the retained snapshots take, so the budget is neither
\* exceeded silently nor used up by snapshots that are gone, and the usize
\* subtractions of push and pop never wrap.
TotalIsExact == total = Bytes(Snapshots)

\* The budget holds whenever more than one snapshot is kept ("global byte
\* budget so a long-lived server cannot grow without bound").
WithinBudget == total <= ByteCap \/ Cardinality(Snapshots) <= 1

\* Stale queue entries never hide a live snapshot from eviction: each file
\* has at least as many queue entries as snapshots.
EverySnapshotIsQueued ==
  \A f \in Files : Len(files[f]) <= Cardinality({i \in DOMAIN order : order[i] = f})

\* What the store promises about its size, whatever is pushed and popped on
\* several files: eviction, the queue and the byte count stay consistent.
BudgetIsKept == TotalIsExact /\ WithinBudget /\ EverySnapshotIsQueued

\* Whatever the caps removed, undo steps back through the edits of a file in
\* reverse order without skipping one: the stack is the newest part of the
\* edits not yet undone.
UndoSkipsNoEdit ==
  \A f \in Files :
    LET kept == [i \in DOMAIN files[f] |-> files[f][i].edit]
    IN  IsSuffix(kept, undoable[f])

\* "keeps the snapshot just pushed even if it alone exceeds the cap": the
\* edit just made can be undone (comment in push).
EditJustMadeIsUndoable ==
  latest \in Files => /\ files[latest] # <<>>
                      /\ Last(files[latest]).edit = edits
==============================================================================
