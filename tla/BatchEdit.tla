------------------------------ MODULE BatchEdit ------------------------------
(***************************************************************************)
(* batch_edit_spec of text_editing.rs: several inserts and replaces on one *)
(* file, every position given against the file before the batch.  A caller *)
(* views a file, composes operations from the line ids it saw, and submits *)
(* them; the file may have changed in between.  The handler runs under the *)
(* file lock (FileLocks), so it is one step here.                          *)
(*                                                                         *)
(* A line is its text and its terminator.  The text of an operation is the *)
(* sequence of its lines.  An endpoint with hash NoHash is a plain number. *)
(* Snapshot, write and cache after the edit belong to FileEdits.           *)
(***************************************************************************)
EXTENDS EditableContent

CONSTANTS Texts,        \* texts a line can have
          Noise,        \* texts is_structural_noise accepts
          HashOf,       \* two-digit hash of each text; texts can share one
          NoHash,       \* marks an endpoint that is a plain number
          Files,        \* contents the file can have when it is viewed
          Contents,     \* texts of operations, as sequences of lines
          MaxOps,       \* bound: operations of one batch
          MaxStaleOps   \* bound: the same when the view is out of date

\* What the parameters are; the modules that instantiate this one assume it.
BatchEditAssumption ==
  /\ Blank \in Noise
  /\ Noise \subseteq Texts
  /\ NoHash \notin {HashOf[t] : t \in Texts}
  /\ Contents \subseteq Seq(Texts)
  /\ \A lines \in Files :
       /\ lines \in Seq([text : Texts, ending : {LF, CRLF, NoEnding}])
       /\ \A i \in DOMAIN lines :
            lines[i].ending = NoEnding => i = Len(lines) /\ lines[i].text # Blank
  /\ MaxOps \in Nat /\ MaxStaleOps \in Nat

VARIABLES raw,    \* the file: a sequence of lines
          seen,   \* texts of the lines the caller last viewed
          batch,  \* the operations composed so far
          answer  \* what the last submission returned

batchVars == <<raw, seen, batch, answer>>

------------------------------------------------------------------------------
(* Reading the operations.                                                 *)

MAX_OPERATIONS == 50

ParseLineRange(op) ==
  IF op.kind = "insert"
  THEN op.start.hash = NoHash => op.start.line \in {0, -1}
  ELSE op.start.hash # NoHash /\ op.end.hash # NoHash

\* Seeded fault: an id is accepted when its hash occurs anywhere in the file.
HashOccurs(id, texts) == \E i \in DOMAIN texts : HashOf[texts[i]] = id.hash

VerifyLineId(id, texts) ==
  /\ id.line \in DOMAIN texts
  /\ HashOf[texts[id.line]] = id.hash

Resolvable(op, texts) ==
  IF op.kind = "insert"
  THEN op.start.hash # NoHash => VerifyLineId(op.start, texts)
  ELSE /\ VerifyLineId(op.start, texts)
       /\ VerifyLineId(op.end, texts)
       /\ op.start.line <= op.end.line

\* The operation with its lines: an insert goes after line `last`, and an
\* insert of nothing writes a blank line.
ResolveLineRange(op, texts) ==
  IF op.kind = "insert"
  THEN LET anchor == IF op.start = [line |-> -1, hash |-> NoHash]
                     THEN Len(texts) ELSE op.start.line
       IN  [kind |-> "insert", first |-> anchor, last |-> anchor,
            content |-> IF op.content = <<>> THEN <<Blank>> ELSE op.content]
  ELSE [kind |-> "replace", first |-> op.start.line, last |-> op.end.line,
        content |-> op.content]

Resolved(ops, texts) == [i \in DOMAIN ops |-> ResolveLineRange(ops[i], texts)]

------------------------------------------------------------------------------
(* Checks between and within the operations.                               *)

InsideReplaced(ins, rep) == rep.first <= ins.last /\ ins.last < rep.last

\* Seeded fault: two inserts may share an anchor.
ConflictOnlyWithReplace(o, p) ==
  CASE o.kind = "replace" /\ p.kind = "replace" -> o.first <= p.last /\ p.first <= o.last
    [] o.kind = "insert" /\ p.kind = "replace"  -> InsideReplaced(o, p)
    [] o.kind = "replace" /\ p.kind = "insert"  -> InsideReplaced(p, o)
    [] OTHER                                    -> FALSE

Conflict(o, p) ==
  CASE o.kind = "replace" /\ p.kind = "replace" -> o.first <= p.last /\ p.first <= o.last
    [] o.kind = "insert" /\ p.kind = "insert"   -> o.last = p.last
    [] o.kind = "insert" /\ p.kind = "replace"  -> InsideReplaced(o, p)
    [] OTHER                                    -> InsideReplaced(p, o)

DetectConflicts(ops) ==
  \E i, j \in DOMAIN ops : i < j /\ Conflict(ops[i], ops[j])

RepeatsNeighbour(op, texts) ==
  /\ op.content # <<>>
  /\ \/ /\ op.first > 1
        /\ Head(op.content) = texts[op.first - 1]
        /\ texts[op.first - 1] \notin Noise
     \/ /\ op.last < Len(texts)
        /\ Last(op.content) = texts[op.last + 1]
        /\ texts[op.last + 1] \notin Noise

RepeatsWhatFollows(op, texts) ==
  LET below == SubSeq(texts, op.last + 1, Len(texts))
      shared == Min({Len(op.content), Len(below)})
  IN  IF Len(op.content) = 1
      THEN below # <<>> /\ op.content[1] = below[1] /\ below[1] \notin Noise
      ELSE shared >= 2 /\ SubSeq(op.content, 1, shared) = SubSeq(below, 1, shared)

Duplicates(op, texts) ==
  IF op.kind = "replace" THEN RepeatsNeighbour(op, texts)
                         ELSE RepeatsWhatFollows(op, texts)

Accepted(ops, texts) ==
  /\ Len(ops) \in 1..MAX_OPERATIONS
  /\ \A i \in DOMAIN ops : ParseLineRange(ops[i]) /\ Resolvable(ops[i], texts)
  /\ ~DetectConflicts(Resolved(ops, texts))
  /\ \A i \in DOMAIN ops : ~Duplicates(ResolveLineRange(ops[i], texts), texts)

------------------------------------------------------------------------------
(* apply_batch_operations: replaces from the bottom up, then inserts from  *)
(* the bottom up at positions moved by the replaces above them.            *)

\* Which of the operations with indices in s comes last in a stable sort by
\* start line, highest first.
LastByStart(ops, s) ==
  CHOOSE i \in s : \A j \in s \ {i} :
    \/ ops[j].first > ops[i].first
    \/ ops[j].first = ops[i].first /\ j < i

\* step(i, lines) for each index i in s, in that order.
InDescendingOrder(step(_, _), lines, ops, s) ==
  MapThenFoldSet(step, lines, LAMBDA i : i, LAMBDA t : LastByStart(ops, t), s)

Splice(lines, first, last, new) ==
  SubSeq(lines, 1, first - 1) \o new \o SubSeq(lines, last + 1, Len(lines))

OldCount(op) == IF op.kind = "insert" THEN 0 ELSE op.last - op.first + 1
Delta(op) == Len(op.content) - OldCount(op)

\* Seeded fault: an insert right after a replaced range is not moved by it.
AdjustedSkippingLast(ops, anchor) ==
  anchor + MapThenSumSet(LAMBDA i : Delta(ops[i]),
             {i \in DOMAIN ops : ops[i].kind = "replace" /\ anchor > ops[i].last})

\* An anchor, moved by the replaces that end at or above it.
Adjusted(ops, anchor) ==
  anchor + MapThenSumSet(LAMBDA i : Delta(ops[i]),
             {i \in DOMAIN ops : ops[i].kind = "replace" /\ anchor >= ops[i].last})

ApplyBatchOperations(lines, ops) ==
  LET ending == DominantEnding(lines)
      replaces == {i \in DOMAIN ops : ops[i].kind = "replace"}
      Replace(i, ls) ==
        Splice(ls, ops[i].first, ops[i].last, NewLines(ops[i].content, ending))
      Insert(i, ls) ==
        LET at == Min({Max({Adjusted(ops, ops[i].last), 0}), Len(ls)})
        IN  Splice(ls, at + 1, at, NewLines(ops[i].content, ending))
      replaced == InDescendingOrder(Replace, lines, ops, replaces)
      edited == InDescendingOrder(Insert, replaced, ops, DOMAIN ops \ replaces)
  IN  PreserveTrailingNewline(edited, ending, EndsWithNewline(lines))

------------------------------------------------------------------------------
(* The answer.                                                             *)

\* The edited regions, for the shift note.
BatchRegions(ops) == [i \in DOMAIN ops |-> [end |-> ops[i].last, by |-> Delta(ops[i])]]

\* display_ops: a stable sort by start line, ascending, as indices of ops.
DisplayOps(ops) ==
  SetToSortSeq(DOMAIN ops, LAMBDA i, j : \/ ops[i].first < ops[j].first
                                         \/ ops[i].first = ops[j].first /\ i < j)

\* The line number the diff prints for the first line operation i adds:
\* its original position moved by every operation displayed before it.
EchoedAt(ops, i) ==
  LET order == DisplayOps(ops)
      before == {order[k] : k \in 1..(SelectInSeq(order, LAMBDA j : j = i) - 1)}
      offset == MapThenSumSet(LAMBDA j : Delta(ops[j]), before)
      shifted == Max({ops[i].first + offset, 1})
  IN  IF ops[i].kind = "insert" /\ ops[i].first # 0 THEN shifted + 1 ELSE shifted

\* The ids of the added lines.
Echo(ops) ==
  UNION {{[line |-> EchoedAt(ops, i) + k - 1, hash |-> HashOf[ops[i].content[k]]] :
            k \in DOMAIN ops[i].content} : i \in DOMAIN ops}

------------------------------------------------------------------------------
NoAnswer == [outcome |-> "none", note |-> {}, echo |-> {}]
Refusal == [outcome |-> "refused", note |-> {}, echo |-> {}]

BatchInit ==
  /\ raw \in Files
  /\ seen = TextsOf(raw)
  /\ batch = <<>>
  /\ answer = NoAnswer

Ids == {[line |-> i, hash |-> HashOf[seen[i]]] : i \in DOMAIN seen}
Plain(n) == [line |-> n, hash |-> NoHash]

Requests ==
  [kind : {"insert"}, start : Ids \union {Plain(0), Plain(-1), Plain(1)},
   end : {Plain(0)}, content : Contents]
  \union [kind : {"replace"}, start : Ids, end : Ids, content : Contents]
  \union [kind : {"replace"}, start : Ids, end : {Plain(1)}, content : {<<>>}]

\* The caller adds an operation to its batch.
Ask(op) ==
  /\ answer.outcome = "none"
  /\ Len(batch) < IF seen = TextsOf(raw) THEN MaxOps ELSE MaxStaleOps
  /\ batch' = Append(batch, op)
  /\ UNCHANGED <<raw, seen, answer>>

\* Somebody else writes the file; when is seen by the submission only.
OtherWrite ==
  /\ answer.outcome = "none"
  /\ batch = <<>>
  /\ raw' \in Files
  /\ UNCHANGED <<seen, batch, answer>>

Submit ==
  /\ answer.outcome = "none"
  /\ LET texts == TextsOf(raw)
         ops == Resolved(batch, texts)
     IN  IF Accepted(batch, texts)
         THEN /\ raw' = ApplyBatchOperations(raw, ops)
              /\ answer' = [outcome |-> "applied",
                            note |-> ShiftNote(BatchRegions(ops), Len(raw)),
                            echo |-> Echo(ops)]
         ELSE raw' = raw /\ answer' = Refusal
  /\ UNCHANGED <<seen, batch>>

\* The caller views a file anew and starts another batch.
View ==
  /\ answer.outcome # "none"
  /\ raw' \in Files
  /\ seen' = TextsOf(raw')
  /\ batch' = <<>>
  /\ answer' = NoAnswer

BatchNext ==
  \/ \E op \in Requests : Ask(op)
  \/ OtherWrite
  \/ Submit
  \/ View

BatchSpec == BatchInit /\ [][BatchNext]_batchVars

------------------------------------------------------------------------------
(* Properties.                                                             *)

Applied == answer.outcome = "none" /\ answer'.outcome = "applied"
Lines == TextsOf(raw)
BatchOps == Resolved(batch, Lines)

\* The file the operations describe, line by line: what goes after line i.
InsertedAfter(ops, i) ==
  LET here == {o \in ToSet(ops) : o.kind = "insert" /\ o.last = i}
  IN  IF here = {} THEN <<>> ELSE (CHOOSE o \in here : TRUE).content

Covering(ops, i) ==
  {o \in ToSet(ops) : o.kind = "replace" /\ o.first <= i /\ i <= o.last}

\* What stands for line i: itself, or the new text at the head of its range.
StandsFor(ops, texts, i) ==
  IF Covering(ops, i) = {} THEN <<texts[i]>>
  ELSE LET o == CHOOSE o \in Covering(ops, i) : TRUE
       IN  IF o.first = i THEN o.content ELSE <<>>

UpTo(ops, texts, n) ==
  InsertedAfter(ops, 0)
    \o FlattenSeq([i \in 1..n |-> StandsFor(ops, texts, i) \o InsertedAfter(ops, i)])

\* An accepted batch yields the file its operations describe against the file
\* as it was: apply_batch_operations's order and offsets never show
\* (tools.md: "All targets refer to the original file").
EditsLandWhereAsked ==
  [][Applied =>
       LET result == UpTo(BatchOps, Lines, Len(Lines))
       IN  TextsOf(raw') = IF result = <<>> /\ EndsWithNewline(raw)
                           THEN <<Blank>> ELSE result]_batchVars

\* Every original line no operation replaced is, after the edit, at its old
\* number moved by what the shift note announces (shift_note; README.md: "ids
\* the model still holds can be adjusted without a failed call").
ShiftNoteFindsEveryKeptLine ==
  [][Applied =>
       \A i \in DOMAIN Lines : Covering(BatchOps, i) = {} =>
         i + Announced(answer'.note, i) = Len(UpTo(BatchOps, Lines, i - 1)) + 1]_batchVars

\* A batch composed from an outdated view is applied only where each line it
\* names still has the hash the caller saw there; otherwise the file stays.
OutdatedTargetsChangeNothing ==
  [][answer'.outcome # answer.outcome /\ raw' # raw /\ answer'.outcome # "none" =>
       \A i \in DOMAIN batch :
         \A id \in {batch[i].start}
                   \union (IF batch[i].kind = "replace" THEN {batch[i].end} ELSE {}) :
           id.hash # NoHash =>
             /\ id.line \in DOMAIN raw
             /\ HashOf[raw[id.line].text] = HashOf[seen[id.line]]]_batchVars

\* No edit joins two lines or turns the file's final newline on or off, except
\* that a blank last line keeps the newline it consists of; and a line no
\* operation touches, last lines aside, keeps its terminator (EditableContent).
TerminatorsSurvive ==
  [][Applied =>
       /\ \A i \in DOMAIN raw' : i < Len(raw') => raw'[i].ending # NoEnding
       /\ raw' # <<>> /\ Last(raw').text # Blank =>
            (EndsWithNewline(raw') <=> EndsWithNewline(raw))
       /\ raw' # <<>> /\ Last(raw').text = Blank => EndsWithNewline(raw')
       /\ \A i \in DOMAIN raw :
            LET to == Len(UpTo(BatchOps, Lines, i - 1)) + 1
            IN  Covering(BatchOps, i) = {} /\ i < Len(raw) /\ to < Len(raw') =>
                  raw'[to] = raw[i]]_batchVars

\* The ids printed with the added lines verify against the file just written
\* (batch_edit_spec: rendered positions are "aligned with where its content
\* actually landed"; tools.md: "no re-view needed").
FreshIdsVerify ==
  [][Applied =>
       \A id \in answer'.echo : VerifyLineId(id, TextsOf(raw'))]_batchVars
==============================================================================
