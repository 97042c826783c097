------------------------------ MODULE LineDiff ------------------------------
(***************************************************************************)
(* diff_lines and render_diff of mcp/fs/delta.rs: what a client that has   *)
(* the old text of a file is told of the new one, in a delta view or in    *)
(* the answer of a multi-file edit.  Myers' search is written round by     *)
(* round, with the array it keeps for every round; line numbers and        *)
(* indices into the edit script count from 1.                              *)
(*                                                                         *)
(* A line id is its number here: BatchEdit is about its hash.              *)
(***************************************************************************)
EXTENDS EditableContent, TLC

CONSTANTS
  Pairs,         \* [old, new]: two texts of a file, as sequences of lines
  MaxDistance,   \* MAX_EDIT_DISTANCE
  NotShown       \* nothing has been rendered yet

\* What the parameters are; the modules that instantiate this one assume it.
LineDiffAssumption ==
  /\ MaxDistance \in Nat
  /\ \A p \in Pairs : \A text \in {p.old, p.new} : text \in Seq(ToSet(text))

VARIABLES
  pair,      \* the texts
  edit,      \* whether the new one is the client's own edit
  rendered   \* what it is told

diffVars == <<pair, edit, rendered>>

------------------------------------------------------------------------------
(* The search.                                                             *)

\* The edit script is made of these, each with a number in the old text, in
\* the new one, or in both.
Equal(i, j) == [kind |-> "equal", old |-> i, new |-> j]
Delete(i) == [kind |-> "delete", old |-> i, new |-> 0]
Insert(j) == [kind |-> "insert", old |-> 0, new |-> j]

\* v[k] is how far in the old text, x, the search has come on diagonal
\* k = x - y.  Round d reaches diagonal k downwards from k + 1, or from k - 1.

\* Seeded fault: of two neighbours that are equally far, the one above is taken.
DownwardsOnTies(v, d, k) == k = -d \/ (k # d /\ v[k - 1] <= v[k + 1])

Downwards(v, d, k) == k = -d \/ (k # d /\ v[k - 1] < v[k + 1])

\* Along the lines that are the same in both.
Slide(old, new, x, k) ==
  Min({e \in x..Max({x, Len(old)}) :
         e >= Len(old) \/ e - k >= Len(new) \/ old[e + 1] # new[e - k + 1]})

\* A round writes the diagonals of its own parity and reads the others, so the
\* order of its turns does not matter.
Turns(d) == {k \in -d..d : (k + d) % 2 = 0}
Round(old, new, v, d) ==
  [k \in DOMAIN v |->
    IF k \in Turns(d)
    THEN Slide(old, new, IF Downwards(v, d, k) THEN v[k + 1] ELSE v[k - 1] + 1, k)
    ELSE v[k]]

\* The array before each round.
Trace(old, new, most) ==
  LET Before[d \in 0..most] ==
        IF d = 0 THEN [k \in -(most + 1)..(most + 1) |-> 0]
        ELSE Round(old, new, Before[d - 1], d - 1)
  IN  Before

\* The script is read off the trace from the end: the last round's slide, its
\* change, and so on down to round 0.
BackOneRound(s, v, d) ==
  LET k == s.x - s.y
      from == IF Downwards(v, d, k) THEN k + 1 ELSE k - 1
      same == Max({0, Min({s.x - v[from], s.y - (v[from] - from)})})
      x == s.x - same
      y == s.y - same
      change == IF x = v[from] THEN Insert(y) ELSE Delete(x)
      slid == [i \in 1..same |-> Equal(x + i, y + i)]
  IN  [x |-> v[from], y |-> v[from] - from,
       ops |-> (IF d > 0 THEN <<change>> ELSE <<>>) \o slid \o s.ops]

Backtrack(old, new, trace, last) ==
  LET Back[n \in 0..(last + 1)] ==
        IF n = 0 THEN [x |-> Len(old), y |-> Len(new), ops |-> <<>>]
        ELSE BackOneRound(Back[n - 1], trace[last + 1 - n], last + 1 - n)
  IN  Back[last + 1].ops

TooFar == [ok |-> FALSE, ops |-> <<>>]
DiffLines(old, new) ==
  LET most == Min({MaxDistance, Len(old) + Len(new)})
      From(trace) ==
        LET Ends(d) == \E k \in Turns(d) :
                         LET x == Round(old, new, trace[d], d)[k]
                         IN  x >= Len(old) /\ x - k >= Len(new)
            rounds == {d \in 0..most : Ends(d)}
        IN  IF rounds = {} THEN TooFar
            ELSE [ok |-> TRUE, ops |-> Backtrack(old, new, trace, Min(rounds))]
  IN  From(Trace(old, new, most))

------------------------------------------------------------------------------
(* The rendering, as a sequence of entries.                                *)

Context == 2
EchoWholeMax == 3

Gap == [kind |-> "gap", from |-> 0, to |-> 0, text |-> <<>>]
Removed(from, to) == [kind |-> "removed", from |-> from, to |-> to, text |-> <<>>]
Numbered(kind, j, line) == [kind |-> kind, from |-> j, to |-> j, text |-> <<line>>]
Sent(from, to) == [kind |-> "sent", from |-> from, to |-> to, text |-> <<>>]

\* push_added_lines: the middle of a long block is only numbered.
Added(new, from, to) ==
  LET Line(j) == Numbered("added", j, new[j])
  IN  IF to - from < EchoWholeMax THEN [i \in 1..(to - from + 1) |-> Line(from + i - 1)]
      ELSE <<Line(from), Sent(from + 1, to - 1), Line(to)>>

\* Hunks are merged when they touch, so they are the runs of these places in
\* the script.
InHunks(ops) ==
  {j \in DOMAIN ops : \E i \in DOMAIN ops :
     ops[i].kind # "equal" /\ i - Context <= j /\ j <= i + Context}

\* Seeded fault: a block goes on to the last change of its kind in the hunk.
RunEndAcross(ops, i) ==
  Max({j \in i..Len(ops) : ops[j].kind = ops[i].kind /\ i..j \subseteq InHunks(ops)})

\* The end of the block of changes of one kind that begins at i.
RunEnd(ops, i) ==
  Max({j \in i..Len(ops) : \A h \in i..j : ops[h].kind = ops[i].kind})

Begins(ops, i) == i = 1 \/ ops[i - 1].kind # ops[i].kind

EntriesOf(new, ops, i, asEdit) ==
  LET op == ops[i]
      end == ops[RunEnd(ops, i)]
  IN  CASE op.kind = "equal" -> <<Numbered("kept", op.new, new[op.new])>>
        [] op.kind = "insert" /\ ~asEdit -> <<Numbered("added", op.new, new[op.new])>>
        [] op.kind = "insert" /\ asEdit ->
             IF Begins(ops, i) THEN Added(new, op.new, end.new) ELSE <<>>
        [] op.kind = "delete" ->
             IF Begins(ops, i) THEN <<Removed(op.old, end.old)>> ELSE <<>>

Entries(new, ops, asEdit) ==
  LET hunks == InHunks(ops)
      At(i) == IF i \notin hunks THEN <<>>
               ELSE (IF i > 1 /\ i - 1 \notin hunks THEN <<Gap>> ELSE <<>>)
                      \o EntriesOf(new, ops, i, asEdit)
      closing == IF hunks # {} /\ Max(hunks) < Len(ops) THEN <<Gap>> ELSE <<>>
  IN  FlattenSeq([i \in DOMAIN ops |-> At(i)]) \o closing

\* Regions for the shift note: each block of changes that is not just as long
\* as what it replaced, with the old line it ends at.

Scan(s, op) ==
  CASE op.kind = "equal"  -> [regions |-> IF s.delta = 0 THEN s.regions ELSE
                                Append(s.regions, [end |-> s.end, by |-> s.delta]),
                              end |-> op.old, delta |-> 0]
    [] op.kind = "delete" -> [s EXCEPT !.end = op.old, !.delta = @ - 1]
    [] op.kind = "insert" -> [s EXCEPT !.delta = @ + 1]

Regions(ops) ==
  LET Flush(s) == IF s.delta = 0 THEN s.regions
                  ELSE Append(s.regions, [end |-> s.end, by |-> s.delta])
  IN  Flush(FoldLeft(Scan, [regions |-> <<>>, end |-> 0, delta |-> 0], ops))

RenderDiff(old, new, asEdit) ==
  LET Shown(diff) ==
        IF ~diff.ok THEN [how |-> "full", lines |-> Len(new), entries |-> <<>>, note |-> {}]
        ELSE [how |-> "diff", lines |-> Len(new), entries |-> Entries(new, diff.ops, asEdit),
              note |-> IF asEdit THEN ShiftNote(Regions(diff.ops), Len(old)) ELSE {}]
  IN  Shown(DiffLines(old, new))

------------------------------------------------------------------------------
DiffInit ==
  /\ pair \in Pairs
  /\ edit \in BOOLEAN
  /\ rendered = NotShown

\* render_whole_file of a text that is not the one last viewed, though its
\* lines may be the same, and render of multi_edit.rs.
Tell ==
  /\ rendered = NotShown
  /\ rendered' = RenderDiff(pair.old, pair.new, edit)
  /\ UNCHANGED <<pair, edit>>

DiffNext == Tell

DiffSpec == DiffInit /\ [][DiffNext]_diffVars

------------------------------------------------------------------------------
(* Properties.                                                             *)

Old == pair.old
New == pair.new
Of(kinds) == {e \in ToSet(rendered.entries) : e.kind \in kinds}
Covered(kinds) == UNION {e.from..e.to : e \in Of(kinds)}
Compared == rendered # NotShown /\ rendered.how = "diff"

\* What is left of the old text, as old numbers, and the new number of the
\* k-th line of it.
Left == SelectSeq([i \in DOMAIN Old |-> i], LAMBDA i : i \notin Covered({"removed"}))
Right == SelectSeq([j \in 1..rendered.lines |-> j], LAMBDA j : j \notin Covered({"added", "sent"}))

\* Who has the old text and applies what is shown has the new text: the lines
\* said to be removed are gone, the added ones are at their numbers, all the
\* others follow in their order, and without a gap in between two numbers that
\* follow one another in the rendering do so in the file.  Of an edit its
\* writer knows the lines that are only counted, and its shift note says where
\* each line of the old text is now (delta.rs: "returns only what changed
\* since, in the same diff style as edit results").
ReaderKnowsTheFile ==
  Compared =>
    /\ Len(Left) = Len(Right)
    /\ \A n \in DOMAIN Left : Old[Left[n]] = New[Right[n]]
    /\ \A e \in Of({"added", "kept"}) : e.text = <<New[e.from]>>
    /\ edit \/ Of({"sent"}) = {}
    /\ LET visible == SelectSeq(rendered.entries, LAMBDA e : e.kind # "removed")
       IN  \A n \in 2..Len(visible) :
             Gap \notin {visible[n - 1], visible[n]} =>
               visible[n].from = visible[n - 1].to + 1
    /\ edit => \A n \in DOMAIN Left : Left[n] + Announced(rendered.note, Left[n]) = Right[n]

\* The length of a longest common subsequence of the texts, by rows: the i-th
\* has it for the first i lines of one and every prefix of the other.
RowBelow(old, new, i, above) ==
  LET Best[j \in 0..Len(new)] ==
        IF j = 0 THEN 0
        ELSE IF old[i] = new[j] THEN above[j - 1] + 1
        ELSE Max({above[j], Best[j - 1]})
  IN  Best
Common(old, new) ==
  LET Row[i \in 0..Len(old)] ==
        IF i = 0 THEN [j \in 0..Len(new) |-> 0] ELSE RowBelow(old, new, i, Row[i - 1])
  IN  Row[Len(old)][Len(new)]

\* No shorter diff exists, and the whole file is shown only if every diff is
\* longer than the limit (diff_lines: "None once the edit distance exceeds
\* max_d").
NoShorterDiff ==
  rendered # NotShown =>
    LET distance == Len(Old) + Len(New) - 2 * Common(Old, New)
    IN  IF rendered.how = "full" THEN distance > MaxDistance
        ELSE /\ distance <= MaxDistance
             /\ Cardinality(Covered({"removed"})) + Cardinality(Covered({"added", "sent"}))
                  = distance
=============================================================================
