-------------------------- MODULE EditableContent --------------------------
(* EditableContent of text_editing.rs: a file as lines, each with its text *)
(* and its terminator, and what every edit of it keeps; and the note on    *)
(* moved lines that ends the answer of an edit.                            *)
EXTENDS Integers, Sequences, SequencesExt, FiniteSetsExt

CONSTANT Blank        \* the empty text

LF == "\n"
CRLF == "\r\n"
NoEnding == ""

TextsOf(lines) == [i \in DOMAIN lines |-> lines[i].text]
Count(lines, ending) == Cardinality({i \in DOMAIN lines : lines[i].ending = ending})
EndsWithNewline(lines) == lines # <<>> /\ Last(lines).ending # NoEnding

\* EditableContent::from_raw: the terminator new lines get.
DominantEnding(lines) == IF Count(lines, CRLF) > Count(lines, LF) THEN CRLF ELSE LF

NewLines(texts, ending) == [i \in DOMAIN texts |-> [text |-> texts[i], ending |-> ending]]

\* Seeded fault: only the last line of the result is looked at.
PreserveLastEnding(lines, ending, trailing) ==
  IF lines = <<>> \/ trailing THEN lines
  ELSE [lines EXCEPT ![Len(lines)].ending = NoEnding]

PreserveTrailingNewline(lines, ending, trailing) ==
  IF lines = <<>>
  THEN IF trailing THEN NewLines(<<Blank>>, ending) ELSE <<>>
  ELSE [i \in DOMAIN lines |->
         IF i = Len(lines) /\ ~trailing
         THEN IF lines[i].text = Blank THEN lines[i]
              ELSE [lines[i] EXCEPT !.ending = NoEnding]
         ELSE IF lines[i].ending = NoEnding
              THEN [lines[i] EXCEPT !.ending = ending]
              ELSE lines[i]]

\* Regions are [end, by]: the last original line of an edited region, and by
\* how many lines the region grew.  From line `after` on, original numbers
\* have moved by `by`; n is the number of original lines.
Total(regions, ends) ==
  MapThenSumSet(LAMBDA i : regions[i].by, {i \in DOMAIN regions : regions[i].end \in ends})

\* Seeded fault: each entry gives the change of its own region only.
ShiftNoteOwnDelta(regions, n) ==
  {[after |-> end, by |-> Total(regions, {end})] :
     end \in {e \in {regions[i].end : i \in DOMAIN regions} :
                e < n /\ Total(regions, {e}) # 0}}

ShiftNote(regions, n) ==
  {[after |-> end, by |-> Total(regions, 0..end)] :
     end \in {e \in {regions[i].end : i \in DOMAIN regions} :
                e < n /\ Total(regions, {e}) # 0}}

\* The move a note announces for an original line number.
Announced(note, i) ==
  LET above == {e \in note : e.after < i}
  IN  IF above = {} THEN 0
      ELSE (CHOOSE e \in above : \A f \in above : f.after <= e.after).by
=============================================================================
