----------------------------- MODULE StrReplace ----------------------------
(***************************************************************************)
(* str_replace_spec of text_editing.rs: the progressive matching of one    *)
(* text in a file, the replacement, and the note on moved lines.  It runs  *)
(* under the file lock (FileEdits), so all of it is one step, but for the  *)
(* loop of find_all_positions, which takes a step for each turn.           *)
(*                                                                         *)
(* A text is a sequence of tokens: blanks, newlines, an escaped newline    *)
(* (a backslash and an n), and others that only their equality tells       *)
(* apart.  Tabs behave as blanks and are left out; so is the search for    *)
(* similar text in the answer when nothing matches.                        *)
(***************************************************************************)
EXTENDS EditableContent, TLC

CONSTANTS
  SourceFiles,   \* files, as sequences of lines
  Requests,      \* what is asked: [old, new, all]
  Idle           \* no request

SP == " "
NL == "\n"
Escaped == "\\n"

------------------------------------------------------------------------------
(* Text.                                                                   *)

\* str::lines: a final newline ends the last line and begins none.
LinesOf(s) ==
  LET breaks == SelectSeq([i \in 1..(Len(s) + 1) |-> i],
                          LAMBDA i : i = Len(s) + 1 \/ s[i] = NL)
      Start(k) == IF k = 1 THEN 1 ELSE breaks[k - 1] + 1
      parts == [k \in DOMAIN breaks |-> SubSeq(s, Start(k), breaks[k] - 1)]
  IN  IF Last(parts) = <<>> THEN Front(parts) ELSE parts

Joined(lines) ==
  FlattenSeq([i \in DOMAIN lines |-> IF i = 1 THEN lines[i] ELSE <<NL>> \o lines[i]])

\* EditableContent::normalized.
Normalized(lines) ==
  FlattenSeq([i \in DOMAIN lines |->
               lines[i].text \o IF lines[i].ending = NoEnding THEN <<>> ELSE <<NL>>])

\* lines_with_ending.
LinesWithEnding(s, ending) ==
  LET texts == LinesOf(s)
  IN  [i \in DOMAIN texts |->
        [text |-> texts[i],
         ending |-> IF i = Len(texts) /\ Last(s) # NL THEN NoEnding ELSE ending]]

\* The words of a line, one blank between two; and a whole text that way.
Words(line) ==
  LET kept == SelectSeq([i \in DOMAIN line |-> i],
                LAMBDA i : line[i] # SP
                           \/ /\ i > 1 /\ line[i - 1] # SP
                              /\ \E j \in (i + 1)..Len(line) : line[j] # SP)
  IN  [k \in DOMAIN kept |-> line[kept[k]]]
NormalizeWhitespace(s) ==
  LET lines == LinesOf(s) IN Joined([i \in DOMAIN lines |-> Words(lines[i])])

Unescape(s) == [i \in DOMAIN s |-> IF s[i] = Escaped THEN NL ELSE s[i]]

\* Offsets from `from` on at which needle is found.
Offsets(s, needle, from) ==
  {o \in from..(Len(s) - Len(needle)) : SubSeq(s, o + 1, o + Len(needle)) = needle}

\* The offsets str::matches counts: from the left, none inside another.
Matches(s, needle) ==
  LET From[at \in 0..(Len(s) + 1)] ==
        LET found == Offsets(s, needle, at)
        IN  IF found = {} THEN {}
            ELSE {Min(found)} \union From[Min(found) + Max({Len(needle), 1})]
  IN  From[0]

Ascending(offsets, end) == SelectSeq([i \in 1..(end + 1) |-> i - 1], LAMBDA o : o \in offsets)

LineAt(s, offset) == Cardinality({i \in 1..offset : s[i] = NL}) + 1

------------------------------------------------------------------------------
(* The edit.                                                               *)

\* replace_normalized_range: offsets start..end of the normalized text.  The
\* lines it touches are taken out, changed as one text, and split again.
ReplaceRange(lines, ending, start, end, new) ==
  LET content == Normalized(lines)
      Begin(i) == Len(Normalized(SubSeq(lines, 1, i - 1)))
      last == IF end > start THEN end - 1 ELSE Min({start, Max({Len(content) - 1, 0})})
      first == Min({i \in DOMAIN lines : \/ start < Begin(i + 1)
                                         \/ start = Len(content) /\ i = Len(lines)})
      final == Min({i \in DOMAIN lines : last < Begin(i + 1)})
      changed == SubSeq(content, Begin(first) + 1, start) \o new
                   \o SubSeq(content, end + 1, Begin(final + 1))
      middle == LinesWithEnding(changed, ending)
      suffix == SubSeq(lines, final + 1, Len(lines))
  IN  IF lines = <<>> THEN LinesWithEnding(new, ending)
      ELSE SubSeq(lines, 1, first - 1)
           \o IF changed # <<>> /\ Last(changed) # NL /\ suffix # <<>>
              THEN Front(middle)
                   \o <<[text |-> Last(middle).text \o Head(suffix).text, ending |-> ending]>>
                   \o Tail(suffix)
              ELSE middle \o suffix

\* The file with new in place of the texts of length n at the given offsets,
\* changed one by one in the order given.
ReplacedInOrder(lines, offsets, n, new) ==
  LET ending == DominantEnding(lines)
      Step(before, o) == IF o + n > Len(Normalized(before)) THEN before
                         ELSE ReplaceRange(before, ending, o, o + n, new)
      After[k \in 0..Len(offsets)] ==
        IF k = 0 THEN lines ELSE Step(After[k - 1], offsets[k])
  IN  PreserveTrailingNewline(After[Len(offsets)], ending, EndsWithNewline(lines))

\* Seeded fault: the offsets are used from the top of the file down.
ReplacedDownwards(lines, offsets, n, new) ==
  ReplacedInOrder(lines, Ascending(offsets, Len(Normalized(lines))), n, new)

Replaced(lines, offsets, n, new) ==
  ReplacedInOrder(lines, Reverse(Ascending(offsets, Len(Normalized(lines)))), n, new)

------------------------------------------------------------------------------
(* Matching in stages.                                                     *)

Blanks(n) == [i \in 1..n |-> SP]
LeadingBlanks(line) ==
  Cardinality({i \in DOMAIN line : \A j \in 1..i : line[j] = SP})
IsBlank(line) == LeadingBlanks(line) = Len(line)

\* detect_indent and adjust_indentation.
DetectIndent(s) ==
  LET written == SelectSeq(LinesOf(s), LAMBDA l : ~IsBlank(l))
  IN  IF written = <<>> THEN 0 ELSE LeadingBlanks(written[1])

AdjustIndentation(new, old, actual) ==
  LET given == DetectIndent(old)
      lines == LinesOf(new)
      Adjust(line) ==
        IF IsBlank(line) THEN line
        ELSE Blanks(DetectIndent(actual))
               \o SubSeq(line, Min({given, LeadingBlanks(line)}) + 1, Len(line))
  IN  IF given = DetectIndent(actual) THEN new
      ELSE Joined([i \in DOMAIN lines |-> Adjust(lines[i])])

\* The lines of content that say what old says, blanks aside.
Windows(content, old) ==
  LET file == LinesOf(content)
      asked == LinesOf(old)
  IN  {s \in 0..(Len(file) - Len(asked)) :
         \A i \in DOMAIN asked : Words(file[s + i]) = Words(asked[i])}

NoMatch == [how |-> "none", old |-> <<>>, new |-> <<>>, at |-> 0, line |-> 0]
Exactly(how, old, new, at) ==
  [how |-> how, old |-> old, new |-> new, at |-> at, line |-> 0]

\* The third stage: lines that match up to blanks, replaced where their text
\* is first found.
\* Seeded fault: the offset is that of the match in the normalized text.
LocatedNormalized(content, actual, request) ==
  Min(Matches(NormalizeWhitespace(content), NormalizeWhitespace(request.old)))

Located(content, actual, request) == Min(Offsets(content, actual, 0))
Fuzzily(content, request) ==
  LET start == Min(Windows(content, request.old))
      actual == Joined(SubSeq(LinesOf(content), start + 1, start + Len(LinesOf(request.old))))
  IN  [how |-> "fuzzy", old |-> actual, line |-> start,
       new |-> AdjustIndentation(request.new, request.old, actual),
       at |-> Located(content, actual, request)]

\* "crash": blanks match an empty file up to blanks, and the first window of
\* lines reaches past its end, which aborts the server.
Match(content, request) ==
  LET exact == Matches(content, request.old)
      read == Unescape(request.old)
      escaped == IF read = request.old THEN {} ELSE Matches(content, read)
      fuzzy == Matches(NormalizeWhitespace(content), NormalizeWhitespace(request.old))
  IN  IF request.all /\ exact # {} THEN Exactly("all", request.old, request.new, 0)
      ELSE IF Cardinality(exact) = 1 THEN Exactly("once", request.old, request.new, Min(exact))
      ELSE IF exact # {} THEN Exactly("many", request.old, <<>>, 0)
      ELSE IF request.all /\ escaped # {} THEN
        Exactly("all", read, Unescape(request.new), 0)
      ELSE IF Cardinality(escaped) = 1 THEN
        Exactly("once", read, Unescape(request.new), Min(escaped))
      ELSE IF Cardinality(fuzzy) = 1 /\ Len(LinesOf(content)) < Len(LinesOf(request.old)) THEN
        Exactly("crash", request.old, <<>>, 0)
      ELSE IF Cardinality(fuzzy) = 1 /\ Windows(content, request.old) # {} THEN
        Fuzzily(content, request)
      ELSE NoMatch

------------------------------------------------------------------------------
VARIABLES file,     \* the file
          asked,    \* the request under way, or Idle
          found,    \* find_all_positions: the offsets so far
          from,     \* where it looks next
          turn,     \* parity of its turns
          reply     \* the answer to the last request: outcome and shift note

vars == <<file, asked, found, from, turn, reply>>

NoReply == [how |-> "", note |-> {}]
Content == Normalized(file)
Matched == Match(Content, asked)

Init ==
  /\ file \in SourceFiles
  /\ asked = Idle /\ found = {} /\ from = 0 /\ turn = 0
  /\ reply = NoReply

Receive(request) ==
  /\ asked = Idle /\ reply = NoReply
  /\ asked' = request
  /\ UNCHANGED <<file, found, from, turn, reply>>

Scans == asked # Idle /\ Matched.how \in {"all", "many"}

\* One turn of the loop of find_all_positions.
Search ==
  /\ Scans
  /\ LET next == Offsets(Content, Matched.old, from)
     IN  /\ next # {}
         /\ found' = found \union {Min(next)}
         /\ from' = Min(next) + Len(Matched.old)
         /\ turn' = 1 - turn
  /\ UNCHANGED <<file, asked, reply>>

\* Regions for the shift note of a replace_all.
SitesMoved(content, old, new) ==
  LET text == SelectSeq([i \in DOMAIN old |-> i],
                        LAMBDA i : \E j \in i..Len(old) : old[j] # NL)
      by == LineAt(new, Len(new)) - LineAt(old, Len(old))
      sites == Ascending(found, Len(content))
  IN  [i \in DOMAIN sites |-> [end |-> LineAt(content, sites[i] + Len(text)), by |-> by]]

\* The region of a single replacement, seen from the lines of the whole file.
LinesMoved(content, start, old, result) ==
  <<[end |-> start + Len(LinesOf(old)),
     by |-> Len(LinesOf(result)) - Len(LinesOf(content))]>>

Finish ==
  /\ asked # Idle
  /\ Matched.how # "crash"
  /\ Scans => Offsets(Content, Matched.old, from) = {}
  /\ LET m == Matched
         sites == IF m.how = "all" THEN found ELSE {m.at}
         edited == Replaced(file, sites, Len(m.old), m.new)
         start == IF m.how = "fuzzy" THEN m.line ELSE LineAt(Content, m.at) - 1
         regions == IF m.how = "all" THEN SitesMoved(Content, m.old, m.new)
                    ELSE LinesMoved(Content, start, m.old, Normalized(edited))
     IN  IF m.how \in {"none", "many"}
         THEN file' = file /\ reply' = [how |-> m.how, note |-> {}]
         ELSE /\ file' = edited
              /\ reply' = [how |-> m.how,
                           note |-> ShiftNote(regions, Len(LinesOf(Content)))]
  /\ asked' = Idle /\ found' = {} /\ from' = 0 /\ turn' = 0

Next == (\E request \in Requests : Receive(request)) \/ Search \/ Finish

\* The handler runs on.
Spec == Init /\ [][Next]_vars /\ WF_vars(Search \/ Finish)

------------------------------------------------------------------------------
(* Properties.                                                             *)

Done(hows) == asked # Idle /\ asked' = Idle /\ reply'.how \in hows

\* What the result must be: new in the place of every occurrence of old, and
\* where a token that is kept stands then.
Rewritten(content, sites, n, new) ==
  LET Piece(i) == CASE i - 1 \in sites -> new
                    [] \E o \in sites : o + 1 < i /\ i <= o + n -> <<>>
                    [] OTHER -> <<content[i]>>
  IN  FlattenSeq([i \in DOMAIN content |-> Piece(i)])
Moved(i, sites, n, new) ==
  i + Cardinality({o \in sites : o + n < i}) * (Len(new) - n)

\* The text with its final newline as the file had it; a last line that is
\* blank keeps the newline it consists of.
WithEnd(text, newline) ==
  LET texts == LinesOf(text)
  IN  IF newline THEN IF text = <<>> \/ Last(text) # NL THEN Append(text, NL) ELSE text
      ELSE IF texts # <<>> /\ Last(texts) # <<>> THEN Joined(texts) ELSE text

\* A replacement that matched exactly, or after its escapes were read, changes
\* the text it found and nothing else: the file is the old one with the new
\* text in the place of the old, all of its occurrences with replace_all, and
\* the lines before the first of them keep their terminators (text_editing.rs:
\* "writes retain each untouched line's original ending").
OnlyTheMatchIsReplaced ==
  [][Done({"all", "once"}) => \A m \in {Matched} :
       \A sites \in {Matches(Content, m.old)} :
         /\ Normalized(file') = WithEnd(Rewritten(Content, sites, Len(m.old), m.new),
                                        EndsWithNewline(file))
         /\ \A i \in DOMAIN file :
              i < LineAt(Content, Min(sites)) => file'[i] = file[i]]_vars

\* A line that no replacement touched is, after the edit, at its old number
\* moved by what the shift note announces (shift_note: "so ids the model still
\* holds can be adjusted").
ShiftNoteIsRight ==
  [][Done({"all", "once"}) => \A m \in {Matched} :
       \A sites \in {Matches(Content, m.old)} :
         LET n == Len(m.old)
             result == Rewritten(Content, sites, n, m.new)
             Begins(i) == Len(Normalized(SubSeq(file, 1, i - 1))) + 1
         IN  \A i \in DOMAIN file :
               (\A o \in sites : o + n + 1 < Begins(i) \/ o + 1 >= Begins(i + 1)) =>
                 i + Announced(reply'.note, i)
                   = LineAt(result, Moved(Begins(i), sites, n, m.new) - 1)]_vars

\* A match up to blanks replaces the lines it found, indented as they are, and
\* no others (README.md: "whitespace-normalized fuzzy with indentation
\* adjustment").  This is said of texts that end within a line, and of lines
\* that are not found earlier inside other lines: otherwise the code leaves a
\* blank line behind, or changes the earlier place.
FuzzyReplacesItsLines ==
  [][Done({"fuzzy"}) /\ (\A s \in {asked.old, asked.new} : s # <<>> /\ Last(s) # NL) =>
       \A m \in {Matched} :
         LET old == LinesOf(Content)
             below == m.line + Len(LinesOf(asked.old)) + 1
         IN  Offsets(Content, m.old, 0) \cap 0..(Len(Normalized(SubSeq(file, 1, m.line))) - 1) = {} =>
               LinesOf(Normalized(file')) =
                 SubSeq(old, 1, m.line) \o LinesOf(m.new) \o SubSeq(old, below, Len(old))]_vars

\* Every request is answered, if only by an error (text_editor: "On multiple
\* matches the error lists their line ids; on none it lists the closest
\* matches").
EveryReplaceIsAnswered == asked # Idle ~> asked = Idle
==============================================================================
