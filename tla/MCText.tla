------------------------------- MODULE MCText -------------------------------
(***************************************************************************)
(* What a client reads and writes as text: the view cache with all the     *)
(* local file tools that use it, and the algorithms batch_edit,            *)
(* str_replace, the line diff and the output digests.  They share no       *)
(* state; `part` says which of them moves, and the others stay at one of   *)
(* their initial states.                                                   *)
(***************************************************************************)
EXTENDS FileEdits, BatchEdit, MCBatchFiles, LineDiff, TLC

CONSTANTS c1, c2, c3,
          SourceFiles, Replacements, Idle, Runs, ProgramLines, MaxIntrusions
VARIABLES part,
          source, asked, found, from, turn, told, left, out, err, shown

ThreeCalls == {c1, c2, c3}
Interchangeable == Permutations(ThreeCalls)
NoLinks == [n \in Names |-> n]

replaceVars == <<source, asked, found, from, turn, told>>
outputVars == <<left, out, err, shown>>

ASSUME BatchEditAssumption
ASSUME LineDiffAssumption

\* Texts of a file before and after: short ones of two different lines, and a
\* longer one changed at two places, which are apart or touch.
Short == UNION {[1..n -> {"a", "b"}] : n \in 0..4}
Long == <<"a", "b", "c", "d", "a", "b", "c", "d", "e">>
By == {<<>>, <<"x">>, <<"x", "a">>, <<"x", "x", "x", "x">>}
Change(lines, i, by) == SubSeq(lines, 1, i - 1) \o by \o SubSeq(lines, i + 1, Len(lines))
MCPairs ==
  [old : Short, new : Short]
    \union {[old |-> Long, new |-> Change(Change(Long, i[2], b), i[1], c)] :
              i \in {i \in (1..9) \X (1..9) : i[1] < i[2]}, b, c \in By}
    \union {[old |-> Change(Long, i, b), new |-> Long] : i \in 1..9, b \in By}
APair == [old |-> <<>>, new |-> <<>>]

Empty == <<>>
Fuzzy == INSTANCE StrReplace
             WITH Requests <- Replacements, Blank <- Empty, file <- source, reply <- told
Output == INSTANCE BuildOutput

\* Files and requests of str_replace:
A == <<"a">>
B == <<"b">>

\* Repeated lines, an indented one, an escape, mixed and missing terminators,
\* a blank end, a repeated text within a line and across lines.
MCSources ==
  {<<>>,
   Unended(<<A, B>>),
   Ending(<<A, B, A, B>>, Editable!LF),
   Ending(<<A, A, A>>, Editable!LF),
   Ending(<<<<" ", "a">>, B, <<"a", "a">>>>, Editable!LF),
   Ending(<<<<"a", "\\n">>, A>>, Editable!LF),
   Ending(<<A>>, Editable!CRLF) \o Ending(<<B>>, Editable!LF) \o Ending(<<A>>, Editable!CRLF),
   Ending(<<A, <<>>>>, Editable!CRLF) \o Unended(<<<<"b", " ">>>>),
   Ending(<<B, A, <<>>>>, Editable!LF),
   Ending(<<<<" ", "b">>, A, <<" ", "b">>>>, Editable!LF)}

Olds == {A, <<"a", "a">>, <<"a", "\n">>, <<"a", "\n", "b">>, <<"a", "\\n", "b">>,
         <<"\n", "a">>, <<"a", "\n", "a">>, <<" ", "a">>, <<"b", " ", "\n">>, <<"c">>,
         <<"\\n", "a">>, <<"a", " ", "\n", "b">>,
         <<"b", " ", "\n", "a">>}
News == {<<>>, B, <<"b", "\n">>, <<"\n">>, <<"a", "\n", " ", "b">>, <<"a", "\\n", "b">>,
         <<"b", "\n", "b", "\n", "b">>}
MCReplacements == [old : Olds, new : News, all : BOOLEAN]

Logs == INSTANCE MCBuildLogs
MCRuns == Logs!MCRuns
MCProgramLines == Logs!MCProgramLines
AnyRun == CHOOSE run \in Runs : TRUE

TextInit ==
  /\ part \in {"cache", "batch", "replace", "diff", "output"}
  /\ Init
  /\ BatchInit /\ (part # "batch" => raw = <<>>)
  /\ Fuzzy!Init /\ (part # "replace" => source = <<>>)
  /\ IF part = "diff" THEN DiffInit ELSE pair = APair /\ edit = FALSE /\ rendered = NotShown
  /\ Output!Init /\ (part # "output" => left = AnyRun)

TextNext ==
  /\ UNCHANGED part
  /\ \/ /\ part = "cache" /\ Next
        /\ UNCHANGED <<batchVars, replaceVars, diffVars, outputVars>>
     \/ /\ part = "batch" /\ BatchNext
        /\ UNCHANGED <<vars, replaceVars, diffVars, outputVars>>
     \/ /\ part = "replace" /\ Fuzzy!Next
        /\ UNCHANGED <<vars, batchVars, diffVars, outputVars>>
     \/ /\ part = "diff" /\ DiffNext
        /\ UNCHANGED <<vars, batchVars, replaceVars, outputVars>>
     \/ /\ part = "output" /\ Output!Next
        /\ UNCHANGED <<vars, batchVars, replaceVars, diffVars>>

TextSpec == TextInit /\ [][TextNext]_<<part, vars, batchVars, replaceVars, diffVars, outputVars>>

OnlyTheMatchIsReplaced == Fuzzy!OnlyTheMatchIsReplaced
FuzzyReplacesItsLines == Fuzzy!FuzzyReplacesItsLines
ShiftNoteIsRight == Fuzzy!ShiftNoteIsRight
OmittedIsNoise == Output!OmittedIsNoise
CutOutputIsRefused == Output!CutOutputIsRefused
=============================================================================
