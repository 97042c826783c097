---------------------------- MODULE DigestLines ----------------------------
(* What the output digests of mcp/fs/digest share: lines, and the check    *)
(* that a parser's selection leaves out nothing that must be shown.        *)
(*                                                                         *)
(* A line is what the parsers tell apart: its look (which of the prefixes  *)
(* and patterns it matches), the numbers and the name in it, and its tone  *)
(* ("loud": it contains a word of `important`; "diagnostic": docker.rs's   *)
(* own pattern matches as well).  `own`, `mark`, `by` and `to` are not in   *)
(* the text: they say who printed it where and why, for the properties.    *)
EXTENDS Naturals, Sequences, FiniteSets, SequencesExt, FiniteSetsExt

Line(look) ==
  [look |-> look, id |-> 0, name |-> "", n |-> <<>>, tone |-> "quiet",
   own |-> "noise", mark |-> "none", by |-> 0, to |-> "out"]

Indices(lines) == [i \in DOMAIN lines |-> i]

\* The first index from `from` on whose look is in `looks`; past the end if none.
NextOf(lines, from, looks) ==
  Min({i \in from..Len(lines) : lines[i].look \in looks} \union {Len(lines) + 1})

DiagnosticLooks == {"warning", "compile failed", "test failed"}

Important(line) ==
  \/ line.tone # "quiet"
  \/ line.look \in DiagnosticLooks \union
       {"finished", "result", "failures", "caused by", "failed to", "explained"}
  \/ line.look = "test" /\ line.n = <<"FAILED">>

\* Where a block that the line starts ends, its last line included.
BlockEnd(lines, i) ==
  CASE lines[i].look \in DiagnosticLooks ->
         Min({NextOf(lines, i + 1, {"blank"}), Len(lines)})
    [] lines[i].look = "caused by" ->
         LET over == Min({j \in (i + 1)..Len(lines) : lines[j].look # "detail"}
                         \union {Len(lines) + 1})
         IN  IF over <= Len(lines) /\ lines[over].look = "blank" THEN over ELSE over - 1
    [] lines[i].look \in {"failures", "report"} ->
         Min({NextOf(lines, i + 1, {"result"}), Len(lines)})
    [] OTHER -> i

Required(lines) ==
  LET starts == {i \in DOMAIN lines : Important(lines[i]) \/ lines[i].look = "report"}
  IN  UNION {i..BlockEnd(lines, i) : i \in starts}

\* A selection is a set of indices, so order and repetition need no check.
ValidSelection(lines, kept) == Required(lines) \subseteq kept /\ kept \subseteq DOMAIN lines

Refuse(s) == [s EXCEPT !.ok = FALSE]
Nothing == [ok |-> FALSE, out |-> {}, err |-> {}]
Selection(out, err) == [ok |-> TRUE, out |-> out, err |-> err]
=============================================================================
