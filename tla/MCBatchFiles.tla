---------------------------- MODULE MCBatchFiles ----------------------------
(* Small files for the text tools, and the values of BatchEdit's parameters. *)
EXTENDS Sequences
Editable == INSTANCE EditableContent WITH Blank <- ""

\* "a" and "x" share a hash; "}" is structural noise.
MCTexts == {"", "}", "a", "b", "x", "y"}
MCHash == [t \in MCTexts |-> CASE t = "" -> "00" [] t = "}" -> "0f" [] t = "b" -> "b0"
                               [] t = "y" -> "c0" [] OTHER -> "a0"]

Ending(lines, ending) == Editable!NewLines(lines, ending)
Unended(lines) == [Ending(lines, Editable!LF) EXCEPT ![Len(lines)].ending = Editable!NoEnding]
MCFiles == {<<>>,
            Unended(<<"a", "b">>),
            Ending(<<"b", "">>, Editable!LF),
            Ending(<<"x">>, Editable!CRLF) \o Ending(<<"}">>, Editable!LF) \o Ending(<<"b">>, Editable!CRLF)}
MCContents == {<<>>, <<"x">>, <<"y", "b">>}
=============================================================================
