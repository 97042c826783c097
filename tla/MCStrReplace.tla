---------------------------- MODULE MCStrReplace ----------------------------
EXTENDS StrReplace

Empty == <<>>
Some == {<<>>, NewLines(<<<<"a">>, <<"b">>>>, LF)}

Nothings == {[old |-> old, new |-> <<"b">>, all |-> FALSE] : old \in {<<>>, <<" ">>}}
=============================================================================
