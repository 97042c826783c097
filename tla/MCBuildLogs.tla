---------------------------- MODULE MCBuildLogs ----------------------------
(* What cargo and docker print, for the runs about output digests. *)
EXTENDS DigestLines

\* Small helpers that put the truth about a line on it.
Matter(lines) == [i \in DOMAIN lines |-> [lines[i] EXCEPT !.own = "matter"]]
MatterIf(on, lines) == IF on THEN Matter(lines) ELSE lines
Begin(line) == [line EXCEPT !.mark = "begin"]
End(line) == [line EXCEPT !.mark = "end"]
Look(look) == <<Line(look)>>
On(stream, lines) == [i \in DOMAIN lines |-> [lines[i] EXCEPT !.to = stream]]

(* cargo test *)

Test(name, outcome) == [Line("test") EXCEPT !.name = name, !.n = <<outcome>>]
Named(look, name) == [Line(look) EXCEPT !.name = name]
Running(n) == [Line("running") EXCEPT !.n = <<n>>]
Result(tests) ==
  LET Of(v) == Cardinality({i \in DOMAIN tests : tests[i] = v})
  IN  [Line("result") EXCEPT !.n = <<Of("ok"), Of("FAILED"), Of("ignored")>>]
TestNames == <<"a", "b">>
Fails(tests) == "FAILED" \in ToSet(tests)

Report(tests, captured) ==
  LET failed == SelectSeq(<<1, 2>>, LAMBDA i : i \in DOMAIN tests /\ tests[i] = "FAILED")
      Each(look, more) == FlattenSeq([i \in DOMAIN failed |->
                            <<Named(look, TestNames[failed[i]])>> \o more])
  IN  Look("blank") \o Look("failures") \o Look("blank")
        \o Each("report", <<captured>> \o Look("blank"))
        \o Look("failures") \o Each("named", <<>>)

SuiteLines(tests, captured, stream) ==
  LET bad == Fails(tests)
  IN  On(stream, MatterIf(bad, <<Begin(Line("header"))>>))
      \o MatterIf(bad, <<Running(Len(tests))>>)
      \o FlattenSeq([i \in DOMAIN tests |->
           MatterIf(tests[i] = "FAILED", <<Test(TestNames[i], tests[i])>>)])
      \o (IF bad THEN Matter(Report(tests, captured)) ELSE <<>>)
      \o Look("blank") \o Matter(<<End(Result(tests))>>)

Warning == Matter(Look("warning") \o Look("text")) \o Look("blank")
CausedBy == Matter(Look("failed to") \o Look("blank") \o Look("caused by") \o Look("detail"))
              \o Look("blank")
Compiling(more, last) ==
  <<Begin(Line("progress"))>> \o more \o Look("progress") \o Matter(<<End(Line(last))>>)

Suites == {<<>>, <<"ok">>, <<"FAILED">>, <<"ok", "FAILED">>, <<"ignored", "ok">>}
Captured == {Line("text"), Line("failures"), Result(<<"FAILED">>), Line("progress")}

MCCargo ==
  {<<<<On(stream, Compiling(more, "finished")) \o SuiteLines(one, captured, stream)
       \o (IF Fails(one) THEN On(stream, Look("blank") \o Matter(Look("test failed")))
           ELSE SuiteLines(two, Line("text"), stream)
                \o (IF Fails(two) THEN On(stream, Matter(Look("test failed"))) ELSE <<>>))>>>> :
     stream \in {"out", "err"}, more \in {<<>>, Warning, Warning \o CausedBy},
     one \in Suites, captured \in Captured, two \in {<<"ok">>, <<"FAILED">>}}
  \union {<<<<On(stream, Compiling(more, "compile failed") \o Matter(Look("blank") \o end))>>>> :
            stream \in {"out", "err"}, more \in {<<>>, Warning},
            end \in {<<>>, Look("explained")}}

(* docker build, BuildKit *)

Of(id, lines) == [i \in DOMAIN lines |->
                   [lines[i] EXCEPT !.by = id, !.id = IF lines[i].look = "redrawn" THEN 0 ELSE id]]
Log(tone) == [Line("log") EXCEPT !.tone = tone]
Header(look, name, n) == Begin([Line(look) EXCEPT !.name = name, !.n = n])

Bodies ==
  [good     |-> <<Log("quiet"), End(Line("done"))>>,
   loud     |-> <<Log("loud"), End(Line("done"))>>,
   warned   |-> Matter(<<Log("diagnostic"), Line("redrawn"), End(Line("done"))>>),
   redrawn  |-> <<Line("redrawn"), End(Line("done"))>>,
   cached   |-> <<End(Line("cached"))>>,
   failed   |-> Matter(<<Line("redrawn"), End(Line("error"))>>),
   canceled |-> Matter(<<Log("quiet"), End(Line("canceled"))>>)]
Commands == <<"RUN one", "RUN two">>

BuildStep(k, body) ==
  Of(k + 1, MatterIf(Bodies[body][1].own = "matter",
                     <<Header("run header", Commands[k], <<k, 2>>)>>) \o Bodies[body])
Load == Of(1, <<Header("header", "load", <<>>), Line("metadata"), End(Line("done"))>>)
Export == Of(4, <<Header("export", "exporting to image", <<>>), Line("metadata")>>
                \o Matter(<<End(Line("naming"))>>) \o <<End(Line("done"))>>)
FailureOf(k) ==
  Matter(Look("blank") \o Look("rule") \o <<Named("title", Commands[k])>> \o <<Log("quiet")>>
         \o Look("rule") \o Look("place") \o Look("bar") \o Look("source") \o Look("marked")
         \o Look("bar") \o <<End(Line("failed to solve"))>>)
Banner == <<[Begin(Line("banner")) EXCEPT !.own = "noise"]>>

BuildkitRuns ==
  {<<<<Banner>>, <<Load>>, <<BuildStep(1, b[1]), BuildStep(2, b[2])>>,
     IF "failed" \in ToSet(b) THEN <<FailureOf(IF b[1] = "failed" THEN 1 ELSE 2)>>
     ELSE <<Export>>>> :
     b \in {c \in [1..2 -> DOMAIN Bodies] :
              /\ ~(c[1] = "failed" /\ c[2] = "failed")
              /\ "canceled" \in ToSet(c) => "failed" \in ToSet(c)}}

(* docker build, legacy builder *)

Sent == Begin(Line("sending"))
Numbered(look, name, k) == [Line(look) EXCEPT !.name = name, !.n = <<k, 2>>]
Said(tone) == [Line("text") EXCEPT !.tone = tone]
Forged == {Line("image"), Line("built"), Numbered("step", "FROM", 2)}
Logs == {<<Said("quiet")>>, <<Said("diagnostic"), Line("blank"), Said("quiet")>>}
          \union {<<f>> : f \in Forged} \union {<<f, Said("diagnostic")>> : f \in Forged}

LegacyRuns ==
  {<<<<notice \o <<Sent, Numbered("step", "FROM", 1), Line("image")>>
       \o MatterIf(fails \/ Last(log).tone = "diagnostic" \/ log[1].tone = "diagnostic",
            <<Numbered("run step", "RUN", 2), Line("container")>> \o log
              \o (IF fails THEN <<End(Named("non-zero code", "RUN"))>> ELSE Look("image")))
       \o (IF fails THEN <<>>
           ELSE Matter(<<End(Line("built")), Line("tagged")>>))>>>> :
     notice \in {<<>>, On("err", Matter(Look("deprecated")))}, log \in Logs, fails \in BOOLEAN}

MCRuns == MCCargo \union BuildkitRuns \union LegacyRuns
MCProgramLines ==
  {[line EXCEPT !.to = stream] :
     stream \in {"out", "err"},
     line \in {Line("text"), Test("b", "ok"), Line("progress"), Line("header"),
               Line("warning"), Line("failures"), Line("finished")}}
=============================================================================
