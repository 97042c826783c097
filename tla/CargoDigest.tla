---------------------------- MODULE CargoDigest ----------------------------
(* mcp/fs/digest/cargo.rs: which lines of a cargo run's output are shown.  *)
(* Each parser is a fold over the line numbers; `ok` is FALSE once the     *)
(* code would have returned None.                                          *)
EXTENDS DigestLines

LibtestStart ==
  [ok |-> TRUE, active |-> FALSE, start |-> 0, expected |-> 0, passed |-> 0,
   ignored |-> 0, failed |-> <<>>, section |-> 0, kept |-> {}, suites |-> <<>>]

\* The section between `section` and line i reports every failed test, and
\* lists it after the last "failures:".
FailuresReported(lines, s, i) ==
  LET titles == {j \in s.section..(i - 1) : lines[j].look = "failures"}
  IN  /\ s.section # 0
      /\ Max(titles) # s.section
      /\ \A t \in ToSet(s.failed) :
           /\ \E j \in s.section..(i - 1) : lines[j].look = "report" /\ lines[j].name = t
           /\ \E j \in (Max(titles) + 1)..(i - 1) :
                lines[j].look = "named" /\ lines[j].name = t

\* The summary (passed, failed, ignored) of a suite.
EndSuite(lines, s, i) ==
  IF /\ s.active
     /\ lines[i].n = <<s.passed, Len(s.failed), s.ignored>>
     /\ s.passed + Len(s.failed) + s.ignored = s.expected
     /\ IF s.failed # <<>> THEN FailuresReported(lines, s, i) ELSE s.section = 0
  THEN [s EXCEPT !.active = FALSE, !.section = 0,
          !.kept = @ \union {i} \union (IF s.failed # <<>> THEN {s.start} ELSE {}),
          !.suites = Append(@, s.failed # <<>>)]
  ELSE Refuse(s)

TestLine(s, line, i) ==
  LET kept == [s EXCEPT !.kept = IF Important(line) THEN @ \union {i} ELSE @]
  IN  CASE line.n = <<"ok">>      -> [kept EXCEPT !.passed = @ + 1]
        [] line.n = <<"FAILED">>  -> [kept EXCEPT !.failed = Append(@, line.name)]
        [] line.n = <<"ignored">> -> [kept EXCEPT !.ignored = @ + 1]
        [] OTHER                  -> Refuse(s)

LibtestStep(lines, s, i) ==
  LET line == lines[i]
  IN  IF ~s.ok THEN s
      ELSE IF line.look = "result" THEN EndSuite(lines, s, i)
      ELSE IF s.active /\ s.section # 0 THEN [s EXCEPT !.kept = @ \union {i}]
      ELSE IF line.look = "blank" THEN s
      ELSE IF line.look = "running" THEN
        IF s.active THEN Refuse(s)
        ELSE [LibtestStart EXCEPT !.active = TRUE, !.start = i,
                !.expected = line.n[1], !.kept = s.kept, !.suites = s.suites]
      ELSE IF ~s.active THEN Refuse(s)
      ELSE IF line.look = "failures" /\ s.failed # <<>> THEN
        [s EXCEPT !.section = i, !.kept = @ \union {i}]
      ELSE IF line.look = "test" THEN TestLine(s, line, i)
      ELSE Refuse(s)

Finished(s) == [s EXCEPT !.ok = @ /\ ~s.active]
Libtest(lines) ==
  Finished(FoldLeft(LAMBDA t, i : LibtestStep(lines, t, i), LibtestStart, Indices(lines)))

-----------------------------------------------------------------------------
Control == {"finished", "progress", "header"}
Known == Control \union DiagnosticLooks \union {"blank", "explained"}

\* The line after a diagnostic: past the next blank line, and past the
\* paragraphs of causes that follow it, up to a line of cargo's own.
DiagnosticEnd(lines, start) ==
  LET Past(i) == Min({i + 1, Len(lines) + 1})
      Chain[from \in 1..(Len(lines) + 1)] ==
        LET next == Min({j \in from..Len(lines) : lines[j].look # "blank"}
                        \union {Len(lines) + 1})
            over == NextOf(lines, next + 1, {"blank"} \union Control)
        IN  IF next > Len(lines) \/ lines[next].look \notin {"caused by", "failed to"}
            THEN from
            ELSE IF over <= Len(lines) /\ lines[over].look \in Control THEN over
            ELSE Chain[Past(over)]
  IN  Chain[Past(NextOf(lines, start + 1, {"blank"}))]

CargoStart ==
  [ok |-> TRUE, terminal |-> FALSE, pending |-> FALSE, headers |-> 0, kept |-> {},
   next |-> 1]

\* A line inside a diagnostic still counts for the run as a whole.
InDiagnostic(lines, s, i, suites) ==
  LET look == lines[i].look
      over == look \in {"finished", "compile failed"}
  IN  [s EXCEPT !.ok = @ /\ (look = "test failed" => TRUE \in ToSet(suites)),
                !.pending = (@ \/ look = "progress") /\ ~over,
                !.terminal = @ \/ over,
                !.headers = IF look = "header" THEN @ + 1 ELSE @,
                !.kept = @ \union {i}]

CargoStep(lines, s, i, suites) ==
  LET line == lines[i]
      Keep(on) == IF on THEN s.kept \union {i} ELSE s.kept
  IN  IF ~s.ok \/ i < s.next THEN s
      ELSE IF line.look \in DiagnosticLooks THEN
        LET end == DiagnosticEnd(lines, i)
        IN  [FoldLeft(LAMBDA t, j : InDiagnostic(lines, t, j, suites), s,
                      [k \in 1..(end - i) |-> i + k - 1]) EXCEPT !.next = end]
      ELSE IF line.look = "finished" THEN
        [s EXCEPT !.terminal = TRUE, !.pending = FALSE, !.kept = Keep(TRUE)]
      ELSE IF line.look = "progress" THEN
        [s EXCEPT !.pending = TRUE, !.kept = Keep(Important(line))]
      ELSE IF line.look = "header" THEN
        IF s.headers >= Len(suites) THEN Refuse(s)
        ELSE [s EXCEPT !.headers = @ + 1,
                !.kept = Keep(suites[s.headers + 1] \/ Important(line))]
      ELSE IF line.look = "explained" THEN [s EXCEPT !.kept = Keep(TRUE)]
      ELSE IF line.look = "blank" THEN s
      ELSE Refuse(s)

\* Seeded fault: a build whose last unit is still compiling is taken as over.
CompleteUnlessHeaders(lines, s, suites) ==
  /\ s.headers \in {0, Len(suites)}
  /\ lines # <<>> /\ ~s.terminal => suites # <<>>

\* What must hold of the whole stream besides every line being known.
Complete(lines, s, suites) ==
  LET said == {i \in DOMAIN lines : lines[i].look # "blank"}
  IN  /\ ~s.pending
      /\ s.headers \in {0, Len(suites)}
      /\ lines # <<>> /\ ~s.terminal => suites # <<>>
      /\ said # {} => lines[Max(said)].look
                        \in {"finished", "compile failed", "test failed", "header"}

Cargo(lines, suites) ==
  LET Judged(s) == [s EXCEPT !.ok = @ /\ Complete(lines, s, suites)]
  IN  Judged(FoldLeft(LAMBDA t, i : CargoStep(lines, t, i, suites), CargoStart,
                      Indices(lines)))

SelectStreams(out, err) ==
  LET tests == Libtest(out)
      With(cargo) == IF tests.ok /\ cargo.ok /\ (tests.suites # <<>> \/ cargo.terminal)
                     THEN Selection(tests.kept, cargo.kept)
                     ELSE Nothing
  IN  With(Cargo(err, tests.suites))

-----------------------------------------------------------------------------
(* Both streams in one: a line is the test harness's or cargo's.           *)

Harness == {"failures", "running", "test", "result"}

SortStep(lines, s, i) ==
  LET line == lines[i]
  IN  IF ~s.ok \/ i < s.next THEN s
      ELSE IF s.failures \/ line.look \in Harness THEN
        [s EXCEPT !.tests = Append(@, i),
                  !.failures = CASE line.look = "failures" -> TRUE
                                 [] line.look = "result"   -> FALSE
                                 [] OTHER                  -> @]
      ELSE IF line.look \notin Known THEN Refuse(s)
      ELSE LET end == IF line.look \in DiagnosticLooks THEN DiagnosticEnd(lines, i)
                                                       ELSE i + 1
           IN  [s EXCEPT !.cargo = @ \o [k \in 1..(end - i) |-> i + k - 1], !.next = end]

\* What was selected of the two kinds of lines, in their common stream.
InOneStream(s, selected) ==
  IF s.ok /\ selected.ok
  THEN Selection({s.tests[k] : k \in selected.out} \union {s.cargo[k] : k \in selected.err},
                 {})
  ELSE Nothing

Merged(lines) ==
  LET At(indices) == [k \in DOMAIN indices |-> lines[indices[k]]]
      Sorted(s) == InOneStream(s, SelectStreams(At(s.tests), At(s.cargo)))
  IN  Sorted(FoldLeft(LAMBDA t, i : SortStep(lines, t, i),
                      [ok |-> TRUE, tests |-> <<>>, cargo |-> <<>>, failures |-> FALSE,
                       next |-> 1],
                      Indices(lines)))

SelectCargo(out, err) == IF err = <<>> THEN Merged(out) ELSE SelectStreams(out, err)
=============================================================================
