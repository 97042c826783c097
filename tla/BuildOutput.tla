---------------------------- MODULE BuildOutput ----------------------------
(* The output of a cargo run or a docker build as it comes in, from tools  *)
(* that may be cut off at any line and whose programs print lines of their *)
(* own, and the digest octofs makes of it (mcp/fs/digest/mod.rs).          *)
(*                                                                         *)
(* A run is a sequence of stages; the scripts of a stage print in any      *)
(* order, those of the next stage when all of it is printed.               *)
EXTENDS DigestLines

CONSTANTS
  Runs,          \* what the tools print
  ProgramLines,  \* what a test may print between the harness's lines
  MaxIntrusions  \* bound: how often it does

Cargo == INSTANCE CargoDigest
Docker == INSTANCE DockerDigest

VARIABLES
  left,    \* the stages still to be printed
  out,     \* standard output
  err,     \* standard error
  shown    \* the digest's answer, <<>> before

vars == <<left, out, err, shown>>

Init == left \in Runs /\ out = <<>> /\ err = <<>> /\ shown = <<>>

-----------------------------------------------------------------------------
(* The tools.                                                              *)

Emit(line) ==
  IF line.to = "out" THEN out' = Append(out, line) /\ err' = err
                     ELSE err' = Append(err, line) /\ out' = out

HeadersOf(step) ==
  {i \in DOMAIN out : out[i].by = step /\ out[i].look \in Docker!Headers}

\* What BuildKit prints ahead of a line of another step than the last one:
\* a suspended step says so, a resumed one repeats its header.
Resumption(line) ==
  IF out = <<>> \/ Last(out).by \in {0, line.by} THEN <<>>
  ELSE LET pause == IF Last(out).mark = "end" THEN <<>>
                    ELSE <<[Line("pause") EXCEPT !.id = Last(out).by, !.own = Last(out).own]>>
           again == IF HeadersOf(line.by) = {} THEN <<>>
                    ELSE <<[out[Min(HeadersOf(line.by))] EXCEPT !.mark = "none"]>>
       IN  pause \o <<Line("blank")>> \o again

Say(k) ==
  /\ left # <<>> /\ shown = <<>>
  /\ k \in DOMAIN Head(left) /\ Head(left)[k] # <<>>
  /\ LET line == Head(Head(left)[k])
         rest == [Head(left) EXCEPT ![k] = Tail(@)]
     IN  /\ IF line.by = 0 THEN Emit(line)
            ELSE out' = out \o Resumption(line) \o <<line>> /\ err' = err
         /\ left' = IF \A j \in DOMAIN rest : rest[j] = <<>> THEN Tail(left)
                    ELSE <<rest>> \o Tail(left)
  /\ UNCHANGED shown

\* How many of the lines printed so far, on either stream, have a feature.
Printed == out \o err
PrintedAs(look) ==
  Cardinality({i \in DOMAIN Printed : Printed[i].own # "program" /\ Printed[i].look = look})
Marked(mark) == Cardinality({i \in DOMAIN Printed : Printed[i].mark = mark})
Intrusions == Cardinality({i \in DOMAIN Printed : Printed[i].own = "program"})

TestsRun == PrintedAs("running") > PrintedAs("result")

Intrude(line) ==
  /\ shown = <<>> /\ TestsRun
  /\ Intrusions < MaxIntrusions
  /\ Emit([line EXCEPT !.own = "program"])
  /\ UNCHANGED <<left, shown>>

-----------------------------------------------------------------------------
(* The digest.                                                             *)

\* digest_with: the first parser that recognizes the output decides.
DigestWith(stdout, stderr) ==
  LET Either(first, second) == IF first.ok THEN first ELSE second
      Verified(s) == IF /\ s.ok
                        /\ ValidSelection(stdout, s.out)
                        /\ ValidSelection(stderr, s.err)
                        /\ s.out \union s.err # {}
                     THEN s ELSE Nothing
  IN  Verified(Either(Cargo!SelectCargo(stdout, stderr), Docker!SelectDocker(stdout, stderr)))

\* The command has ended or was stopped; a digest that saves too little is
\* dropped for the output itself.
Digest(saves) ==
  /\ shown = <<>>
  /\ shown' = <<IF saves THEN DigestWith(out, err) ELSE Nothing>>
  /\ UNCHANGED <<left, out, err>>

Next ==
  \/ \E k \in 1..2 : Say(k)
  \/ \E line \in ProgramLines : Intrude(line)
  \/ \E saves \in BOOLEAN : Digest(saves)

Spec == Init /\ [][Next]_vars

-----------------------------------------------------------------------------
(* Properties.                                                             *)

Accepted == shown # <<>> /\ shown[1].ok

Omitted(lines, kept) == {i \in DOMAIN lines \ kept : lines[i].look # "blank"}

\* A digest leaves out nothing but the tools' own progress: every line of a
\* failed test's report, of its suite's header and summary, of a step that
\* failed, was canceled or gave a diagnostic, and what a test printed among
\* the harness's lines is in it, whatever those lines look like
\* (mod.rs: "Verified, conservative selections").
OmittedIsNoise ==
  Accepted => /\ \A i \in Omitted(out, shown[1].out) : out[i].own = "noise"
              /\ \A i \in Omitted(err, shown[1].err) : err[i].own = "noise"

\* An output that ends inside a compilation, a test suite, a build or one of
\* its steps is never replaced by a digest (mod.rs: "an unknown or incomplete
\* stream returns None").
CutOutputIsRefused ==
  Accepted => Marked("begin") = Marked("end")
=============================================================================
