---------------------------- MODULE DockerDigest ---------------------------
(* mcp/fs/digest/docker.rs: which lines of a docker build's output are     *)
(* shown, for BuildKit and for the legacy builder.                         *)
EXTENDS DigestLines

NewStep(line, i) ==
  [header |-> line.name, runs |-> line.look \in {"run header", "run step"},
   indices |-> {i}, state |-> "Active", diagnostic |-> FALSE]

Headers == {"header", "run header", "export"}

BuildkitStart ==
  [ok |-> TRUE, steps |-> <<>>, positions |-> {}, total |-> 0, kept |-> {},
   naming |-> 0, final |-> FALSE, recap |-> FALSE, next |-> 2]

\* The steps in one of these states.
StepsIn(s, states) == {id \in DOMAIN s.steps : s.steps[id].state \in states}

\* The line after the recap of a failure that begins at `start`, or 0: its
\* title names a failed step, a log follows, then the place in the Dockerfile
\* with the line at fault marked.
FailureRecap(lines, start, s) ==
  LET close == NextOf(lines, start + 2, {"rule"})
      shut == NextOf(lines, close + 3, {"bar"})
      Looks(from, to) == {lines[j].look : j \in from..to}
  IN  IF /\ start + 1 <= Len(lines)
         /\ lines[start + 1].look = "title"
         /\ \E id \in StepsIn(s, {"Failed"}) : s.steps[id].header = lines[start + 1].name
         /\ Looks(start + 2, close - 1) \subseteq {"log", "blank"}
         /\ shut <= Len(lines)
         /\ lines[close + 1].look = "place"
         /\ lines[close + 2].look = "bar"
         /\ Looks(close + 3, shut - 1) \subseteq {"source", "marked"}
         /\ "marked" \in Looks(close + 3, shut - 1)
      THEN shut + 1
      ELSE 0

Recap(lines, s, i) ==
  LET end == FailureRecap(lines, i, s)
  IN  IF s.recap \/ StepsIn(s, {"Failed"}) = {} \/ end = 0 THEN Refuse(s)
      ELSE [s EXCEPT !.kept = @ \union (i..(end - 1)), !.next = end, !.recap = TRUE]

Push(s, id, i) == [s EXCEPT !.steps[id].indices = @ \union {i}]

\* Seeded fault: a redrawn line goes to any step that is running a command.
OwnersAny(s) ==
  LET running == {id \in StepsIn(s, {"Active"}) : s.steps[id].runs}
  IN  IF running = {} THEN {} ELSE {Min(running)}

\* The steps a redrawn progress line without a prefix can come from.
Owners(s) == {id \in StepsIn(s, {"Active"}) : s.steps[id].runs}

Redrawn(s, i) ==
  IF Cardinality(Owners(s)) = 1 THEN Push(s, CHOOSE id \in Owners(s) : TRUE, i)
                                ELSE Refuse(s)

\* A header, new or repeated when a suspended step goes on.
HeaderLine(s, line, i) ==
  LET build == line.n # <<>>
      counted == [s EXCEPT !.total = IF build THEN line.n[2] ELSE @,
                           !.positions = IF build THEN @ \union {line.n[1]} ELSE @]
      known == line.id \in DOMAIN s.steps
  IN  IF build /\ s.total \notin {0, line.n[2]} THEN Refuse(s)
      ELSE IF ~known THEN [counted EXCEPT !.steps = (line.id :> NewStep(line, i)) @@ @]
      ELSE IF \/ s.steps[line.id].header # line.name
              \/ s.steps[line.id].state \in {"Failed", "Canceled"}
      THEN Refuse(s)
      ELSE [Push(counted, line.id, i) EXCEPT !.steps[line.id].state = "Active"]

Become(s, id, state) == [s EXCEPT !.steps[id].state = state]

\* A line of a step that is under way.
BodyLine(s, line, i) ==
  LET t == Push(s, line.id, i)
  IN  IF line.id \notin StepsIn(s, {"Active"}) THEN Refuse(s)
      ELSE IF line.look = "done" THEN Become(t, line.id, "Done")
      ELSE IF line.look = "cached" THEN Become(t, line.id, "Cached")
      ELSE IF line.look = "canceled" THEN Become(t, line.id, "Canceled")
      ELSE IF line.look = "error" THEN Become(t, line.id, "Failed")
      ELSE IF line.look = "log" THEN
        [t EXCEPT !.steps[line.id].diagnostic = @ \/ line.tone = "diagnostic"]
      ELSE IF line.look = "naming" THEN
        IF s.steps[line.id].header = "exporting to image"
        THEN [t EXCEPT !.naming = line.id, !.kept = @ \union {i}]
        ELSE Refuse(s)
      ELSE IF line.look \in {"pause", "metadata"} THEN t
      ELSE Refuse(s)

BuildkitStep(lines, s, i) ==
  LET line == lines[i]
  IN  IF ~s.ok \/ i < s.next \/ line.look = "blank" THEN s
      ELSE IF s.final THEN Refuse(s)
      ELSE IF line.look = "rule" THEN Recap(lines, s, i)
      ELSE IF line.look = "failed to solve" THEN
        IF s.recap THEN [s EXCEPT !.kept = @ \union {i}, !.final = TRUE] ELSE Refuse(s)
      ELSE IF s.recap THEN Refuse(s)
      ELSE IF line.look = "redrawn" THEN Redrawn(s, i)
      ELSE IF line.id = 0 THEN Refuse(s)
      ELSE IF line.look \in Headers THEN HeaderLine(s, line, i)
      ELSE BodyLine(s, line, i)

\* Seeded fault: a success needs the exported image only.
BuildIsOverUncounted(s) ==
  /\ DOMAIN s.steps # {}
  /\ IF s.final THEN s.naming = 0 ELSE s.naming # 0

\* No step is under way, and the build was exported or its failure told.
BuildIsOver(s) ==
  /\ DOMAIN s.steps # {}
  /\ StepsIn(s, {"Active"}) = {}
  /\ IF s.final THEN s.naming = 0
     ELSE /\ s.naming # 0
          /\ s.steps[s.naming].state = "Done"
          /\ s.total # 0 /\ Cardinality(s.positions) = s.total
          /\ StepsIn(s, {"Failed", "Canceled"}) = {}

ShownOf(s) ==
  LET shown == StepsIn(s, {"Failed", "Canceled"})
                 \union {id \in DOMAIN s.steps : s.steps[id].diagnostic}
  IN  IF s.ok /\ BuildIsOver(s)
      THEN Selection(s.kept \union UNION {s.steps[id].indices : id \in shown}, {})
      ELSE Nothing

Buildkit(lines) ==
  ShownOf(FoldLeft(LAMBDA t, i : BuildkitStep(lines, t, i), BuildkitStart, Indices(lines)))

-----------------------------------------------------------------------------
(* The legacy builder: one step at a time, over both streams in a row.     *)

NoStep == NewStep([look |-> "none", name |-> ""], 0)
LegacyStart ==
  [ok |-> TRUE, kept |-> {}, active |-> FALSE, step |-> NoStep, expected |-> 1,
   total |-> 0, terminal |-> "none", sending |-> FALSE, deprecated |-> FALSE]

\* What is shown of the step that ends here.
KeptOf(s) == IF s.active /\ s.step.diagnostic THEN s.step.indices ELSE {}

LegacyHeader(s, line, i) ==
  IF /\ line.n[1] = s.expected /\ line.n[1] <= line.n[2]
     /\ s.total \in {0, line.n[2]}
     /\ s.active => s.step.state = "Done"
  THEN [s EXCEPT !.kept = @ \union KeptOf(s), !.total = line.n[2], !.expected = @ + 1,
                 !.active = TRUE, !.step = NewStep(line, i)]
  ELSE Refuse(s)

CommandFailed(s, line, i) ==
  IF s.active /\ s.step.state = "Active" /\ s.step.runs /\ s.step.header = line.name
  THEN [s EXCEPT !.kept = @ \union s.step.indices \union {i}, !.active = FALSE,
                 !.terminal = "Failed"]
  ELSE Refuse(s)

Built(s, i) ==
  IF s.active /\ s.step.state = "Done" /\ s.expected - 1 = s.total
  THEN [s EXCEPT !.kept = @ \union KeptOf(s) \union {i}, !.active = FALSE,
                 !.terminal = "Done"]
  ELSE Refuse(s)

LegacyBody(s, line, i) ==
  LET t == [s EXCEPT !.step.indices = @ \union {i}]
  IN  IF ~s.active THEN Refuse(s)
      ELSE IF line.look = "image" THEN [t EXCEPT !.step.state = "Done"]
      ELSE IF line.look = "container" THEN t
      ELSE IF s.step.state = "Active" /\ s.step.runs THEN
        [t EXCEPT !.step.diagnostic = @ \/ line.tone = "diagnostic"]
      ELSE Refuse(s)

LegacyStep(lines, s, i) ==
  LET line == lines[i]
  IN  IF ~s.ok THEN s
      ELSE IF line.look = "deprecated" THEN
        IF s.deprecated THEN Refuse(s)
        ELSE [s EXCEPT !.kept = @ \union {i}, !.deprecated = TRUE]
      ELSE IF line.look = "blank" THEN
        IF s.active THEN [s EXCEPT !.step.indices = @ \union {i}] ELSE s
      ELSE IF s.terminal # "none" THEN
        IF s.terminal = "Done" /\ line.look = "tagged"
        THEN [s EXCEPT !.kept = @ \union {i}] ELSE Refuse(s)
      ELSE IF line.look = "sending" THEN
        IF s.sending \/ s.active THEN Refuse(s) ELSE [s EXCEPT !.sending = TRUE]
      ELSE IF line.look \in {"step", "run step"} THEN LegacyHeader(s, line, i)
      ELSE IF line.look = "non-zero code" THEN CommandFailed(s, line, i)
      ELSE IF line.look = "built" THEN Built(s, i)
      ELSE LegacyBody(s, line, i)

Legacy(out, err) ==
  LET lines == out \o err
      Split(s) == IF s.ok /\ s.terminal # "none" /\ ~s.active
                  THEN Selection(s.kept \intersect DOMAIN out,
                                 {i - Len(out) : i \in s.kept \ DOMAIN out})
                  ELSE Nothing
  IN  Split(FoldLeft(LAMBDA t, i : LegacyStep(lines, t, i), LegacyStart, Indices(lines)))

IsBuildkit(lines) == lines # <<>> /\ lines[1].look = "banner"

SelectDocker(out, err) ==
  CASE IsBuildkit(out) /\ err = <<>> -> Buildkit(out)
    [] IsBuildkit(err) /\ out = <<>> ->
         LET selected == Buildkit(err)
         IN  IF selected.ok THEN Selection({}, selected.out) ELSE Nothing
    [] OTHER -> Legacy(out, err)
=============================================================================
