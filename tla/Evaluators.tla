------------------------------ MODULE Evaluators ------------------------------
(***************************************************************************)
(* The evaluators: which can be built, how a row evaluator scores one      *)
(* output, and which attempts of a benchmark's log become observations.    *)
(* Scores are in hundredths, an entry without one has NoScore; an          *)
(* observation is [item, value, slice].                                    *)
(***************************************************************************)
EXTENDS Integers, Sequences, FiniteSets

NoScore == -1

RolloutKinds == {"command", "inspect", "lm-eval"}
IsRollout(e) == e.kind \in RolloutKinds

\* A ref file.py:function.  A file that is there is unusable if the ref names no function,
\* if it has none of that name or if it cannot be imported.
RefProblem(ref) ==
  CASE ref = "here" -> "none" [] ref = "unusable" -> "unusable-ref" [] OTHER -> "bad-ref"

\* Why an evaluator cannot be built, or "none".
BuildProblem(e, tools) ==
  CASE e.kind = "labels" /\ e.value \notin {"none", "exact", "contains"} -> "bad-match"
    [] e.kind = "python" -> RefProblem(e.value)
    [] e.kind = "plugin" /\ e.value \notin tools -> "no-plugin"
    [] OTHER -> "none"

-----------------------------------------------------------------------------
(* Row evaluators *)

\* How the output's text compares with the label once both are in lower case and spaces
\* are joined: "same", "contains" it, or "differs".
LabelScore(match, label, comparison) ==
  IF label = "none" THEN 0
  ELSE IF comparison = "same" \/ {match, comparison} = {"contains"} THEN 100 ELSE 0

\* Tool calls are of a tool the row offers, with arguments that are JSON and fit its
\* schema; an output without calls that has to be JSON is, and fits the row's schema.
StructuralScore(x, output) ==
  LET CallOK(c) == /\ x.tools # {} => c.tool \in x.tools
                   /\ c.json /\ (c.tool \in x.tools => c.fits)
      TextOK    == output.json /\ (x.schema => output.fits)
  IN IF (\A c \in output.calls : CallOK(c)) /\ (output.calls = {} /\ (x.json \/ x.schema) => TextOK)
     THEN 100 ELSE 0

\* What a customer's function or service returned.
AsScore(x) == IF x.type = "bool" THEN (IF x.value THEN 100 ELSE 0) ELSE x.value

-----------------------------------------------------------------------------
(* Logs of benchmarks: observations are a function from positions of the   *)
(* log's entries.                                                          *)

First(positions) == CHOOSE i \in positions : \A j \in positions : i <= j

\* A command's scores: infrastructure errors are dropped, a line without a score is not
\* for this evaluator.
ParseScores(log) ==
  [i \in {j \in DOMAIN log : ~log[j].error /\ log[j].score # NoScore} |->
     [item |-> log[i].item, value |-> log[i].score, slice |-> log[i].slice]]

\* An Inspect log: a sample's score is the configured scorer's, else its first; letters
\* have values, what is not a number then is left out.
InspectValue(v) == CASE v.text = "C" -> 100 [] v.text \in {"I", "N"} -> 0 [] v.text = "P" -> 50
                     [] OTHER -> v.number
ScoreOf(s, scorer) ==
  LET named == {i \in DOMAIN s.scores : s.scores[i].scorer = scorer}
  IN InspectValue(s.scores[IF named # {} THEN First(named) ELSE 1].value)

ParseInspect(log, scorer, task) ==
  [i \in {j \in DOMAIN log : ~log[j].error /\ log[j].scores # << >> /\ ScoreOf(log[j], scorer) # NoScore} |->
     [item |-> log[i].id, value |-> ScoreOf(log[i], scorer), slice |-> task]]

\* lm-eval's samples of a task: one filter's rows, the metric that is asked for or the
\* first that is known; a row without one is left out.
LmEvalMetrics == <<"exact_match", "acc", "acc_norm", "f1", "em", "pass@1", "bleu">>
FilterOf(rows, filter) ==
  LET given == {i \in DOMAIN rows : rows[i].filter # "none"}
  IN IF filter # "none" \/ given = {} THEN filter ELSE rows[First(given)].filter
MetricOf(r, metric) ==
  LET known == {i \in DOMAIN LmEvalMetrics : LmEvalMetrics[i] \in DOMAIN r.metrics}
  IN IF metric \in DOMAIN r.metrics THEN metric ELSE IF known = {} THEN "none" ELSE LmEvalMetrics[First(known)]

ParseLmEval(task, rows, metric, filter) ==
  LET chosen == FilterOf(rows, filter)
  IN [i \in {j \in DOMAIN rows : (chosen = "none" \/ rows[j].filter \in {"none", chosen}) /\ MetricOf(rows[j], metric) # "none"} |->
        [item |-> <<task, rows[i].doc>>, value |-> rows[i].metrics[MetricOf(rows[i], metric)], slice |-> task]]

\* Whether a run of the benchmark ends without a log to read.
RolloutProblem(e, target, tools) ==
  IF target.kind = "openai" /\ e.kind \notin tools THEN "no-harness" ELSE "none"
=============================================================================
