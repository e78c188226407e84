------------------------------ MODULE Evaluation ------------------------------
(***************************************************************************)
(* The gate's decision: observations of the candidate and the incumbent    *)
(* are averaged per item, paired, judged per split and slice, and all the  *)
(* judgements make the decision.                                           *)
(*                                                                         *)
(* Scores and differences are in hundredths.  The bootstrap is not         *)
(* computed: its bounds are any two values, in order, that means of        *)
(* resampled differences can have.                                         *)
(***************************************************************************)
EXTENDS Datasets, Evaluators

Least(S)    == CHOOSE x \in S : \A y \in S : x <= y
Greatest(S) == CHOOSE x \in S : \A y \in S : y <= x

\* The mean of the values of a function.
Average(f) == FoldFunction(LAMBDA x, sum : x + sum, 0, f) \div Cardinality(DOMAIN f)

\* Observations are a function from their positions.
Items(obs)  == {obs[i].item : i \in DOMAIN obs}
OfItem(obs, item) == {i \in DOMAIN obs : obs[i].item = item}

\* [item -> the mean of its trials, and the slice of the last]
ItemMeans(obs) ==
  [item \in Items(obs) |->
     LET trials == OfItem(obs, item)
     IN [mean |-> Average([i \in trials |-> obs[i].value]), slice |-> obs[Greatest(trials)].slice]]

-----------------------------------------------------------------------------
(* One judgement *)

\* A lower bound of the mean difference lies between the least and the greatest
\* difference; of those values, the ones that the judgement tells apart.
LowerBounds(diffs, gate) ==
  IF diffs = {} THEN {0}
  ELSE {b \in {Least(diffs), Greatest(diffs), gate.margin - 1, gate.margin, 0, 1} :
          Least(diffs) <= b /\ b <= Greatest(diffs)}

\* Whether n pairs pass: enough of them, the test, and the floor.
Passes(n, lower, mean, gate) ==
  LET Floor == \A min \in gate.min : mean >= min IN
  /\ n >= gate.minItems
  /\ CASE gate.test = "non-inferiority" -> lower >= gate.margin /\ Floor
       [] gate.test = "superiority"     -> lower > 0 /\ Floor
       [] gate.test = "threshold"       -> Floor

\* A judgement of items: how many, the best difference, and what it can say.
Judge(evaluator, split, slice, items, cand, inc, gate) ==
  LET n     == Cardinality(items)
      diffs == {cand[i].mean - inc[i].mean : i \in items}
      mean  == IF items = {} THEN 0 ELSE Average([i \in items |-> cand[i].mean])
  IN [evaluator |-> evaluator, split |-> split, slice |-> slice, n |-> n,
      best   |-> IF items = {} THEN 0 ELSE Greatest(diffs),
      passed |-> {Passes(n, lower, mean, gate) : lower \in LowerBounds(diffs, gate)}]

-----------------------------------------------------------------------------
(* All judgements *)

All == "all"

\* The items of an evaluator in a split: those that both targets have, all of them and,
\* when there is more than one slice, each slice.
Slices(cand, inc, perSlice) ==
  LET common == DOMAIN cand \cap DOMAIN inc
      names  == {cand[i].slice : i \in common} \ {""}
      Of(n)  == IF n = All THEN common ELSE {i \in common : cand[i].slice = n}
  IN [n \in {All} \cup (IF perSlice /\ Cardinality(names) > 1 THEN names ELSE {}) |-> Of(n)]

\* The judgements of an evaluator in a split, from the observations of both targets.
Judgements(evaluator, split, candObs, incObs, gate) ==
  LET cand   == ItemMeans(candObs)
      inc    == ItemMeans(incObs)
      slices == Slices(cand, inc, gate.perSlice)
  IN {Judge(evaluator, split, n, slices[n], cand, inc, gate) : n \in DOMAIN slices}

\* A row evaluator's observations of a target in a split: of its rows, those that the
\* target has an output for.
RowObservations(examples, splits, split, outputs, score) ==
  [i \in {j \in InSplits(examples, splits, {split}) : examples[j].id \in outputs} |->
     LET x == examples[i]
     IN [item |-> x.id, value |-> score[x], slice |-> IF splits.stratify THEN x.slice ELSE ""]]

\* A split of a row evaluator in which neither target has an output is not judged; a
\* benchmark is judged also if it observed nothing.
RowJudgements(e, examples, splits, outs, scores, gate) ==
  LET Obs(t, split) == RowObservations(examples, splits, split, outs[t], scores[t])
  IN UNION {Judgements(e.name, split, Obs("candidate", split), Obs("incumbent", split), gate) :
              split \in {s \in {"heldOut", "audit"} :
                           DOMAIN Obs("candidate", s) \cup DOMAIN Obs("incumbent", s) # {}}}

\* Mutant: a benchmark without observations is left out, as a row evaluator's split is.
ObservedJudgements(e, logs, gate) ==
  IF DOMAIN logs["candidate"] \cup DOMAIN logs["incumbent"] = {} THEN {}
  ELSE Judgements(e.name, "items", logs["candidate"], logs["incumbent"], gate)

RolloutJudgements(e, logs, gate) ==
  Judgements(e.name, "items", logs["candidate"], logs["incumbent"], gate)

\* What the judgements can come to.
Results(judged) ==
  {{[j EXCEPT !.passed = p[j]] : j \in judged} :
     p \in {f \in [judged -> BOOLEAN] : \A j \in judged : f[j] \in j.passed}}

Decision(results) ==
  LET overall == {r \in results : r.slice = All} IN
  IF results # {} /\ \A r \in results : r.passed THEN "pass"
  ELSE IF overall # {} /\ \A r \in overall : r.passed THEN "partial" ELSE "fail"
=============================================================================
