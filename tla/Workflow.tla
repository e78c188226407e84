------------------------------- MODULE Workflow -------------------------------
(***************************************************************************)
(* From ookami.yaml and a growing dataset to a version that passed its     *)
(* gate: commands and console requests load the file as it is then, train  *)
(* takes a snapshot, the worker gates with the file it loaded when it      *)
(* started.  The queue, the trainer and the registry's concurrency have    *)
(* modules of their own (JobQueue, TrainingPipeline, Registry).            *)
(***************************************************************************)
EXTENDS Evaluation, Planner, Interfaces

CONSTANTS
  Setups,      \* where things start: a set of [file, machine, rows, edits]
  Edits,       \* files that a user may write later
  Feed,        \* rows that may be appended to the dataset
  Outputs,     \* what a target may answer to a row
  Logs,        \* [kind of benchmark -> logs it may write]
  Requests,    \* requests that the console may get
  Model,       \* the Model that is trained
  MaxRows, MaxVersions   \* bounds

\* What the schema says of a Model's eval section: there is at most one, its numbers are
\* numbers, and a reference to Python code finds a function, a file without it or no file,
\* or is not given.
EvalsAreTyped(docs) ==
  \A i \in DOMAIN docs : docs[i].kind = "Model" =>
    /\ \A d, e \in docs[i].spec.eval : d = e
    /\ \A e \in docs[i].spec.eval :
         /\ {e.gate.margin, e.gate.minItems} \subseteq Int
         /\ \A k \in DOMAIN e.evaluators :
              "python" \in e.evaluators[k].keys => e.evaluators[k].value \in {"here", "unusable", "gone", "none"}

\* Scores are numbers.
ScoresAreNumbers(log, kind) ==
  /\ log \in Seq(ToSet(log))
  /\ \A i \in DOMAIN log :
       CASE kind = "command" -> log[i].score \in Int
         [] kind = "inspect" -> /\ log[i].scores \in Seq(ToSet(log[i].scores))
                                /\ \A k \in DOMAIN log[i].scores : log[i].scores[k].value.number \in Int
         [] kind = "lm-eval" -> \A metric \in DOMAIN log[i].metrics : log[i].metrics[metric] \in Int

ASSUME WorkflowAssumption ==
  /\ MaxRows \in Nat /\ MaxVersions \in Nat
  /\ \A s \in Setups :
       /\ s.rows \in Seq(ToSet(s.rows)) /\ Len(s.rows) <= MaxRows /\ s.edits \in Nat
       /\ {s.machine.params, s.machine.memory} \subseteq Nat \cup {Unknown}
  /\ \A file \in {s.file : s \in Setups} \cup Edits : \A docs \in file : docs \in Seq(ToSet(docs)) /\ EvalsAreTyped(docs)
  /\ \A out \in Outputs : out.verdict.type # "bool" => out.verdict.value \in Int
  /\ \A kind \in RolloutKinds : \A log \in Logs[kind] : ScoresAreNumbers(log, kind)

VARIABLES
  config,    \* what loading ookami.yaml as it is now gives
  machine,   \* [kind, tools, memory, params, prequantized]
  rows,      \* the dataset's rows
  versions,  \* the versions of the Model, a sequence
  keys,      \* names of the active keys
  submit,    \* a submission that has read the dataset and not yet hashed it, or Nobody
  worker,    \* the configuration of the worker, in a set of at most one
  reply,     \* status or exit code of the request that was just answered, or NoReply
  edits      \* edits that the user may still make (a bound)

vars == <<config, machine, rows, versions, keys, submit, worker, reply, edits>>

Nobody  == [via |-> "none"]
NoReply == -1
Via     == {"cli", "console"}

Reply(code) == reply' = code
\* A console request that reaches a handler: the file has a Platform with local storage.
Reaches(via) == via = "console" => Usable(config)

-----------------------------------------------------------------------------
(* Train *)

\* Why a submission is refused before it reads the data, or "none".
SubmitProblem(cfg) ==
  IF Model \notin DOMAIN cfg.models THEN "no-Model"
  ELSE LET m == cfg.models[Model] IN
       IF m.train = {} THEN "no-train"
       ELSE LET t == CHOOSE t \in m.train : TRUE IN
            IF t.recipe # "sft" THEN "recipe"
            ELSE IF \E p \in cfg.platform : p.backend # "local" THEN "backend"
            ELSE IF TrainerOf(t, machine) = "none" THEN "no-accelerator"
            ELSE IF ~HasWeights(m) THEN "no-weights"
            ELSE IF m.data = {} THEN "no-data"
            ELSE SourceProblem(CHOOSE d \in m.data : TRUE, cfg, rows, machine.tools)

TrainReply(via, cfg, problem) ==
  Reply(IF via = "console" THEN TrainCode(problem) ELSE TrainExit(cfg, problem))

\* The data has been read; its hash is taken from the file a moment later.
TrainBegins(via) ==
  /\ submit = Nobody /\ Reaches(via) /\ Len(versions) < MaxVersions
  /\ LET cfg     == config
         problem == IF via = "cli" /\ ~LoadOk(cfg) THEN "issues" ELSE SubmitProblem(cfg)
     IN IF problem # "none" THEN TrainReply(via, cfg, problem) /\ UNCHANGED submit
        ELSE /\ submit' = [via |-> via, cfg |-> cfg, examples |-> ToExamples(rows)]
             /\ reply' = NoReply
  /\ UNCHANGED <<config, machine, rows, versions, keys, worker, edits>>

\* Why the snapshot is not made, or the storage not found, or "none".
SnapshotProblem(cfg, examples) ==
  LET m == cfg.models[Model]
      d == CHOOSE d \in m.data : TRUE
  IN IF Cardinality(TrainingRows(examples, SplitsOfModel(m))) < d.minExamples THEN "not-ready"
     ELSE IF ~LocalStorage(cfg) THEN "remote-storage"
     ELSE IF cfg.platform = {} THEN "no-Platform" ELSE "none"

\* The version that a submission creates, in training.
NewVersion(cfg, examples, source) ==
  LET m    == cfg.models[Model]
      t    == CHOOSE t \in m.train : TRUE
      snap == SnapshotOf(examples, source, SplitsOfModel(m))
      plan == PlanFor(TrainerOf(t, machine), machine.params, machine.prequantized, machine.memory)
  IN [status |-> "training", snap |-> snap, torn |-> examples # ToExamples(source), train |-> t,
      trainer |-> TrainerOf(t, machine), plan |-> Override(plan, t.overrides, snap.train),
      job |-> "queued", tested |-> {}, by |-> {}, results |-> {}, reason |-> "none", agreed |-> TRUE]

TrainEnds ==
  /\ submit # Nobody
  /\ LET cfg     == submit.cfg
         problem == SnapshotProblem(cfg, submit.examples)
     IN /\ TrainReply(submit.via, cfg, problem)
        /\ versions' = IF problem # "none" THEN versions
                       ELSE Append(versions, NewVersion(cfg, submit.examples, rows))
  /\ submit' = Nobody
  /\ UNCHANGED <<config, machine, rows, keys, worker, edits>>

-----------------------------------------------------------------------------
(* Worker and gate *)

Queued == {i \in DOMAIN versions : versions[i].job = "queued"}

\* The worker loads the file once, whatever issues it has.
WorkerStarts ==
  /\ worker = {} /\ Queued # {}
  /\ worker' = {config} /\ reply' = NoReply
  /\ UNCHANGED <<config, machine, rows, versions, keys, submit, edits>>

WorkerEnds ==
  /\ worker # {} /\ Queued = {}
  /\ worker' = {} /\ reply' = NoReply
  /\ UNCHANGED <<config, machine, rows, versions, keys, submit, edits>>

EvaluatorsOf(m) == UNION {{Compact(e.evaluators[i]) : i \in DOMAIN e.evaluators} : e \in m.eval}
RowEvaluators(m) == {e \in EvaluatorsOf(m) : ~IsRollout(e)}

\* Why an evaluation raises, or "none".
EvalProblem(cfg, m, targets) ==
  LET builds == {BuildProblem(e, machine.tools) : e \in EvaluatorsOf(m)} \ {"none"}
      fails  == \E e \in EvaluatorsOf(m) \ RowEvaluators(m), t \in targets : RolloutProblem(e, t, machine.tools) # "none"
      row    == RowEvaluators(m) # {}
  IN IF m.eval = {} THEN "no-eval" ELSE IF builds # {} THEN CHOOSE b \in builds : TRUE
     ELSE IF row /\ m.data = {} THEN "rows-need-data"
     ELSE LET source == IF row THEN SourceProblem(CHOOSE d \in m.data : TRUE, cfg, rows, machine.tools) ELSE "none"
          IN IF source # "none" THEN source
             ELSE IF row /\ Chosen(ToExamples(rows), SplitsOfModel(m)) = {} THEN "nothing-held-out"
             ELSE IF fails THEN "no-harness"
             ELSE IF \E e \in m.eval : e.gate.test = "threshold" /\ e.gate.min = {} THEN "no-floor" ELSE "none"

\* The incumbent is served with its own adapter, or is the base model without one.
LiveVersions == {i \in DOMAIN versions : versions[i].status = "promoted"}
IncumbentProblem(m) ==
  LaunchProblem(m, machine, LiveVersions # {}, \A i \in LiveVersions : Fused(versions[i].trainer))

\* The job's trainer, its adapter and the incumbent's as served models, then the evaluation.
GateProblem(cfg, v) ==
  IF TrainerProblem(v.train, machine) # "none" THEN TrainerProblem(v.train, machine)
  ELSE IF Model \notin DOMAIN cfg.models THEN "no-Model"
  ELSE LET m     == cfg.models[Model]
           serve == LaunchProblem(m, machine, TRUE, Fused(v.trainer))
       IN IF serve # "none" THEN serve ELSE IF IncumbentProblem(m) # "none" THEN IncumbentProblem(m)
          ELSE EvalProblem(cfg, m, {[kind |-> "openai"]})

RowScore(e, x, out) ==
  CASE e.kind = "labels"     -> LabelScore(IF e.value = "contains" THEN e.value ELSE "exact", x.label, out.text)
    [] e.kind = "structural" -> StructuralScore(x.shape, out)
    [] OTHER                 -> AsScore(out.verdict)

LogOf(e, log) ==
  CASE e.kind = "command" -> ParseScores(log)
    [] e.kind = "inspect" -> ParseInspect(log, "match", "task")
    [] e.kind = "lm-eval" -> ParseLmEval("gsm8k", log, "none", "none")

Targets == {"candidate", "incumbent"}

\* The rows that the row evaluators test.
TestedRows(m) ==
  IF RowEvaluators(m) = {} THEN {} ELSE {ToExample(rows[i]) : i \in Chosen(ToExamples(rows), SplitsOfModel(m))}
IdsOf(xs)     == {x.id : x \in xs}
KindsOf(m)    == {e.kind : e \in EvaluatorsOf(m) \ RowEvaluators(m)}

\* What the targets may answer: an output for each row, a log of each benchmark.
Answers(m) ==
  [outputs : [Targets -> [IdsOf(TestedRows(m)) -> Outputs]],
   logs    : [Targets -> {l \in [KindsOf(m) -> UNION {Logs[k] : k \in KindsOf(m)}] :
                             \A k \in KindsOf(m) : l[k] \in Logs[k]}]]

\* The results that an evaluation of two targets can come to, from these answers.
Outcomes(m, targets, answers) ==
  LET e      == CHOOSE e \in m.eval : TRUE
      tested == TestedRows(m)
      has    == [t \in Targets |-> OutputsFor(targets[t], tested)]
      Scores(f) == [t \in Targets |-> [x \in tested |-> RowScore(f, x, answers.outputs[t][x.id])]]
      Judged(f) == IF IsRollout(f)
                   THEN RolloutJudgements(f, [t \in Targets |-> LogOf(f, answers.logs[t][f.kind])], e.gate)
                   ELSE RowJudgements(f, ToExamples(rows), e.splits, has, Scores(f), e.gate)
  IN Results(UNION {Judged(f) : f \in {g \in EvaluatorsOf(m) : g.gate}})

\* The job that came first; what it was submitted for may not be what the worker loaded.
Gate ==
  /\ worker # {} /\ Queued # {}
  /\ LET i       == CHOOSE i \in Queued : \A j \in Queued : i <= j
         cfg     == CHOOSE c \in worker : TRUE
         problem == GateProblem(cfg, versions[i])
         agreed  == /\ Accepted(cfg) /\ cfg.platform # {} /\ Model \in DOMAIN cfg.models
                    /\ cfg.models[Model].train = {versions[i].train}
         v       == [versions[i] EXCEPT !.agreed = agreed]
     IN IF problem # "none"
        THEN versions' = [versions EXCEPT ![i] = [v EXCEPT !.job = "failed", !.status = "failed", !.reason = problem]]
        ELSE LET m == cfg.models[Model] IN
             \E answers \in Answers(m) :
               \E results \in Outcomes(m, [t \in Targets |-> [kind |-> "openai"]], answers) :
                 versions' = [versions EXCEPT ![i] = [v EXCEPT
                   !.job = "succeeded", !.status = IF Decision(results) = "pass" THEN "passed" ELSE "rejected",
                   !.results = results, !.by = m.eval,
                   !.tested = {[input |-> x.input, splits |-> SplitsOfModel(m)] : x \in TestedRows(m)}]]
  /\ reply' = NoReply
  /\ UNCHANGED <<config, machine, rows, keys, submit, worker, edits>>

\* ookami train without --detach: it follows the newest job to its end.
Follow ==
  /\ versions # << >>
  /\ LET v == Last(versions) IN
     v.job # "queued" /\ Reply(FollowExit(v.status, v.job))
  /\ UNCHANGED <<config, machine, rows, versions, keys, submit, worker, edits>>

-----------------------------------------------------------------------------
(* Promote, keys, reads *)

PromoteProblem(i, force, reason) ==
  IF i \notin DOMAIN versions THEN "no-version"
  ELSE IF versions[i].status = "promoted" THEN "none"
  ELSE IF versions[i].status # "passed" /\ ~force THEN "not-passed"
  ELSE IF force /\ ~reason THEN "no-reason" ELSE "none"

\* Version 0 is none given: the command line takes the newest that passed.
PromoteVersion(via, version) ==
  LET passed == {i \in DOMAIN versions : versions[i].status = "passed"}
  IN IF version # 0 \/ via = "console" THEN version ELSE IF passed = {} THEN 0 ELSE Greatest(passed)

PromoteReply(via, problem, restart) ==
  IF via = "console" THEN PromoteCode(problem) ELSE PromoteExit(config, problem, restart)

\* The promotion stands when the restart of the engine fails.
Promote(via, version, force, reason, restart) ==
  /\ Reaches(via)
  /\ LET i       == PromoteVersion(via, version)
         problem == PromoteProblem(i, force, reason)
         refused == problem # "none" \/ (via = "cli" /\ ~LoadOk(config))
     IN /\ Reply(PromoteReply(via, problem, restart))
        /\ versions' = IF refused THEN versions
                       ELSE [j \in DOMAIN versions |->
                               IF j = i THEN [versions[j] EXCEPT !.status = "promoted"]
                               ELSE IF versions[j].status = "promoted" THEN [versions[j] EXCEPT !.status = "retired"]
                               ELSE versions[j]]
  /\ UNCHANGED <<config, machine, rows, keys, submit, worker, edits>>

KeyNames == {"", " ", "app"}
Budgets  == {"none", "number", "text"}

CreateReply(via, name, budget) == IF via = "console" THEN CreateCode(name, budget) ELSE CreateExit(config, name)
RevokeReply(via, count)        == IF via = "console" THEN RevokeCode(count) ELSE RevokeExit(config, count)

\* A key is written, or revoked, when the request is granted.
Granted(via, code)             == code = IF via = "console" THEN 200 ELSE 0

\* The name that a key is kept under.
Kept(via, name) == IF via = "console" THEN Strip(name) ELSE name

\* The command line's budget is a number or it does not parse.
CreateKey(via, name, budget) ==
  /\ Reaches(via) /\ (via = "cli" => budget # "text")
  /\ LET code == CreateReply(via, name, budget)
     IN Reply(code) /\ keys' = IF Granted(via, code) THEN keys \cup {Kept(via, name)} ELSE keys
  /\ UNCHANGED <<config, machine, rows, versions, submit, worker, edits>>

RevokeKey(via, name) ==
  /\ Reaches(via)
  /\ LET code == RevokeReply(via, Cardinality(keys \cap {name}))
     IN Reply(code) /\ keys' = IF Granted(via, code) THEN keys \ {name} ELSE keys
  /\ UNCHANGED <<config, machine, rows, versions, submit, worker, edits>>

\* A console request that reads, or that no handler gets.
Ask(req) ==
  /\ LET early == Precheck(req, config)
         name  == (CHOOSE r \in Found(req) : TRUE).name
         known == [jobs |-> IF versions = << >> THEN {} ELSE {"job"},
                   reports |-> IF \E i \in DOMAIN versions : versions[i].results # {} THEN {"report"} ELSE {}]
     IN \/ early # 0 /\ Reply(early)
        \/ /\ early = 0 /\ req.method = "GET"
           /\ Reply(ReadCode(name, req, config, known))
        \/ /\ early = 0 /\ name = "chat"
           /\ \E gateway \in {0, 200, 401, 429} : Reply(ChatCode(config, gateway))
  /\ UNCHANGED <<config, machine, rows, versions, keys, submit, worker, edits>>

-----------------------------------------------------------------------------
(* Commands that change nothing, and what the user writes *)

\* ookami eval compares any two targets; recorded results may have no outputs at all.
EvalCommand ==
  /\ submit = Nobody /\ versions = << >>
  /\ \E having \in [Targets -> BOOLEAN] :
       LET cfg     == config
           m       == cfg.models[Model]
           targets == [t \in Targets |-> [kind |-> "results", ids |-> IF having[t] THEN IdsOf(TestedRows(m)) ELSE {}]]
           problem == IF Model \notin DOMAIN cfg.models THEN "no-Model"
                      ELSE EvalProblem(cfg, m, {targets[t] : t \in Targets})
       IN IF ~LoadOk(cfg) \/ problem # "none" THEN Reply(EvalExit(cfg, "raised"))
          ELSE \E answers \in Answers(m) : \E results \in Outcomes(m, targets, answers) :
                 Reply(EvalExit(cfg, Decision(results)))
  /\ UNCHANGED <<config, machine, rows, versions, keys, submit, worker, edits>>

\* validate, usage with a period that parses or not, init where the file exists.
Look ==
  /\ \E code \in {ValidateExit(config)} \cup {UsageExit(config, since) : since \in BOOLEAN}
                  \cup {InitExit(TRUE, FALSE)} : Reply(code)
  /\ UNCHANGED <<config, machine, rows, versions, keys, submit, worker, edits>>

\* A user edits ookami.yaml, or rows arrive.
Edit(f) ==
  /\ edits > 0 /\ config' = Load(f) /\ edits' = edits - 1 /\ reply' = NoReply
  /\ UNCHANGED <<machine, rows, versions, keys, submit, worker>>

Arrive(row) ==
  /\ Len(rows) < MaxRows /\ row \notin ToSet(rows)
  /\ rows' = Append(rows, row) /\ reply' = NoReply
  /\ UNCHANGED <<config, machine, versions, keys, submit, worker, edits>>

Init ==
  /\ \E s \in Setups : config = Load(s.file) /\ machine = s.machine /\ rows = s.rows /\ edits = s.edits
  /\ versions = << >> /\ keys = {}
  /\ submit = Nobody /\ worker = {} /\ reply = NoReply

\* One request after the other: nothing but its client depends on an answer.
Answered == reply # NoReply /\ reply' = NoReply /\ UNCHANGED <<config, machine, rows, versions, keys, submit, worker, edits>>

Step ==
  \/ \E via \in Via : TrainBegins(via)
  \/ TrainEnds \/ WorkerStarts \/ Gate \/ WorkerEnds \/ Follow
  \/ \E via \in Via, version \in 0..MaxVersions, force \in BOOLEAN, reason \in BOOLEAN,
        restart \in {"done", "not-running", "failed"} : Promote(via, version, force, reason, restart)
  \/ \E via \in Via, name \in KeyNames : RevokeKey(via, name) \/ \E budget \in Budgets : CreateKey(via, name, budget)
  \/ \E req \in Requests : Ask(req)
  \/ EvalCommand \/ Look
  \/ \E f \in Edits : Edit(f)
  \/ \E row \in Feed : Arrive(row)

Next == Answered \/ (reply = NoReply /\ Step)

Spec == Init /\ [][Next]_vars

-----------------------------------------------------------------------------
(* Properties *)

Status == {"training", "failed", "passed", "rejected", "promoted", "retired"}
Codes  == {0, 1, 3, 200, 400, 401, 404, 405, 409, 413, 429, 500, 502}

WorkflowTypeOK ==
  /\ Len(rows) <= MaxRows /\ Len(versions) <= MaxVersions /\ keys \subseteq KeyNames \ {""}
  /\ \A i \in DOMAIN versions : versions[i].status \in Status
  /\ reply \in Codes \cup {NoReply} /\ edits \in Nat /\ Cardinality(worker) <= 1

\* Rows with one id are one input.
IdsAreUnique == \A i, j \in DOMAIN rows : IdOf(rows[i]) = IdOf(rows[j]) => InputOf(rows[i]) = InputOf(rows[j])

SameSplits(a, b) == a.seed = b.seed /\ a.heldOut = b.heldOut /\ a.audit = b.audit

\* "a test prompt can't also be a training prompt", also of an earlier version and while
\* the dataset grows: no version was trained on an input that an evaluation tests, where
\* the splits are those of its snapshot and an id names one input.  (data.py assign_splits,
\* snapshot; eval_runner.py run_eval)
TrainedNeverTested ==
  IdsAreUnique =>
    \A i, j \in DOMAIN versions : \A x \in versions[j].tested :
      SameSplits(x.splits, versions[i].snap.splits) => x.input \notin versions[i].snap.inputs

\* A snapshot's hash says what was trained on: two versions with one hash have the same
\* training inputs and the same counts, unless rows arrived while one of them was read.
\* (data.py snapshot: the directory of a hash is written once more)
HashNamesTraining ==
  \A i, j \in DOMAIN versions :
    versions[i].snap.digest = versions[j].snap.digest /\ ~versions[i].torn /\ ~versions[j].torn
      => [versions[i].snap EXCEPT !.splits = {}] = [versions[j].snap EXCEPT !.splits = {}]

\* What the file itself may lack.  With a file that was accepted a submission or a gate may
\* still stumble over data, machine, storage and what is not there yet, and over faults
\* that only the gate finds: "unusable-ref" (lint looks for the file of a reference and not
\* for its function), "bad-match" (labels.match is checked when the evaluator is built) and
\* "no-adapter-placeholder".
MissingSections == {"no-Model", "no-train", "no-data", "no-eval", "rows-need-data", "no-lake", "no-serve.command",
                    "no-train.command", "bad-ref", "no-floor"}

\* A file with a Platform that `load` accepts lacks no section, parameter or file that
\* training and gating its Model will ask for, many steps later; it may have one that is
\* unusable.  (config.py validators and lint; train/__init__.py, backends.py argv_for,
\* engines.py launch, evaluators/base.py load_ref, eval_runner.py run_eval)
AcceptedLacksNothing ==
  /\ \A i \in DOMAIN versions : versions[i].agreed => versions[i].reason \notin MissingSections
  /\ Accepted(config) /\ config.platform # {} /\ Model \in DOMAIN config.models /\ config.models[Model].train # {}
       => SubmitProblem(config) \notin MissingSections

\* "every gating evaluator passes": a version passes its gate only if each of its gating
\* evaluators was judged on items that both targets have, on enough of them, and on none
\* of its splits and slices is the candidate worse by more than the margin on every item.
\* (gate.py gate_version; eval_runner.py run_eval; stats.py judge)
PassNeedsEveryEvaluator ==
  \A i \in DOMAIN versions :
    LET v == versions[i] IN
    v.status = "passed" =>
      \A e \in v.by : \A k \in DOMAIN e.evaluators :
        e.evaluators[k].gate =>
          LET mine == {r \in v.results : r.evaluator = Compact(e.evaluators[k]).name}
          IN /\ \E r \in mine : r.slice = All
             /\ \A r \in mine : r.n >= e.gate.minItems
                                /\ (e.gate.test = "non-inferiority" => r.best >= e.gate.margin)

\* The planned run sees the data as often as it was asked to, and where neither size is
\* overridden an optimizer step sees EFFECTIVE_BATCH rows on every machine.  (planner.py plan)
PlanCoversTheData ==
  \A i \in DOMAIN versions :
    LET p == versions[i].plan
        o == DOMAIN versions[i].train.overrides
    IN /\ {"batch_size", "grad_accumulation"} \cap o = {} => p.batch * p.accumulation = EffectiveBatch
       /\ "iters" \notin o => p.iters >= 10 /\ 100 * p.iters * p.batch >= p.epochs * versions[i].snap.train

\* "Every action goes through the same code as the CLI": with a file without errors the
\* console grants what the command line grants, for a key the name without its blanks: a
\* name of blanks only is refused by one and granted by the other.  (console/server.py:3,
\* 164; cli.py:239)
SameAnswers ==
  Accepted(config) /\ Usable(config) =>
    /\ \A name \in KeyNames : \A budget \in Budgets \ {"text"} :
         Granted("console", CreateReply("console", name, budget)) <=> Granted("cli", CreateReply("cli", Strip(name), budget))
    /\ \A n \in 0..1 : Granted("console", RevokeReply("console", n)) <=> Granted("cli", RevokeReply("cli", n))
    /\ \A i \in 1..MaxVersions, force \in BOOLEAN, reason \in BOOLEAN :
         LET problem == PromoteProblem(i, force, reason)
         IN PromoteReply("console", problem, "done") = 200 <=> PromoteReply("cli", problem, "done") = 0
=============================================================================
