---------------------------- MODULE WorkflowProofs ----------------------------
(***************************************************************************)
(* The safety properties of Workflow.tla, for every set of files,          *)
(* machines, rows and answers and every hash.                              *)
(***************************************************************************)
EXTENDS Workflow, NumberLemmas

-----------------------------------------------------------------------------
(* The console beside the command line                                     *)

\* A promotion is granted or not, at the console and, with a file without errors, at the
\* command line.
LEMMA PromoteCodes ==
  ASSUME NEW problem
  PROVE  /\ PromoteCode(problem) = 200 <=> problem = "none"
         /\ \A restart : problem = "none" => PromoteExit(config, problem, restart) \in {0, 1}
         /\ LoadOk(config) => (PromoteExit(config, problem, "done") = 0 <=> problem = "none")
<1>1. problem = "none" => PromoteCode(problem) = 200
  BY DEF PromoteCode
<1>2. problem = "not-passed" => PromoteCode(problem) = 409
  BY DEF PromoteCode
<1>3. problem \notin {"none", "not-passed"} => PromoteCode(problem) = 400
  BY DEF PromoteCode
<1>4. PromoteCode(problem) = 200 <=> problem = "none"
  <2>1. PromoteCode(problem) \in Nat
    BY <1>1, <1>2, <1>3
  <2>. QED
    BY <1>1, <1>2, <1>3, <2>1
<1>5. ASSUME NEW restart, problem = "none"
      PROVE  PromoteExit(config, problem, restart) \in {0, 1}
  BY <1>5 DEF PromoteExit, Exit
<1>6. ASSUME LoadOk(config)
      PROVE  PromoteExit(config, problem, "done") = 0 <=> problem = "none"
  <2>1. PromoteExit(config, problem, "done") = IF problem = "not-passed" THEN 3 ELSE IF problem # "none" THEN 1 ELSE 0
    BY <1>6 DEF PromoteExit, Exit
  <2>2. PromoteExit(config, problem, "done") \in Nat
    BY <2>1
  <2>. QED
    BY <2>1, <2>2
<1>. QED
  BY <1>4, <1>5, <1>6

\* The command line asks what the console asks, where the file has no errors and a key's
\* name has no blanks to take off.
THEOREM ConsoleAnswersAlike == Spec => []SameAnswers
<1>1. SameAnswers
  <2>. SUFFICES ASSUME Accepted(config), Usable(config)
                PROVE  /\ \A name \in KeyNames : \A budget \in Budgets \ {"text"} :
                            Granted("console", CreateReply("console", name, budget))
                              <=> Granted("cli", CreateReply("cli", Strip(name), budget))
                       /\ \A n \in 0..1 : Granted("console", RevokeReply("console", n))
                                            <=> Granted("cli", RevokeReply("cli", n))
                       /\ \A problem : PromoteReply("console", problem, "done") = 200
                                         <=> PromoteReply("cli", problem, "done") = 0
    BY DEF SameAnswers
  <2>1. LoadOk(config)
    BY DEF Accepted, NoErrors, LoadOk
  <2>2. \A name \in KeyNames : \A budget \in Budgets \ {"text"} :
          Granted("console", CreateReply("console", name, budget)) <=> Granted("cli", CreateReply("cli", Strip(name), budget))
    BY <2>1 DEF Granted, CreateReply, CreateCode, CreateExit, Exit
  <2>3. \A n \in 0..1 : Granted("console", RevokeReply("console", n)) <=> Granted("cli", RevokeReply("cli", n))
    BY <2>1 DEF Granted, RevokeReply, RevokeCode, RevokeExit, Exit
  <2>4. \A problem : PromoteReply("console", problem, "done") = 200 <=> PromoteReply("cli", problem, "done") = 0
    BY <2>1, PromoteCodes DEF PromoteReply
  <2>. QED
    BY <2>2, <2>3, <2>4
<1>. QED
  BY <1>1, PTL

-----------------------------------------------------------------------------
(* What a step does to the dataset and to the versions                     *)

\* A sequence of whatever it holds.
IsSequence(s) == \E S : s \in Seq(S)

Fields == {"status", "snap", "torn", "train", "trainer", "plan", "job", "tested", "by", "results", "reason", "agreed"}

Shape ==
  /\ IsSequence(rows) /\ IsSequence(versions)
  /\ \A i \in DOMAIN versions : Fields \subseteq DOMAIN versions[i]

\* What a version was made of, which no step changes.
MadeOf(v) == [snap |-> v.snap, torn |-> v.torn, train |-> v.train, plan |-> v.plan]

\* What is in a sequence that grows by one.
LEMMA Grown ==
  ASSUME NEW s, IsSequence(s), NEW x
  PROVE  /\ IsSequence(Append(s, x)) /\ Len(s) \in Nat /\ Len(Append(s, x)) = Len(s) + 1
         /\ DOMAIN s = 1..Len(s) /\ DOMAIN Append(s, x) = 1..(Len(s) + 1)
         /\ \A i \in DOMAIN s : Append(s, x)[i] = s[i]
         /\ Append(s, x)[Len(s) + 1] = x
<1>1. PICK S : s \in Seq(S)
  BY DEF IsSequence
<1>2. s \in Seq(S \cup {x})
  BY <1>1
<1>3. Append(s, x) \in Seq(S \cup {x})
  BY <1>2
<1>4. IsSequence(Append(s, x))
  BY <1>3 DEF IsSequence
<1>. QED
  BY <1>1, <1>2, <1>4

\* A sequence with one item replaced, or each of them.
LEMMA Replaced ==
  ASSUME NEW s, IsSequence(s), NEW t, DOMAIN t = DOMAIN s, t = [i \in DOMAIN t |-> t[i]]
  PROVE  IsSequence(t) /\ Len(t) = Len(s)
<1>1. PICK S : s \in Seq(S)
  BY DEF IsSequence
<1>. DEFINE T == {t[i] : i \in DOMAIN t}
            n == Len(s)
<1>2. n \in Nat /\ DOMAIN t = 1..n
  BY <1>1
<1>3. t \in [1..n -> T]
  BY <1>2, Zenon
<1>. HIDE DEF T, n
<1>4. t \in Seq(T) /\ Len(t) = n
  BY <1>2, <1>3
<1>. QED
  BY <1>4 DEF IsSequence, n

\* What the worker's configuration asks for is what the version was submitted for.
Agreed(cfg, v) ==
  /\ Accepted(cfg) /\ cfg.platform # {} /\ Model \in DOMAIN cfg.models
  /\ cfg.models[Model].train = {v.train}

\* A version after its gate has failed, and after it has judged.
AsFailed(cfg, v) ==
  [[v EXCEPT !.agreed = Agreed(cfg, v)] EXCEPT !.job = "failed", !.status = "failed", !.reason = GateProblem(cfg, v)]

AsJudged(cfg, v, results) ==
  LET m == cfg.models[Model]
  IN [[v EXCEPT !.agreed = Agreed(cfg, v)] EXCEPT
        !.job = "succeeded", !.status = IF Decision(results) = "pass" THEN "passed" ELSE "rejected",
        !.results = results, !.by = m.eval,
        !.tested = {[input |-> x.input, splits |-> SplitsOfModel(m)] : x \in TestedRows(m)}]

Served == [t \in Targets |-> [kind |-> "openai"]]

\* The version and the configuration of a gate.
LEMMA GateIs ==
  ASSUME Shape, Gate
  PROVE  \E i \in Queued, cfg \in worker :
           \/ /\ GateProblem(cfg, versions[i]) # "none"
              /\ versions' = [versions EXCEPT ![i] = AsFailed(cfg, versions[i])]
           \/ /\ GateProblem(cfg, versions[i]) = "none"
              /\ \E answers \in Answers(cfg.models[Model]) :
                   \E results \in Outcomes(cfg.models[Model], Served, answers) :
                     versions' = [versions EXCEPT ![i] = AsJudged(cfg, versions[i], results)]
<1>. DEFINE i == CHOOSE i \in Queued : \A j \in Queued : i <= j
            cfg == CHOOSE c \in worker : TRUE
<1>1. Queued # {} /\ worker # {}
  BY Zenon DEF Gate
<1>2. Queued \subseteq Nat
  BY Grown DEF Shape, Queued
<1>3. i \in Queued
  BY <1>1, <1>2, LeastNumber
<1>5. cfg \in worker
  BY <1>1
<1>6. \/ /\ GateProblem(cfg, versions[i]) # "none"
         /\ versions' = [versions EXCEPT ![i] = AsFailed(cfg, versions[i])]
      \/ /\ GateProblem(cfg, versions[i]) = "none"
         /\ \E answers \in Answers(cfg.models[Model]) :
              \E results \in Outcomes(cfg.models[Model], Served, answers) :
                versions' = [versions EXCEPT ![i] = AsJudged(cfg, versions[i], results)]
  BY Zenon DEF Gate, AsFailed, AsJudged, Agreed, Served
<1>. HIDE DEF i, cfg
<1>. QED
  BY <1>3, <1>5, <1>6

\* A gate that fails.
LEMMA FailedIs ==
  ASSUME NEW cfg, NEW v, Fields \subseteq DOMAIN v
  PROVE  /\ DOMAIN AsFailed(cfg, v) = DOMAIN v /\ MadeOf(AsFailed(cfg, v)) = MadeOf(v)
         /\ AsFailed(cfg, v).tested = v.tested /\ AsFailed(cfg, v).by = v.by /\ AsFailed(cfg, v).results = v.results
         /\ AsFailed(cfg, v).status = "failed" /\ AsFailed(cfg, v).agreed = Agreed(cfg, v)
         /\ AsFailed(cfg, v).reason = GateProblem(cfg, v) /\ AsFailed(cfg, v).job = "failed"
<1>1. {"status", "snap", "torn", "train", "plan", "job", "tested", "by", "results", "reason", "agreed"} \subseteq DOMAIN v
  BY DEF Fields
<1>. QED
  BY <1>1, Zenon DEF AsFailed, MadeOf

\* A gate that judges.
LEMMA JudgedIs ==
  ASSUME NEW cfg, NEW v, Fields \subseteq DOMAIN v, NEW results
  PROVE  /\ Decision(results) = "pass" => AsJudged(cfg, v, results).status = "passed"
         /\ Decision(results) # "pass" => AsJudged(cfg, v, results).status = "rejected"
         /\ AsJudged(cfg, v, results).by = cfg.models[Model].eval /\ AsJudged(cfg, v, results).results = results
<1>1. {"status", "snap", "torn", "train", "plan", "job", "tested", "by", "results", "reason", "agreed"} \subseteq DOMAIN v
  BY DEF Fields
<1>. QED
  BY <1>1, Zenon DEF AsJudged

\* The version passes or is rejected.
LEMMA JudgedStatus ==
  ASSUME NEW cfg, NEW v, Fields \subseteq DOMAIN v, NEW results
  PROVE  AsJudged(cfg, v, results).status \in {"passed", "rejected"}
<1>1. {"status", "snap", "torn", "train", "plan", "job", "tested", "by", "results", "reason", "agreed"} \subseteq DOMAIN v
  BY DEF Fields
<1>. QED
  BY <1>1, Zenon DEF AsJudged

\* Its job, and why it failed before.
LEMMA JudgedJob ==
  ASSUME NEW cfg, NEW v, Fields \subseteq DOMAIN v, NEW results
  PROVE  AsJudged(cfg, v, results).job = "succeeded" /\ AsJudged(cfg, v, results).reason = v.reason
<1>1. {"status", "snap", "torn", "train", "plan", "job", "tested", "by", "results", "reason", "agreed"} \subseteq DOMAIN v
  BY DEF Fields
<1>. QED
  BY <1>1, Zenon DEF AsJudged

\* What it has tested.
LEMMA JudgedTested ==
  ASSUME NEW cfg, NEW v, Fields \subseteq DOMAIN v, NEW results
  PROVE  AsJudged(cfg, v, results).tested =
           {[input |-> x.input, splits |-> SplitsOfModel(cfg.models[Model])] : x \in TestedRows(cfg.models[Model])}
<1>1. {"status", "snap", "torn", "train", "plan", "job", "tested", "by", "results", "reason", "agreed"} \subseteq DOMAIN v
  BY DEF Fields
<1>. QED
  BY <1>1, Zenon DEF AsJudged, MadeOf

\* What it keeps of the version.
LEMMA JudgedKeeps ==
  ASSUME NEW cfg, NEW v, Fields \subseteq DOMAIN v, NEW results
  PROVE  DOMAIN AsJudged(cfg, v, results) = DOMAIN v /\ MadeOf(AsJudged(cfg, v, results)) = MadeOf(v)
<1>1. {"status", "snap", "torn", "train", "plan", "job", "tested", "by", "results", "agreed"} \subseteq DOMAIN v
  BY DEF Fields
<1>. QED
  BY <1>1, Zenon DEF AsJudged, MadeOf

\* A promotion changes nothing but the status.
WithStatus(v, w) ==
  /\ DOMAIN w = DOMAIN v /\ MadeOf(w) = MadeOf(v) /\ w.tested = v.tested /\ w.by = v.by /\ w.results = v.results
  /\ w.agreed = v.agreed /\ w.reason = v.reason /\ w.job = v.job
  /\ w.status \in {v.status, "promoted", "retired"}

\* Setting the status of a version keeps the rest of it.
LEMMA StatusIs ==
  ASSUME NEW v, Fields \subseteq DOMAIN v, NEW status \in {"promoted", "retired"}
  PROVE  WithStatus(v, [v EXCEPT !.status = status])
<1>1. {"status", "snap", "torn", "train", "plan", "job", "tested", "by", "results", "reason", "agreed"} \subseteq DOMAIN v
  BY DEF Fields
<1>2. [v EXCEPT !.status = status].status = status
  BY <1>1, Zenon
<1>. QED
  BY <1>1, <1>2, Zenon DEF WithStatus, MadeOf

\* A promotion changes nothing of a version but its status.
LEMMA PromotedIs ==
  ASSUME Shape, NEW via, NEW version, NEW force, NEW reason, NEW restart, Promote(via, version, force, reason, restart)
  PROVE  \/ versions' = versions
         \/ /\ versions' = [j \in DOMAIN versions |-> versions'[j]]
            /\ \A j \in DOMAIN versions : WithStatus(versions[j], versions'[j])
<1>. DEFINE i == PromoteVersion(via, version)
<1>1. \/ versions' = versions
      \/ versions' = [j \in DOMAIN versions |->
                        IF j = i THEN [versions[j] EXCEPT !.status = "promoted"]
                        ELSE IF versions[j].status = "promoted" THEN [versions[j] EXCEPT !.status = "retired"]
                        ELSE versions[j]]
  BY Zenon DEF Promote
<1>. HIDE DEF i
<1>2. \A j \in DOMAIN versions : /\ WithStatus(versions[j], [versions[j] EXCEPT !.status = "promoted"])
                                 /\ WithStatus(versions[j], [versions[j] EXCEPT !.status = "retired"])
  BY StatusIs DEF Shape
<1>3. \A j \in DOMAIN versions : WithStatus(versions[j], versions[j])
  BY DEF WithStatus
<1>. QED
  BY <1>1, <1>2, <1>3, Zenon

\* A submission ends with a version of its data.
Submitted ==
  /\ submit # Nobody /\ SnapshotProblem(submit.cfg, submit.examples) = "none"
  /\ versions' = Append(versions, NewVersion(submit.cfg, submit.examples, rows))
  /\ UNCHANGED <<config, machine, rows, keys, worker, edits>> /\ submit' = Nobody

\* A promotion, which sets the status of some versions.
Relabelled ==
  /\ versions' = [j \in DOMAIN versions |-> versions'[j]]
  /\ \A j \in DOMAIN versions : WithStatus(versions[j], versions'[j])
  /\ UNCHANGED <<config, machine, rows, keys, submit, worker, edits>>

\* The steps that change a version.
LEMMA VersionsStep ==
  ASSUME Shape, [Next]_vars
  PROVE  versions' = versions \/ Submitted \/ Gate \/ Relabelled
<1>1. ASSUME NEW via \in Via, TrainBegins(via) PROVE versions' = versions
  BY <1>1 DEF TrainBegins
<1>2. CASE TrainEnds
  <2>1. /\ submit # Nobody /\ UNCHANGED <<config, machine, rows, keys, worker, edits>> /\ submit' = Nobody
        /\ versions' = IF SnapshotProblem(submit.cfg, submit.examples) # "none" THEN versions
                       ELSE Append(versions, NewVersion(submit.cfg, submit.examples, rows))
    BY <1>2, Zenon DEF TrainEnds
  <2>. QED
    BY <2>1, Zenon DEF Submitted
<1>3. ASSUME WorkerStarts \/ WorkerEnds \/ Follow \/ EvalCommand \/ Look \/ Answered PROVE versions' = versions
  BY <1>3 DEF WorkerStarts, WorkerEnds, Follow, EvalCommand, Look, Answered
<1>4. ASSUME NEW via \in Via, NEW version \in 0..MaxVersions, NEW force \in BOOLEAN, NEW reason \in BOOLEAN,
             NEW restart \in {"done", "not-running", "failed"}, Promote(via, version, force, reason, restart)
      PROVE  versions' = versions \/ Relabelled
  <2>1. UNCHANGED <<config, machine, rows, keys, submit, worker, edits>>
    BY <1>4, Zenon DEF Promote
  <2>. QED
    BY <1>4, <2>1, PromotedIs DEF Relabelled
<1>5. ASSUME NEW via \in Via, NEW name \in KeyNames,
             RevokeKey(via, name) \/ \E budget \in Budgets : CreateKey(via, name, budget)
      PROVE  versions' = versions
  BY <1>5 DEF RevokeKey, CreateKey
<1>6. ASSUME NEW req \in Requests, Ask(req) PROVE versions' = versions
  BY <1>6 DEF Ask
<1>7. ASSUME NEW f \in Edits, Edit(f) PROVE versions' = versions
  BY <1>7 DEF Edit
<1>8. ASSUME NEW row \in Feed, Arrive(row) PROVE versions' = versions
  BY <1>8 DEF Arrive
<1>9. ASSUME UNCHANGED vars PROVE versions' = versions
  BY <1>9 DEF vars
<1>. QED
  BY <1>1, <1>2, <1>3, <1>4, <1>5, <1>6, <1>7, <1>8, <1>9 DEF Next, Step

\* A version that a submission creates.
LEMMA NewIs ==
  ASSUME NEW cfg, NEW examples, NEW source
  PROVE  /\ Fields \subseteq DOMAIN NewVersion(cfg, examples, source)
         /\ NewVersion(cfg, examples, source).status = "training"
         /\ NewVersion(cfg, examples, source).tested = {}
         /\ NewVersion(cfg, examples, source).by = {}
         /\ NewVersion(cfg, examples, source).results = {}
         /\ NewVersion(cfg, examples, source).reason = "none"
<1>. DEFINE m    == cfg.models[Model]
            t    == CHOOSE t \in m.train : TRUE
            snap == SnapshotOf(examples, source, SplitsOfModel(m))
            plan == PlanFor(TrainerOf(t, machine), machine.params, machine.prequantized, machine.memory)
            torn == examples # ToExamples(source)
            over == Override(plan, t.overrides, snap.train)
            trainer == TrainerOf(t, machine)
            v == [status |-> "training", snap |-> snap, torn |-> torn, train |-> t,
                  trainer |-> trainer, plan |-> over,
                  job |-> "queued", tested |-> {}, by |-> {}, results |-> {}, reason |-> "none", agreed |-> TRUE]
<1>1. NewVersion(cfg, examples, source) = v
  BY Zenon DEF NewVersion
<1>. HIDE DEF t, snap, plan, torn, over, trainer
<1>2. /\ Fields \subseteq DOMAIN v
      /\ v.status = "training" /\ v.tested = {} /\ v.by = {} /\ v.results = {} /\ v.reason = "none" /\ v.agreed = TRUE
      /\ v.snap = snap /\ v.train = t /\ v.plan = over
  BY DEF Fields
<1>3. v.torn = torn
  BY Zenon
<1>. HIDE DEF v
<1>. QED
  BY <1>1, <1>2, Zenon

\* Its snapshot, what was read of it, and its plan.
LEMMA NewMadeOf ==
  ASSUME NEW cfg, NEW examples, NEW source
  PROVE  /\ NewVersion(cfg, examples, source).snap = SnapshotOf(examples, source, SplitsOfModel(cfg.models[Model]))
         /\ NewVersion(cfg, examples, source).torn <=> examples # ToExamples(source)
         /\ NewVersion(cfg, examples, source).train = CHOOSE t \in cfg.models[Model].train : TRUE
         /\ NewVersion(cfg, examples, source).plan =
              LET t == CHOOSE t \in cfg.models[Model].train : TRUE
              IN Override(PlanFor(TrainerOf(t, machine), machine.params, machine.prequantized, machine.memory),
                          t.overrides, SnapshotOf(examples, source, SplitsOfModel(cfg.models[Model])).train)
<1>. DEFINE m    == cfg.models[Model]
            t    == CHOOSE t \in m.train : TRUE
            snap == SnapshotOf(examples, source, SplitsOfModel(m))
            plan == PlanFor(TrainerOf(t, machine), machine.params, machine.prequantized, machine.memory)
            torn == examples # ToExamples(source)
            over == Override(plan, t.overrides, snap.train)
            trainer == TrainerOf(t, machine)
            v == [status |-> "training", snap |-> snap, torn |-> torn, train |-> t,
                  trainer |-> trainer, plan |-> over,
                  job |-> "queued", tested |-> {}, by |-> {}, results |-> {}, reason |-> "none", agreed |-> TRUE]
<1>1. NewVersion(cfg, examples, source) = v
  BY Zenon DEF NewVersion
<1>. HIDE DEF t, snap, plan, torn, over, trainer
<1>2. /\ Fields \subseteq DOMAIN v
      /\ v.status = "training" /\ v.tested = {} /\ v.by = {} /\ v.results = {} /\ v.reason = "none" /\ v.agreed = TRUE
      /\ v.snap = snap /\ v.train = t /\ v.plan = over
  BY DEF Fields
<1>3. v.torn = torn
  BY Zenon
<1>. HIDE DEF v
<1>4. v.torn <=> examples # ToExamples(source)
  BY <1>3, Zenon DEF torn
<1>5. v.snap = SnapshotOf(examples, source, SplitsOfModel(cfg.models[Model]))
  BY <1>2, Zenon DEF snap, m
<1>6. v.train = CHOOSE t_1 \in cfg.models[Model].train : TRUE
  BY <1>2, Zenon DEF t, m
<1>7. v.plan = Override(plan, t.overrides, snap.train)
  BY <1>2, Zenon DEF over
<1>8. v.plan = LET t_1 == CHOOSE t_1 \in cfg.models[Model].train : TRUE
               IN Override(PlanFor(TrainerOf(t_1, machine), machine.params, machine.prequantized, machine.memory),
                           t_1.overrides, SnapshotOf(examples, source, SplitsOfModel(cfg.models[Model])).train)
  BY <1>7, Zenon DEF t, plan, snap, m
<1>. QED
  BY <1>1, <1>4, <1>5, <1>6, <1>8, Zenon

\* Its snapshot.
LEMMA NewSnapshot ==
  \A cfg, examples, source :
    NewVersion(cfg, examples, source).snap = SnapshotOf(examples, source, SplitsOfModel(cfg.models[Model]))
<1>. TAKE cfg, examples, source
<1>. QED
  BY NewMadeOf, ZenonT(60)

\* Its train section and its plan.
TrainOf(cfg) == CHOOSE t \in cfg.models[Model].train : TRUE

\* A new version has the train section of its configuration and the plan made from it.
LEMMA NewPlan ==
  ASSUME NEW cfg, NEW examples, NEW source, NEW t, t = TrainOf(cfg),
         NEW snap, snap = SnapshotOf(examples, source, SplitsOfModel(cfg.models[Model]))
  PROVE  /\ NewVersion(cfg, examples, source).train = t
         /\ NewVersion(cfg, examples, source).plan =
              Override(PlanFor(TrainerOf(t, machine), machine.params, machine.prequantized, machine.memory),
                       t.overrides, snap.train)
<1>. DEFINE plan == PlanFor(TrainerOf(t, machine), machine.params, machine.prequantized, machine.memory)
            torn == examples # ToExamples(source)
            over == Override(plan, t.overrides, snap.train)
            trainer == TrainerOf(t, machine)
            v == [status |-> "training", snap |-> snap, torn |-> torn, train |-> t,
                  trainer |-> trainer, plan |-> over,
                  job |-> "queued", tested |-> {}, by |-> {}, results |-> {}, reason |-> "none", agreed |-> TRUE]
<1>1. NewVersion(cfg, examples, source) = v
  BY Zenon DEF NewVersion, TrainOf
<1>. HIDE DEF plan, torn, over, trainer
<1>2. v.train = t /\ v.plan = over
  OBVIOUS
<1>. HIDE DEF v
<1>. QED
  BY <1>1, <1>2, Zenon DEF over, plan

\* A version after its gate, with the configuration of the worker.
AsGated(v, w) ==
  /\ v.job = "queued"
  /\ \E cfg \in worker :
       \/ GateProblem(cfg, v) # "none" /\ w = AsFailed(cfg, v)
       \/ /\ GateProblem(cfg, v) = "none"
          /\ \E answers \in Answers(cfg.models[Model]) :
               \E results \in Outcomes(cfg.models[Model], Served, answers) : w = AsJudged(cfg, v, results)

\* What a step does to each version: it is created, or gated, or has another status.
LEMMA EachVersion ==
  ASSUME Shape, [Next]_vars
  PROVE  /\ IsSequence(versions') /\ DOMAIN versions \subseteq DOMAIN versions'
         /\ \A i \in DOMAIN versions :
              \/ versions'[i] = versions[i]
              \/ Gate /\ AsGated(versions[i], versions'[i])
              \/ Relabelled /\ WithStatus(versions[i], versions'[i])
         /\ \A i \in DOMAIN versions' \ DOMAIN versions :
              Submitted /\ versions'[i] = NewVersion(submit.cfg, submit.examples, rows)
         /\ Len(versions') = Len(versions) \/ (Submitted /\ Len(versions') = Len(versions) + 1)
<1>1. CASE versions' = versions
  BY <1>1 DEF Shape
<1>2. CASE Submitted
  BY <1>2, Grown DEF Shape, Submitted
<1>3. CASE Gate
  <2>1. PICK i \in DOMAIN versions : \E w : AsGated(versions[i], w) /\ versions' = [versions EXCEPT ![i] = w]
    BY <1>3, GateIs, Zenon DEF AsGated, Queued
  <2>2. PICK w : AsGated(versions[i], w) /\ versions' = [versions EXCEPT ![i] = w]
    BY <2>1
  <2>3. DOMAIN versions' = DOMAIN versions /\ versions' = [j \in DOMAIN versions' |-> versions'[j]]
    BY <2>2
  <2>4. versions'[i] = w /\ \A j \in DOMAIN versions \ {i} : versions'[j] = versions[j]
    BY <2>2
  <2>5. IsSequence(versions') /\ Len(versions') = Len(versions)
    BY <2>3, Replaced DEF Shape
  <2>. QED
    BY <1>3, <2>2, <2>3, <2>4, <2>5
<1>4. CASE Relabelled
  <2>1. DOMAIN versions' = DOMAIN versions /\ versions' = [j \in DOMAIN versions' |-> versions'[j]]
    BY <1>4, Zenon DEF Relabelled
  <2>2. IsSequence(versions') /\ Len(versions') = Len(versions)
    BY <2>1, Replaced DEF Shape
  <2>. QED
    BY <1>4, <2>1, <2>2 DEF Relabelled
<1>. QED
  BY <1>1, <1>2, <1>3, <1>4, VersionsStep

\* What a step leaves of a version: all but the gate's part and the status.
LEMMA VersionKept ==
  ASSUME Shape, [Next]_vars, NEW i \in DOMAIN versions
  PROVE  /\ i \in DOMAIN versions' /\ DOMAIN versions'[i] = DOMAIN versions[i]
         /\ versions'[i].snap = versions[i].snap /\ versions'[i].torn = versions[i].torn
         /\ versions'[i].train = versions[i].train /\ versions'[i].plan = versions[i].plan
<1>1. Fields \subseteq DOMAIN versions[i]
  BY DEF Shape
<1>2. DOMAIN versions'[i] = DOMAIN versions[i] /\ MadeOf(versions'[i]) = MadeOf(versions[i])
  <2>1. CASE AsGated(versions[i], versions'[i])
    <3>1. PICK cfg \in worker :
            versions'[i] = AsFailed(cfg, versions[i]) \/ \E results : versions'[i] = AsJudged(cfg, versions[i], results)
      BY <2>1, Zenon DEF AsGated
    <3>2. /\ DOMAIN AsFailed(cfg, versions[i]) = DOMAIN versions[i]
          /\ MadeOf(AsFailed(cfg, versions[i])) = MadeOf(versions[i])
      BY <1>1, FailedIs, ZenonT(120)
    <3>3. ASSUME NEW results
          PROVE  /\ DOMAIN AsJudged(cfg, versions[i], results) = DOMAIN versions[i]
                 /\ MadeOf(AsJudged(cfg, versions[i], results)) = MadeOf(versions[i])
      BY <1>1, JudgedKeeps
    <3>. QED
      BY <3>1, <3>2, <3>3, Zenon
  <2>2. CASE WithStatus(versions[i], versions'[i])
    BY <2>2 DEF WithStatus
  <2>. QED
    BY <2>1, <2>2, EachVersion
<1>3. ASSUME NEW v, NEW w, MadeOf(v) = MadeOf(w)
      PROVE  v.snap = w.snap /\ v.torn = w.torn /\ v.train = w.train /\ v.plan = w.plan
  <2>1. \A u : MadeOf(u).snap = u.snap /\ MadeOf(u).torn = u.torn /\ MadeOf(u).train = u.train /\ MadeOf(u).plan = u.plan
    BY Zenon DEF MadeOf
  <2>. QED
    BY <1>3, <2>1, Zenon
<1>. QED
  BY <1>2, <1>3, EachVersion

\* The dataset grows.
LEMMA RowsStep ==
  ASSUME [Next]_vars
  PROVE  rows' = rows \/ \E row \in Feed : Arrive(row)
<1>1. ASSUME NEW via \in Via, TrainBegins(via) PROVE rows' = rows
  BY <1>1 DEF TrainBegins
<1>2. ASSUME TrainEnds \/ WorkerStarts \/ WorkerEnds \/ Follow \/ EvalCommand \/ Look \/ Answered PROVE rows' = rows
  BY <1>2, Zenon DEF TrainEnds, WorkerStarts, WorkerEnds, Follow, EvalCommand, Look, Answered
<1>3. Gate => rows' = rows
  BY Zenon DEF Gate
<1>4. ASSUME NEW via \in Via, NEW version \in 0..MaxVersions, NEW force \in BOOLEAN, NEW reason \in BOOLEAN,
             NEW restart \in {"done", "not-running", "failed"}, Promote(via, version, force, reason, restart)
      PROVE  rows' = rows
  BY <1>4, Zenon DEF Promote
<1>5. ASSUME NEW via \in Via, NEW name \in KeyNames,
             RevokeKey(via, name) \/ \E budget \in Budgets : CreateKey(via, name, budget)
      PROVE  rows' = rows
  BY <1>5 DEF RevokeKey, CreateKey
<1>6. ASSUME NEW req \in Requests, Ask(req) PROVE rows' = rows
  BY <1>6 DEF Ask
<1>7. ASSUME NEW f \in Edits, Edit(f) PROVE rows' = rows
  BY <1>7 DEF Edit
<1>8. ASSUME UNCHANGED vars PROVE rows' = rows
  BY <1>8 DEF vars
<1>. QED
  BY <1>1, <1>2, <1>3, <1>4, <1>5, <1>6, <1>7, <1>8 DEF Next, Step

\* Every step keeps the rows and the versions sequences, and the versions' fields.
LEMMA ShapeStep ==
  ASSUME Shape, [Next]_vars
  PROVE  Shape'
<1>1. IsSequence(rows')
  <2>1. \/ rows' = rows
        \/ \E row : rows' = Append(rows, row)
    BY RowsStep, Zenon DEF Arrive
  <2>2. \A row : IsSequence(Append(rows, row))
    BY Grown DEF Shape
  <2>. QED
    BY <2>1, <2>2 DEF Shape
<1>2. ASSUME NEW i \in DOMAIN versions' PROVE Fields \subseteq DOMAIN versions'[i]
  <2>1. CASE i \in DOMAIN versions
    BY <2>1, VersionKept, Zenon DEF Shape
  <2>2. CASE i \notin DOMAIN versions
    <3>1. versions'[i] = NewVersion(submit.cfg, submit.examples, rows)
      BY <2>2, EachVersion
    <3>2. Fields \subseteq DOMAIN NewVersion(submit.cfg, submit.examples, rows)
      BY NewIs
    <3>. QED
      BY <3>1, <3>2
  <2>. QED
    BY <2>1, <2>2
<1>. QED
  BY <1>1, <1>2, EachVersion DEF Shape

\* The invariants start with a dataset and no version.
LEMMA ShapeInit == Init => Shape
<1>. SUFFICES ASSUME Init PROVE Shape
  OBVIOUS
<1>1. IsSequence(rows)
  BY WorkflowAssumption DEF Init, IsSequence
<1>2. versions = << >>
  BY DEF Init
<1>3. IsSequence(versions) /\ DOMAIN versions = {}
  <2>1. versions \in Seq({})
    BY <1>2
  <2>. QED
    BY <1>2, <2>1 DEF IsSequence
<1>. QED
  BY <1>1, <1>3 DEF Shape

\* Rows and versions are sequences, and every version has all its fields.
THEOREM ShapeIsInvariant == Spec => []Shape
<1>. QED
  BY ShapeInit, ShapeStep, PTL DEF Spec

-----------------------------------------------------------------------------
(* The hash of a snapshot                                                  *)

\* The splits of an input are decided by the seed and the two shares.
LEMMA SplitsDecide ==
  ASSUME NEW a, NEW b, SameSplits(a, b)
  PROVE  /\ \A input : SplitOf(input, a) = SplitOf(input, b)
         /\ \A examples : AssignSplits(examples, a) = AssignSplits(examples, b)
         /\ \A examples : TrainingRows(examples, a) = TrainingRows(examples, b)
<1>1. \A input : SplitOf(input, a) = SplitOf(input, b)
  BY DEF SplitOf, SameSplits
<1>2. ASSUME NEW examples PROVE AssignSplits(examples, a) = AssignSplits(examples, b)
  BY <1>1, Zenon DEF AssignSplits
<1>3. ASSUME NEW examples PROVE TrainingRows(examples, a) = TrainingRows(examples, b)
  <2>1. \A names : InSplits(examples, a, names) = InSplits(examples, b, names)
    BY <1>2 DEF InSplits
  <2>. QED
    BY <2>1, Zenon DEF TrainingRows
<1>. QED
  BY <1>1, <1>2, <1>3

\* What a snapshot of these examples says besides its name and its splits.
Counted(examples, splits) ==
  LET rows_  == TrainingRows(examples, splits)
      n      == Cardinality(rows_)
      Count(split) == Cardinality({id \in Ids(examples) : AssignSplits(examples, splits)[id] = split})
  IN [inputs |-> {examples[i].input : i \in rows_}, valid |-> ValidOf(n), train |-> n - ValidOf(n),
      heldOut |-> Count("heldOut"), audit |-> Count("audit")]

\* The fields of a snapshot.
LEMMA SnapshotIs ==
  ASSUME NEW examples, NEW source, NEW splits
  PROVE  LET c == Counted(examples, splits)
         IN SnapshotOf(examples, source, splits) =
              [digest |-> Digest(source, splits), splits |-> splits, inputs |-> c.inputs, valid |-> c.valid,
               train |-> c.train, heldOut |-> c.heldOut, audit |-> c.audit]
<1>. DEFINE rows_ == TrainingRows(examples, splits)
            n == Cardinality(rows_)
            Count(split) == Cardinality({id \in Ids(examples) : AssignSplits(examples, splits)[id] = split})
            inputs == {examples[i].input : i \in rows_}
            valid == ValidOf(n)
            train == n - ValidOf(n)
            held == Count("heldOut")
            aud == Count("audit")
            name == Digest(source, splits)
<1>1. SnapshotOf(examples, source, splits) =
        [digest |-> name, splits |-> splits, inputs |-> inputs, valid |-> valid, train |-> train, heldOut |-> held, audit |-> aud]
  BY Zenon DEF SnapshotOf
<1>2. Counted(examples, splits) = [inputs |-> inputs, valid |-> valid, train |-> train, heldOut |-> held, audit |-> aud]
  BY Zenon DEF Counted
<1>. HIDE DEF inputs, valid, train, held, aud, name
<1>3. LET c == [inputs |-> inputs, valid |-> valid, train |-> train, heldOut |-> held, audit |-> aud]
      IN c.inputs = inputs /\ c.valid = valid /\ c.train = train /\ c.heldOut = held /\ c.audit = aud
  OBVIOUS
<1>. QED
  BY <1>1, <1>2, <1>3, Zenon DEF name

\* A name says what is counted: two snapshots with one name have the same content.
LEMMA NameSays ==
  ASSUME NEW s, NEW p, NEW t, NEW q,
         SnapshotOf(ToExamples(s), s, p).digest = SnapshotOf(ToExamples(t), t, q).digest
  PROVE  [SnapshotOf(ToExamples(s), s, p) EXCEPT !.splits = {}] = [SnapshotOf(ToExamples(t), t, q) EXCEPT !.splits = {}]
<1>1. \A e, x, y : SnapshotOf(e, x, y).digest = Digest(x, y)
  BY SnapshotIs
<1>2. s = t /\ SameSplits(p, q)
  <2>1. Digest(s, p) = Digest(t, q)
    BY <1>1, Zenon
  <2>. QED
    BY <2>1 DEF Digest, SameSplits
<1>3. Counted(ToExamples(s), p) = Counted(ToExamples(t), q)
  BY <1>2, SplitsDecide, ZenonT(60) DEF Counted
<1>4. ASSUME NEW e, NEW x, NEW y
      PROVE  [SnapshotOf(e, x, y) EXCEPT !.splits = {}] =
               LET c == Counted(e, y)
               IN [digest |-> Digest(x, y), splits |-> {}, inputs |-> c.inputs, valid |-> c.valid,
                   train |-> c.train, heldOut |-> c.heldOut, audit |-> c.audit]
  <2>. DEFINE c == Counted(e, y)
              name == Digest(x, y)
  <2>1. SnapshotOf(e, x, y) = [digest |-> name, splits |-> y, inputs |-> c.inputs, valid |-> c.valid,
                               train |-> c.train, heldOut |-> c.heldOut, audit |-> c.audit]
    BY SnapshotIs, Zenon
  <2>. HIDE DEF c, name
  <2>2. [SnapshotOf(e, x, y) EXCEPT !.splits = {}]
          = [digest |-> name, splits |-> {}, inputs |-> c.inputs, valid |-> c.valid,
             train |-> c.train, heldOut |-> c.heldOut, audit |-> c.audit]
    BY <2>1
  <2>. QED
    BY <2>2, Zenon DEF c, name
<1>5. Digest(s, p) = Digest(t, q)
  BY <1>1, Zenon
<1>. DEFINE Content(x, y, c) == [digest |-> Digest(x, y), splits |-> {}, inputs |-> c.inputs, valid |-> c.valid,
                                 train |-> c.train, heldOut |-> c.heldOut, audit |-> c.audit]
<1>6. \A e, x, y : [SnapshotOf(e, x, y) EXCEPT !.splits = {}] = Content(x, y, Counted(e, y))
  BY <1>4, Zenon
<1>7. Content(s, p, Counted(ToExamples(s), p)) = Content(t, q, Counted(ToExamples(t), q))
  BY <1>3, <1>5
<1>. HIDE DEF Content
<1>8. [SnapshotOf(ToExamples(s), s, p) EXCEPT !.splits = {}] = Content(s, p, Counted(ToExamples(s), p))
  BY <1>6
<1>9. [SnapshotOf(ToExamples(t), t, q) EXCEPT !.splits = {}] = Content(t, q, Counted(ToExamples(t), q))
  BY <1>6
<1>. QED
  BY <1>7, <1>8, <1>9

\* A version that was not torn has a snapshot of the content that was hashed.
SnapshotsAreWhole ==
  \A i \in DOMAIN versions :
    ~versions[i].torn =>
      \E source, splits : versions[i].snap = SnapshotOf(ToExamples(source), source, splits)

\* A version that is not torn keeps a snapshot of one state of the dataset.
LEMMA WholeStep ==
  ASSUME Shape, SnapshotsAreWhole, [Next]_vars
  PROVE  SnapshotsAreWhole'
<1>. SUFFICES ASSUME NEW i \in DOMAIN versions', ~versions'[i].torn
              PROVE  \E source, splits : versions'[i].snap = SnapshotOf(ToExamples(source), source, splits)
  BY DEF SnapshotsAreWhole
<1>1. CASE i \in DOMAIN versions
  <2>1. versions'[i].snap = versions[i].snap /\ versions'[i].torn = versions[i].torn
    BY <1>1, VersionKept
  <2>. QED
    BY <1>1, <2>1 DEF SnapshotsAreWhole
<1>2. CASE i \notin DOMAIN versions
  <2>. DEFINE v == NewVersion(submit.cfg, submit.examples, rows)
              splits == SplitsOfModel(submit.cfg.models[Model])
  <2>1. versions'[i] = v
    BY <1>2, EachVersion
  <2>2. \A cfg, examples, source : NewVersion(cfg, examples, source).torn <=> examples # ToExamples(source)
    BY NewMadeOf, Zenon
  <2>3. \A cfg, examples, source :
          NewVersion(cfg, examples, source).snap = SnapshotOf(examples, source, SplitsOfModel(cfg.models[Model]))
    BY NewSnapshot
  <2>. HIDE DEF v, splits
  <2>4. submit.examples = ToExamples(rows)
    BY <2>1, <2>2, Zenon DEF v
  <2>5. v.snap = SnapshotOf(ToExamples(rows), rows, splits)
    BY <2>3, <2>4, Zenon DEF v, splits
  <2>. QED
    BY <2>1, <2>5
<1>. QED
  BY <1>1, <1>2

\* Two versions with one hash have the same training inputs and the same counts.
THEOREM HashNames == Spec => []HashNamesTraining
<1>1. Init => SnapshotsAreWhole
  BY DEF Init, SnapshotsAreWhole
<1>2. Shape /\ SnapshotsAreWhole /\ [Next]_vars => SnapshotsAreWhole'
  BY WholeStep
<1>3. SnapshotsAreWhole => HashNamesTraining
  BY NameSays DEF SnapshotsAreWhole, HashNamesTraining
<1>. QED
  BY <1>1, <1>2, <1>3, ShapeIsInvariant, PTL DEF Spec

-----------------------------------------------------------------------------
(* What is trained and what is tested                                      *)

\* A submission that begins has read the dataset; one that ends leaves nothing.
LEMMA SubmitStep ==
  ASSUME [Next]_vars
  PROVE  \/ submit' = submit
         \/ submit' = Nobody
         \/ \E via \in Via : /\ submit' = [via |-> via, cfg |-> config, examples |-> ToExamples(rows)]
                             /\ SubmitProblem(config) = "none" /\ Len(versions) < MaxVersions
                             /\ UNCHANGED <<rows, versions, machine>> /\ submit = Nobody
<1>1. ASSUME NEW via \in Via, TrainBegins(via)
      PROVE  \/ submit' = submit
             \/ /\ submit' = [via |-> via, cfg |-> config, examples |-> ToExamples(rows)]
                /\ SubmitProblem(config) = "none" /\ Len(versions) < MaxVersions
                /\ UNCHANGED <<rows, versions, machine>> /\ submit = Nobody
  <2>1. UNCHANGED <<rows, versions, machine>> /\ Len(versions) < MaxVersions /\ submit = Nobody
    BY <1>1, Zenon DEF TrainBegins
  <2>. DEFINE problem == IF via = "cli" /\ ~LoadOk(config) THEN "issues" ELSE SubmitProblem(config)
  <2>2. \/ problem # "none" /\ submit' = submit
        \/ problem = "none" /\ submit' = [via |-> via, cfg |-> config, examples |-> ToExamples(rows)]
    BY <1>1, Zenon DEF TrainBegins
  <2>3. problem = "none" => SubmitProblem(config) = "none"
    OBVIOUS
  <2>. QED
    BY <2>1, <2>2, <2>3
<1>2. ASSUME TrainEnds PROVE submit' = Nobody
  BY <1>2, Zenon DEF TrainEnds
<1>3. ASSUME WorkerStarts \/ WorkerEnds \/ Follow \/ EvalCommand \/ Look \/ Answered PROVE submit' = submit
  BY <1>3, Zenon DEF WorkerStarts, WorkerEnds, Follow, EvalCommand, Look, Answered
<1>4. Gate => submit' = submit
  BY Zenon DEF Gate
<1>5. ASSUME NEW via \in Via, NEW version \in 0..MaxVersions, NEW force \in BOOLEAN, NEW reason \in BOOLEAN,
             NEW restart \in {"done", "not-running", "failed"}, Promote(via, version, force, reason, restart)
      PROVE  submit' = submit
  BY <1>5, Zenon DEF Promote
<1>6. ASSUME NEW via \in Via, NEW name \in KeyNames,
             RevokeKey(via, name) \/ \E budget \in Budgets : CreateKey(via, name, budget)
      PROVE  submit' = submit
  BY <1>6 DEF RevokeKey, CreateKey
<1>7. ASSUME NEW req \in Requests, Ask(req) PROVE submit' = submit
  BY <1>7 DEF Ask
<1>8. ASSUME NEW f \in Edits, Edit(f) PROVE submit' = submit
  BY <1>8 DEF Edit
<1>9. ASSUME NEW row \in Feed, Arrive(row) PROVE submit' = submit
  BY <1>9 DEF Arrive
<1>10. ASSUME UNCHANGED vars PROVE submit' = submit
  BY <1>10 DEF vars
<1>. QED
  BY <1>1, <1>2, <1>3, <1>4, <1>5, <1>6, <1>7, <1>8, <1>9, <1>10 DEF Next, Step

\* Examples whose ids name one input each.
OneInputEach(examples) ==
  /\ \E n \in Nat : DOMAIN examples = 1..n
  /\ \A i, j \in DOMAIN examples : examples[i].id = examples[j].id => examples[i].input = examples[j].input

\* The last example with an id is one that has it.
LEMMA LastOfIs ==
  ASSUME NEW examples, NEW n \in Nat, DOMAIN examples = 1..n, NEW i \in DOMAIN examples
  PROVE  /\ LastOf(examples, examples[i].id) \in DOMAIN examples
         /\ examples[LastOf(examples, examples[i].id)].id = examples[i].id
<1>. DEFINE id == examples[i].id
            S  == {j \in DOMAIN examples : examples[j].id = id}
            D  == {n - j : j \in S}
<1>1. D \subseteq Nat /\ D # {}
  <2>1. i \in S
    OBVIOUS
  <2>2. n - i \in D
    BY <2>1
  <2>3. \A j \in S : n - j \in Nat
    OBVIOUS
  <2>. QED
    BY <2>2, <2>3, Zenon
<1>2. PICK d \in D : \A e \in D : d <= e
  BY <1>1, LeastNumber, Zenon
<1>3. PICK l \in S : d = n - l
  BY Zenon
<1>4. \A j \in S : j <= l
  <2>. TAKE j \in S
  <2>1. n - j \in D
    BY Zenon
  <2>2. n - l <= n - j
    BY <1>2, <1>3, <2>1
  <2>3. j \in Nat /\ l \in Nat
    OBVIOUS
  <2>. HIDE DEF S, D
  <2>. QED
    BY <2>2, <2>3
<1>5. /\ l \in DOMAIN examples /\ examples[l].id = id
      /\ \A j \in DOMAIN examples : examples[j].id = id => j <= l
  BY <1>4
<1>. HIDE DEF S, D, id
<1>6. /\ LastOf(examples, id) \in DOMAIN examples
      /\ examples[LastOf(examples, id)].id = id
  BY <1>5, Zenon DEF LastOf
<1>. QED
  BY <1>6, Zenon DEF id

\* The split of an example is where its own input falls.
LEMMA SplitOfExample ==
  ASSUME NEW examples, OneInputEach(examples), NEW splits, NEW i \in DOMAIN examples
  PROVE  AssignSplits(examples, splits)[examples[i].id] = SplitOf(examples[i].input, splits)
<1>1. PICK n \in Nat : DOMAIN examples = 1..n
  BY DEF OneInputEach
<1>. DEFINE l == LastOf(examples, examples[i].id)
<1>2. l \in DOMAIN examples /\ examples[l].id = examples[i].id
  BY <1>1, LastOfIs
<1>. HIDE DEF l
<1>3. examples[l].input = examples[i].input
  BY <1>2, Zenon DEF OneInputEach
<1>4. examples[i].id \in Ids(examples)
  BY DEF Ids
<1>5. AssignSplits(examples, splits)[examples[i].id] = SplitOf(examples[l].input, splits)
  BY <1>4, Zenon DEF AssignSplits, l
<1>. QED
  BY <1>3, <1>5

\* The inputs of a snapshot fall in the training split.
LEMMA TrainedFallInTraining ==
  ASSUME NEW examples, OneInputEach(examples), NEW source, NEW splits,
         NEW input \in SnapshotOf(examples, source, splits).inputs
  PROVE  SplitOf(input, splits) = "train"
<1>1. SnapshotOf(examples, source, splits).inputs = {examples[i].input : i \in TrainingRows(examples, splits)}
  <2>. DEFINE inputs == {examples[i].input : i \in TrainingRows(examples, splits)}
  <2>1. Counted(examples, splits).inputs = inputs
    BY Zenon DEF Counted
  <2>. HIDE DEF inputs
  <2>2. SnapshotOf(examples, source, splits).inputs = Counted(examples, splits).inputs
    BY SnapshotIs
  <2>. QED
    BY <2>1, <2>2 DEF inputs
<1>2. PICK i \in TrainingRows(examples, splits) : input = examples[i].input
  BY <1>1
<1>3. i \in InSplits(examples, splits, {"train"})
  BY <1>2, Zenon DEF TrainingRows
<1>4. i \in DOMAIN examples /\ AssignSplits(examples, splits)[examples[i].id] = "train"
  BY <1>3 DEF InSplits
<1>. QED
  BY <1>2, <1>4, SplitOfExample

\* The inputs that an evaluation tests do not.
LEMMA TestedFallOutside ==
  ASSUME OneInputEach(ToExamples(rows)), NEW m, NEW x \in TestedRows(m)
  PROVE  SplitOf(x.input, SplitsOfModel(m)) # "train"
<1>. DEFINE examples == ToExamples(rows)
            splits   == SplitsOfModel(m)
<1>1. PICK i \in Chosen(examples, splits) : x = ToExample(rows[i])
  BY Zenon DEF TestedRows
<1>2. i \in DOMAIN examples /\ AssignSplits(examples, splits)[examples[i].id] \in {"heldOut", "audit"}
  BY <1>1 DEF Chosen, InSplits
<1>3. examples[i] = x
  BY <1>1, <1>2 DEF ToExamples
<1>. HIDE DEF examples, splits
<1>4. AssignSplits(examples, splits)[examples[i].id] = SplitOf(examples[i].input, splits)
  BY <1>2, SplitOfExample DEF examples
<1>. QED
  BY <1>2, <1>3, <1>4 DEF splits

\* Where ids are unique they are so in the examples, and were in earlier rows.
LEMMA UniqueExamples ==
  ASSUME Shape, IdsAreUnique
  PROVE  OneInputEach(ToExamples(rows))
<1>1. Len(rows) \in Nat /\ DOMAIN rows = 1..Len(rows)
  BY Grown DEF Shape
<1>2. DOMAIN ToExamples(rows) = DOMAIN rows
  BY DEF ToExamples
<1>3. \A i \in DOMAIN rows : ToExamples(rows)[i].id = IdOf(rows[i]) /\ ToExamples(rows)[i].input = InputOf(rows[i])
  BY Zenon DEF ToExamples, ToExample
<1>. DEFINE examples == ToExamples(rows)
<1>. HIDE DEF examples
<1>4. \E n \in Nat : DOMAIN examples = 1..n
  BY <1>1, <1>2 DEF examples
<1>5. ASSUME NEW i \in DOMAIN examples, NEW j \in DOMAIN examples, examples[i].id = examples[j].id
      PROVE  examples[i].input = examples[j].input
  <2>1. i \in DOMAIN rows /\ j \in DOMAIN rows
    BY <1>2, <1>5 DEF examples
  <2>2. IdOf(rows[i]) = IdOf(rows[j])
    BY <1>3, <1>5, <2>1, Zenon DEF examples
  <2>3. InputOf(rows[i]) = InputOf(rows[j])
    BY <2>1, <2>2, Zenon DEF IdsAreUnique
  <2>. QED
    BY <1>3, <2>1, <2>3, Zenon DEF examples
<1>6. OneInputEach(examples)
  BY <1>4, <1>5, Zenon DEF OneInputEach
<1>. QED
  BY <1>6 DEF examples

\* Rows only arrive: where one id is one input now, it was before.
LEMMA UniqueBefore ==
  ASSUME Shape, [Next]_vars, IdsAreUnique'
  PROVE  IdsAreUnique
<1>1. CASE rows' = rows
  BY <1>1 DEF IdsAreUnique
<1>2. CASE \E row : rows' = Append(rows, row)
  <2>1. PICK row : rows' = Append(rows, row)
    BY <1>2
  <2>2. DOMAIN rows \subseteq DOMAIN rows' /\ \A i \in DOMAIN rows : rows'[i] = rows[i]
    BY <2>1, Grown DEF Shape
  <2>. QED
    BY <2>2 DEF IdsAreUnique
<1>. QED
  BY <1>1, <1>2, RowsStep, Zenon DEF Arrive

\* While ids are unique: a submission has read unique ids, every version was trained on
\* inputs of its training split, and every evaluation tested inputs outside of it.
InputsStayApart ==
  IdsAreUnique =>
    /\ submit # Nobody => OneInputEach(submit.examples)
    /\ \A i \in DOMAIN versions : \A input \in versions[i].snap.inputs : SplitOf(input, versions[i].snap.splits) = "train"
    /\ \A i \in DOMAIN versions : \A x \in versions[i].tested : SplitOf(x.input, x.splits) # "train"

\* Every step keeps what is trained on and what is tested in their splits.
LEMMA ApartStep ==
  ASSUME Shape, InputsStayApart, [Next]_vars
  PROVE  InputsStayApart'
<1>. SUFFICES ASSUME IdsAreUnique'
              PROVE  /\ (submit # Nobody => OneInputEach(submit.examples))'
                     /\ \A i \in DOMAIN versions' :
                          \A input \in versions'[i].snap.inputs : SplitOf(input, versions'[i].snap.splits) = "train"
                     /\ \A i \in DOMAIN versions' : \A x \in versions'[i].tested : SplitOf(x.input, x.splits) # "train"
  BY DEF InputsStayApart
<1>1. IdsAreUnique
  BY UniqueBefore
<1>2. OneInputEach(ToExamples(rows))
  BY <1>1, UniqueExamples
<1>3. (submit # Nobody => OneInputEach(submit.examples))'
  <2>1. CASE submit' = submit
    BY <1>1, <2>1 DEF InputsStayApart
  <2>2. CASE submit' = Nobody
    BY <2>2 DEF Nobody
  <2>3. ASSUME NEW via, submit' = [via |-> via, cfg |-> config, examples |-> ToExamples(rows)]
        PROVE  OneInputEach(submit'.examples)
    BY <1>2, <2>3
  <2>. QED
    BY <2>1, <2>2, <2>3, SubmitStep
<1>4. ASSUME NEW i \in DOMAIN versions', NEW input \in versions'[i].snap.inputs
      PROVE  SplitOf(input, versions'[i].snap.splits) = "train"
  <2>1. CASE i \in DOMAIN versions
    BY <1>1, <1>4, <2>1, VersionKept DEF InputsStayApart
  <2>2. CASE i \notin DOMAIN versions
    <3>. DEFINE splits == SplitsOfModel(submit.cfg.models[Model])
    <3>1. submit # Nobody /\ versions'[i] = NewVersion(submit.cfg, submit.examples, rows)
      BY <2>2, EachVersion DEF Submitted
    <3>2. versions'[i].snap = SnapshotOf(submit.examples, rows, splits)
      BY <3>1, NewSnapshot
    <3>. HIDE DEF splits
    <3>3. versions'[i].snap.splits = splits
      BY <3>2, SnapshotIs
    <3>4. OneInputEach(submit.examples)
      BY <1>1, <3>1 DEF InputsStayApart
    <3>. QED
      BY <1>4, <3>2, <3>3, <3>4, TrainedFallInTraining
  <2>. QED
    BY <2>1, <2>2
<1>5. ASSUME NEW i \in DOMAIN versions', NEW x \in versions'[i].tested
      PROVE  SplitOf(x.input, x.splits) # "train"
  <2>1. CASE i \notin DOMAIN versions
    <3>1. versions'[i] = NewVersion(submit.cfg, submit.examples, rows)
      BY <2>1, EachVersion
    <3>2. NewVersion(submit.cfg, submit.examples, rows).tested = {}
      BY NewIs
    <3>. QED
      BY <1>5, <3>1, <3>2
  <2>2. CASE i \in DOMAIN versions /\ versions'[i].tested = versions[i].tested
    BY <1>1, <1>5, <2>2 DEF InputsStayApart
  <2>3. ASSUME NEW cfg, i \in DOMAIN versions,
               versions'[i].tested = {[input |-> y.input, splits |-> SplitsOfModel(cfg.models[Model])] :
                                        y \in TestedRows(cfg.models[Model])}
        PROVE  SplitOf(x.input, x.splits) # "train"
    <3>. DEFINE m == cfg.models[Model]
    <3>1. PICK y \in TestedRows(m) : x = [input |-> y.input, splits |-> SplitsOfModel(m)]
      BY <1>5, <2>3
    <3>. HIDE DEF m
    <3>2. SplitOf(y.input, SplitsOfModel(m)) # "train"
      BY <1>2, TestedFallOutside
    <3>. QED
      BY <3>1, <3>2
  <2>4. ASSUME i \in DOMAIN versions, AsGated(versions[i], versions'[i])
        PROVE  \/ versions'[i].tested = versions[i].tested
               \/ \E cfg : versions'[i].tested = {[input |-> y.input, splits |-> SplitsOfModel(cfg.models[Model])] :
                                                    y \in TestedRows(cfg.models[Model])}
    <3>1. Fields \subseteq DOMAIN versions[i]
      BY <2>4 DEF Shape
    <3>2. PICK cfg : versions'[i] = AsFailed(cfg, versions[i]) \/ \E results : versions'[i] = AsJudged(cfg, versions[i], results)
      BY <2>4, Zenon DEF AsGated
    <3>3. AsFailed(cfg, versions[i]).tested = versions[i].tested
      BY <3>1, FailedIs
    <3>4. ASSUME NEW results
          PROVE  AsJudged(cfg, versions[i], results).tested =
                   {[input |-> y.input, splits |-> SplitsOfModel(cfg.models[Model])] : y \in TestedRows(cfg.models[Model])}
      BY <3>1, JudgedTested, Zenon
    <3>. QED
      BY <3>2, <3>3, <3>4, Zenon
  <2>5. i \in DOMAIN versions /\ WithStatus(versions[i], versions'[i]) => versions'[i].tested = versions[i].tested
    BY DEF WithStatus
  <2>. QED
    BY <2>1, <2>2, <2>3, <2>4, <2>5, EachVersion
<1>. QED
  BY <1>3, <1>4, <1>5

\* No version was trained on an input that an evaluation tests.
THEOREM NeverTrainedOnATest == Spec => []TrainedNeverTested
<1>1. Init => InputsStayApart
  BY DEF Init, InputsStayApart, Nobody
<1>2. Shape /\ InputsStayApart /\ [Next]_vars => InputsStayApart'
  BY ApartStep
<1>3. InputsStayApart => TrainedNeverTested
  BY SplitsDecide DEF InputsStayApart, TrainedNeverTested
<1>. QED
  BY <1>1, <1>2, <1>3, ShapeIsInvariant, PTL DEF Spec

-----------------------------------------------------------------------------
(* Types                                                                   *)

\* The codes of the console and of the command line.
LEMMA CodesAre ==
  /\ \A problem : TrainCode(problem) \in Codes /\ PromoteCode(problem) \in Codes
  /\ \A cfg, code : code \in Codes => Exit(cfg, code) \in Codes
  /\ \A cfg, problem : TrainExit(cfg, problem) \in Codes
  /\ \A cfg, problem, restart : PromoteExit(cfg, problem, restart) \in Codes
  /\ \A name, budget : CreateCode(name, budget) \in Codes /\ (CreateCode(name, budget) = 200 => Strip(name) # "")
  /\ \A cfg, name : CreateExit(cfg, name) \in Codes /\ (CreateExit(cfg, name) = 0 => name # "")
  /\ \A count : RevokeCode(count) \in Codes
  /\ \A cfg, count : RevokeExit(cfg, count) \in Codes
  /\ \A req, cfg : Precheck(req, cfg) \in Codes
  /\ \A name, req, cfg, known : ReadCode(name, req, cfg, known) \in Codes
  /\ \A cfg : \A gateway \in {0, 200, 401, 429} : ChatCode(cfg, gateway) \in Codes
  /\ \A cfg, decision : EvalExit(cfg, decision) \in Codes
  /\ \A status, job : FollowExit(status, job) \in Codes
  /\ \A cfg : ValidateExit(cfg) \in Codes
  /\ \A cfg, since : UsageExit(cfg, since) \in Codes
  /\ InitExit(TRUE, FALSE) \in Codes
<1>1. \A problem : TrainCode(problem) \in Codes
  BY DEF TrainCode, Codes
<1>2. \A problem : PromoteCode(problem) \in Codes
  BY DEF PromoteCode, Codes
<1>3. \A cfg, code : code \in Codes => Exit(cfg, code) \in Codes
  BY DEF Exit, Codes
<1>4. \A cfg, problem : TrainExit(cfg, problem) \in Codes
  BY DEF TrainExit, Exit, Failed, Codes
<1>5. \A cfg, problem, restart : PromoteExit(cfg, problem, restart) \in Codes
  BY DEF PromoteExit, Exit, Codes
<1>6. \A name, budget : CreateCode(name, budget) \in Codes /\ (CreateCode(name, budget) = 200 => Strip(name) # "")
  <2>1. \A name, budget : CreateCode(name, budget) \in Codes
    BY DEF CreateCode, Codes
  <2>2. 400 # 200
    OBVIOUS
  <2>3. \A name, budget : CreateCode(name, budget) = 200 => Strip(name) # ""
    BY <2>2, Zenon DEF CreateCode
  <2>. QED
    BY <2>1, <2>3
<1>7. \A cfg, name : CreateExit(cfg, name) \in Codes /\ (CreateExit(cfg, name) = 0 => name # "")
  <2>1. \A cfg, name : CreateExit(cfg, name) \in Codes
    BY DEF CreateExit, Exit, Codes
  <2>2. \A cfg, name : CreateExit(cfg, name) = 0 => name # ""
    <3>. SUFFICES ASSUME NEW cfg PROVE CreateExit(cfg, "") # 0
      OBVIOUS
    <3>. QED
      BY DEF CreateExit, Exit
  <2>. QED
    BY <2>1, <2>2
<1>8. \A count : RevokeCode(count) \in Codes
  BY DEF RevokeCode, Codes
<1>9. \A cfg, count : RevokeExit(cfg, count) \in Codes
  BY DEF RevokeExit, Exit, Codes
<1>10. \A req, cfg : Precheck(req, cfg) \in Codes
  <2>. TAKE req, cfg
  <2>. DEFINE found == Found(req)
              usable == Usable(cfg)
              isApi == IsApi(req)
              early == CASE req.path = <<"healthz">> -> 200
                         [] req.path # <<"healthz">> /\ ~isApi -> IF req.method = "GET" THEN 200 ELSE 405
                         [] isApi ->
                              IF req.token = "none" THEN 401 ELSE IF ~usable THEN 500 ELSE IF req.token # "master" THEN 401
                              ELSE IF req.method = "GET" THEN (IF found = {} THEN 404 ELSE 0)
                              ELSE IF req.body.size > 1 THEN 413 ELSE IF req.body.type # "object" THEN 400
                              ELSE IF found = {} THEN 404 ELSE 0
  <2>1. Precheck(req, cfg) = early
    BY Zenon DEF Precheck
  <2>. HIDE DEF found, usable, isApi
  <2>2. early \in Codes
    BY DEF Codes
  <2>. QED
    BY <2>1, <2>2
<1>11. \A name, req, cfg, known : ReadCode(name, req, cfg, known) \in Codes
  BY DEF ReadCode, Codes
<1>12. \A cfg : \A gateway \in {0, 200, 401, 429} : ChatCode(cfg, gateway) \in Codes
  BY DEF ChatCode, Codes
<1>13. \A cfg, decision : EvalExit(cfg, decision) \in Codes
  BY DEF EvalExit, Exit, Codes
<1>14. \A status, job : FollowExit(status, job) \in Codes
  BY DEF FollowExit, Codes
<1>15. \A cfg : ValidateExit(cfg) \in Codes
  BY DEF ValidateExit, Exit, Codes
<1>16. \A cfg, since : UsageExit(cfg, since) \in Codes
  BY DEF UsageExit, Exit, Codes
<1>17. InitExit(TRUE, FALSE) \in Codes
  BY DEF InitExit, Codes
<1>. QED
  BY <1>1, <1>2, <1>3, <1>4, <1>5, <1>6, <1>7, <1>8, <1>9, <1>10, <1>11, <1>12, <1>13, <1>14, <1>15, <1>16, <1>17, ZenonT(60)

\* The reply of a step, and the keys, the bound on edits and the worker after it.
LEMMA ReplyStep ==
  ASSUME [Next]_vars, reply \in Codes \cup {NoReply}
  PROVE  reply' \in Codes \cup {NoReply}
<1>1. ASSUME NEW via \in Via, TrainBegins(via) PROVE reply' \in Codes \cup {NoReply}
  <2>. DEFINE problem == IF via = "cli" /\ ~LoadOk(config) THEN "issues" ELSE SubmitProblem(config)
  <2>1. TrainReply(via, config, problem) \/ reply' = NoReply
    BY <1>1, Zenon DEF TrainBegins
  <2>. HIDE DEF problem
  <2>. QED
    BY <2>1, CodesAre, ZenonT(60) DEF TrainReply, Reply
<1>2. ASSUME TrainEnds PROVE reply' \in Codes \cup {NoReply}
  <2>. DEFINE problem == SnapshotProblem(submit.cfg, submit.examples)
  <2>1. TrainReply(submit.via, submit.cfg, problem)
    BY <1>2, Zenon DEF TrainEnds
  <2>. HIDE DEF problem
  <2>. QED
    BY <2>1, CodesAre DEF TrainReply, Reply
<1>3. ASSUME WorkerStarts \/ WorkerEnds \/ Answered PROVE reply' \in Codes \cup {NoReply}
  BY <1>3 DEF WorkerStarts, WorkerEnds, Answered
<1>4. Gate => reply' = NoReply
  BY Zenon DEF Gate
<1>5. Follow => reply' \in Codes
  <2>1. Follow => \E status, job : reply' = FollowExit(status, job)
    BY Zenon DEF Follow, Reply
  <2>. QED
    BY <2>1, CodesAre, ZenonT(60)
<1>6. ASSUME NEW via \in Via, NEW version \in 0..MaxVersions, NEW force \in BOOLEAN, NEW reason \in BOOLEAN,
             NEW restart \in {"done", "not-running", "failed"}, Promote(via, version, force, reason, restart)
      PROVE  reply' \in Codes
  <2>1. \E problem : reply' = PromoteReply(via, problem, restart)
    BY <1>6, Zenon DEF Promote, Reply
  <2>. QED
    BY <2>1, CodesAre, ZenonT(60) DEF PromoteReply
<1>7. ASSUME NEW via \in Via, NEW name \in KeyNames, NEW budget \in Budgets, CreateKey(via, name, budget)
      PROVE  reply' \in Codes
  <2>1. reply' = CreateReply(via, name, budget)
    BY <1>7, Zenon DEF CreateKey, Reply
  <2>. QED
    BY <2>1, CodesAre DEF CreateReply
<1>8. ASSUME NEW via \in Via, NEW name \in KeyNames, RevokeKey(via, name) PROVE reply' \in Codes
  <2>1. \E count : reply' = RevokeReply(via, count)
    BY <1>8, Zenon DEF RevokeKey, Reply
  <2>. QED
    BY <2>1, CodesAre, ZenonT(60) DEF RevokeReply
<1>9. ASSUME NEW req \in Requests, Ask(req) PROVE reply' \in Codes
  <2>1. \/ reply' = Precheck(req, config)
        \/ \E name, known : reply' = ReadCode(name, req, config, known)
        \/ \E gateway \in {0, 200, 401, 429} : reply' = ChatCode(config, gateway)
    BY <1>9, Zenon DEF Ask, Reply
  <2>2. Precheck(req, config) \in Codes
    BY CodesAre
  <2>3. \A name, known : ReadCode(name, req, config, known) \in Codes
    BY CodesAre
  <2>4. \A gateway \in {0, 200, 401, 429} : ChatCode(config, gateway) \in Codes
    BY DEF ChatCode, Codes
  <2>. QED
    BY <2>1, <2>2, <2>3, <2>4
<1>10. EvalCommand => reply' \in Codes
  <2>1. EvalCommand => \E decision : reply' = EvalExit(config, decision)
    BY Zenon DEF EvalCommand, Reply
  <2>. QED
    BY <2>1, CodesAre, ZenonT(60)
<1>11. Look => reply' \in Codes
  <2>1. Look => \/ reply' = ValidateExit(config) \/ reply' = InitExit(TRUE, FALSE)
                \/ \E since : reply' = UsageExit(config, since)
    BY Zenon DEF Look, Reply
  <2>. QED
    BY <2>1, CodesAre, ZenonT(60)
<1>12. ASSUME NEW f \in Edits, Edit(f) PROVE reply' = NoReply
  BY <1>12 DEF Edit
<1>13. ASSUME NEW row \in Feed, Arrive(row) PROVE reply' = NoReply
  BY <1>13 DEF Arrive
<1>14. ASSUME UNCHANGED vars PROVE reply' = reply
  BY <1>14 DEF vars
<1>. QED
  BY <1>1, <1>2, <1>3, <1>4, <1>5, <1>6, <1>7, <1>8, <1>9, <1>10, <1>11, <1>12, <1>13, <1>14 DEF Next, Step

\* What a step does to the keys, the edits, the worker, the machine and the file.
LEMMA RestStep ==
  ASSUME [Next]_vars
  PROVE  /\ \/ keys' = keys
            \/ \E name \in KeyNames : keys' = keys \ {name} \/ (name # "" /\ keys' = keys \cup {name})
         /\ edits' = edits \/ (edits > 0 /\ edits' = edits - 1)
         /\ worker' = worker \/ worker' = {} \/ worker' = {config}
         /\ machine' = machine
         /\ config' = config \/ \E f \in Edits : config' = Load(f)
<1>1. ASSUME NEW via \in Via, TrainBegins(via) PROVE UNCHANGED <<keys, edits, worker, machine, config>>
  BY <1>1 DEF TrainBegins
<1>2. ASSUME TrainEnds \/ Follow \/ EvalCommand \/ Look \/ Answered PROVE UNCHANGED <<keys, edits, worker, machine, config>>
  BY <1>2, Zenon DEF TrainEnds, Follow, EvalCommand, Look, Answered
<1>3. Gate => UNCHANGED <<keys, edits, worker, machine, config>>
  BY Zenon DEF Gate
<1>4. ASSUME WorkerStarts \/ WorkerEnds
      PROVE  UNCHANGED <<keys, edits, machine, config>> /\ (worker' = {} \/ worker' = {config})
  BY <1>4 DEF WorkerStarts, WorkerEnds
<1>5. ASSUME NEW via \in Via, NEW version \in 0..MaxVersions, NEW force \in BOOLEAN, NEW reason \in BOOLEAN,
             NEW restart \in {"done", "not-running", "failed"}, Promote(via, version, force, reason, restart)
      PROVE  UNCHANGED <<keys, edits, worker, machine, config>>
  BY <1>5, Zenon DEF Promote
<1>6. ASSUME NEW via \in Via, NEW name \in KeyNames, NEW budget \in Budgets, CreateKey(via, name, budget)
      PROVE  /\ UNCHANGED <<edits, worker, machine, config>>
             /\ keys' = keys \/ \E kept \in KeyNames : kept # "" /\ keys' = keys \cup {kept}
  <2>1. /\ UNCHANGED <<edits, worker, machine, config>>
        /\ keys' = IF Granted(via, CreateReply(via, name, budget)) THEN keys \cup {Kept(via, name)} ELSE keys
    BY <1>6, Zenon DEF CreateKey
  <2>2. Granted(via, CreateReply(via, name, budget)) => Kept(via, name) # ""
    BY CodesAre, Zenon DEF Granted, CreateReply, Kept
  <2>3. Kept(via, name) \in KeyNames
    BY DEF Kept, Strip, KeyNames
  <2>. QED
    BY <2>1, <2>2, <2>3
<1>7. ASSUME NEW via \in Via, NEW name \in KeyNames, RevokeKey(via, name)
      PROVE  UNCHANGED <<edits, worker, machine, config>> /\ (keys' = keys \/ keys' = keys \ {name})
  BY <1>7, Zenon DEF RevokeKey
<1>8. ASSUME NEW req \in Requests, Ask(req) PROVE UNCHANGED <<keys, edits, worker, machine, config>>
  BY <1>8 DEF Ask
<1>9. ASSUME NEW f \in Edits, Edit(f)
      PROVE  UNCHANGED <<keys, worker, machine>> /\ edits > 0 /\ edits' = edits - 1 /\ config' = Load(f)
  BY <1>9 DEF Edit
<1>10. ASSUME NEW row \in Feed, Arrive(row) PROVE UNCHANGED <<keys, edits, worker, machine, config>>
  BY <1>10 DEF Arrive
<1>11. ASSUME UNCHANGED vars PROVE UNCHANGED <<keys, edits, worker, machine, config>>
  BY <1>11 DEF vars
<1>. DEFINE Rest == /\ \/ keys' = keys
                       \/ \E name \in KeyNames : keys' = keys \ {name} \/ (name # "" /\ keys' = keys \cup {name})
                    /\ edits' = edits \/ (edits > 0 /\ edits' = edits - 1)
                    /\ worker' = worker \/ worker' = {} \/ worker' = {config}
                    /\ machine' = machine
                    /\ config' = config \/ \E f \in Edits : config' = Load(f)
<1>12. UNCHANGED <<keys, edits, worker, machine, config>> => Rest
  OBVIOUS
<1>13. ASSUME WorkerStarts \/ WorkerEnds PROVE Rest
  BY <1>4, <1>13
<1>14. ASSUME NEW via \in Via, NEW name \in KeyNames, RevokeKey(via, name) \/ \E budget \in Budgets : CreateKey(via, name, budget)
       PROVE  Rest
  BY <1>6, <1>7, <1>14
<1>15. ASSUME NEW f \in Edits, Edit(f) PROVE Rest
  BY <1>9, <1>15
<1>. HIDE DEF Rest
<1>16. Rest
  BY <1>1, <1>2, <1>3, <1>5, <1>8, <1>10, <1>11, <1>12, <1>13, <1>14, <1>15 DEF Next, Step
<1>. QED
  BY <1>16 DEF Rest

\* The type invariant, with what is used to keep it: there is room for the version of a
\* submission, and the worker has one configuration.
TypeInv ==
  /\ Shape /\ WorkflowTypeOK
  /\ submit # Nobody => Len(versions) < MaxVersions
  /\ worker = {} \/ \E c : worker = {c}

\* The types hold where things start.
LEMMA TypeInit == Init => TypeInv
<1>. SUFFICES ASSUME Init PROVE TypeInv
  OBVIOUS
<1>1. Shape
  BY ShapeInit
<1>2. Len(rows) <= MaxRows /\ edits \in Nat
  BY WorkflowAssumption DEF Init
<1>3. Len(versions) = 0 /\ DOMAIN versions = {}
  BY DEF Init
<1>4. Cardinality(worker) <= 1
  BY FS_EmptySet DEF Init
<1>5. WorkflowTypeOK
  BY <1>2, <1>3, <1>4, WorkflowAssumption DEF Init, WorkflowTypeOK, NoReply
<1>. QED
  BY <1>1, <1>5 DEF Init, TypeInv

\* Every step keeps the types.
LEMMA TypeStep ==
  ASSUME TypeInv, [Next]_vars
  PROVE  TypeInv'
<1>1. Shape'
  BY ShapeStep DEF TypeInv
<1>2. Len(rows') <= MaxRows
  <2>1. CASE rows' = rows
    BY <2>1 DEF TypeInv, WorkflowTypeOK
  <2>2. CASE \E row : rows' = Append(rows, row) /\ Len(rows) < MaxRows
    BY <2>2, Grown, WorkflowAssumption DEF TypeInv, Shape
  <2>. QED
    BY <2>1, <2>2, RowsStep, Zenon DEF Arrive
<1>3. /\ Len(versions') <= MaxVersions
      /\ submit' # Nobody => Len(versions') < MaxVersions
  <2>1. Len(versions) \in Nat /\ Len(versions) <= MaxVersions /\ MaxVersions \in Nat
    BY Grown, WorkflowAssumption DEF TypeInv, Shape, WorkflowTypeOK
  <2>2. \/ Len(versions') = Len(versions)
        \/ Len(versions') = Len(versions) + 1 /\ submit # Nobody /\ submit' = Nobody
    BY EachVersion DEF Submitted, TypeInv
  <2>3. Len(versions') <= MaxVersions
    BY <2>1, <2>2 DEF TypeInv
  <2>4. ASSUME submit' # Nobody PROVE Len(versions') < MaxVersions
    <3>1. Len(versions') = Len(versions)
      BY <2>2, <2>4
    <3>2. Len(versions) < MaxVersions
      BY <2>4, SubmitStep DEF TypeInv
    <3>. QED
      BY <3>1, <3>2
  <2>. QED
    BY <2>3, <2>4
<1>4. keys' \subseteq KeyNames \ {""}
  BY RestStep DEF TypeInv, WorkflowTypeOK
<1>5. edits' \in Nat
  <2>1. edits \in Nat
    BY DEF TypeInv, WorkflowTypeOK
  <2>2. edits' = edits \/ (edits > 0 /\ edits' = edits - 1)
    BY RestStep
  <2>. QED
    BY <2>1, <2>2
<1>6. /\ worker' = {} \/ \E c : worker' = {c}
      /\ Cardinality(worker') <= 1
  <2>1. worker' = {} \/ \E c : worker' = {c}
    BY RestStep DEF TypeInv
  <2>2. CASE worker' = {}
    BY <2>2, FS_EmptySet
  <2>3. CASE \E c : worker' = {c}
    <3>1. Cardinality(worker') = 1
      BY <2>3, FS_Singleton
    <3>. QED
      BY <2>1, <3>1
  <2>. QED
    BY <2>1, <2>2, <2>3
<1>7. reply' \in Codes \cup {NoReply}
  BY ReplyStep DEF TypeInv, WorkflowTypeOK
<1>8. ASSUME NEW i \in DOMAIN versions' PROVE versions'[i].status \in Status
  <2>1. CASE i \notin DOMAIN versions
    <3>1. versions'[i] = NewVersion(submit.cfg, submit.examples, rows)
      BY <1>8, <2>1, EachVersion DEF TypeInv
    <3>2. NewVersion(submit.cfg, submit.examples, rows).status = "training"
      BY NewIs
    <3>. QED
      BY <3>1, <3>2 DEF Status
  <2>2. ASSUME i \in DOMAIN versions PROVE versions[i].status \in Status /\ Fields \subseteq DOMAIN versions[i]
    BY <2>2 DEF TypeInv, WorkflowTypeOK, Shape
  <2>3. ASSUME i \in DOMAIN versions, AsGated(versions[i], versions'[i]) PROVE versions'[i].status \in Status
    <3>1. PICK cfg : versions'[i] = AsFailed(cfg, versions[i]) \/ \E results : versions'[i] = AsJudged(cfg, versions[i], results)
      BY <2>3, Zenon DEF AsGated
    <3>2. AsFailed(cfg, versions[i]).status \in Status
      BY <2>2, <2>3, FailedIs DEF Status
    <3>3. ASSUME NEW results PROVE AsJudged(cfg, versions[i], results).status \in Status
      <4>1. Fields \subseteq DOMAIN versions[i]
        BY <2>2, <2>3
      <4>2. AsJudged(cfg, versions[i], results).status \in {"passed", "rejected"}
        BY <4>1, JudgedStatus
      <4>. QED
        BY <4>2 DEF Status
    <3>. QED
      BY <3>1, <3>2, <3>3
  <2>4. ASSUME i \in DOMAIN versions, WithStatus(versions[i], versions'[i]) PROVE versions'[i].status \in Status
    BY <2>2, <2>4 DEF WithStatus, Status
  <2>. QED
    BY <2>1, <2>2, <2>3, <2>4, EachVersion DEF TypeInv
<1>. QED
  BY <1>1, <1>2, <1>3, <1>4, <1>5, <1>6, <1>7, <1>8 DEF TypeInv, WorkflowTypeOK

\* Every state has the types of Workflow.tla.
THEOREM WorkflowTypes == Spec => []WorkflowTypeOK
<1>1. Init => TypeInv
  BY TypeInit
<1>2. TypeInv /\ [Next]_vars => TypeInv'
  BY TypeStep
<1>3. TypeInv => WorkflowTypeOK
  BY DEF TypeInv
<1>. QED
  BY <1>1, <1>2, <1>3, PTL DEF Spec

-----------------------------------------------------------------------------
(* Plans                                                                   *)

Files  == {s.file : s \in Setups} \cup Edits
Loaded == {Load(f) : f \in Files}

\* The numbers that overrides may give: config.py takes any, planner.py divides by the batch.
PositiveNumbers(o) ==
  /\ "batch_size" \in DOMAIN o => o["batch_size"] \in Nat \ {0}
  /\ "epochs" \in DOMAIN o => o["epochs"] \in Nat

OverridesArePositive ==
  \A cfg \in Loaded : \A n \in DOMAIN cfg.models : \A t \in cfg.models[n].train : PositiveNumbers(t.overrides)

Memory == Nat \cup {Unknown}

\* Before overrides a step of the optimizer sees EFFECTIVE_BATCH rows.
LEMMA PlanForIs ==
  ASSUME NEW engine, NEW params \in Memory, NEW pre, NEW memory \in Memory
  PROVE  LET p == PlanFor(engine, params, pre, memory)
         IN /\ p.batch \in {1, 2, 4, 8} /\ p.accumulation \in {1, 2, 4, 8} /\ p.batch * p.accumulation = EffectiveBatch
            /\ p.epochs = 100
            /\ {"quantize", "batch", "accumulation", "epochs", "checkpoint", "iters"} \subseteq DOMAIN p
<1>. DEFINE micro == MicroBatch(memory - (IF ~pre /\ Need16(params) <= memory THEN Need16(params) ELSE Need4(params)))
            acc   == IF EffectiveBatch \div micro > 1 THEN EffectiveBatch \div micro ELSE 1
            quant == engine = "trl"
            quant2 == ~pre /\ ~(~pre /\ Need16(params) <= memory)
            check == micro <= 2
            p == PlanFor(engine, params, pre, memory)
<1>1. params # Unknown /\ memory # Unknown => micro \in {1, 2, 4, 8}
  BY DEF MicroBatch, Need16, Need4, Memory, Unknown
<1>2. micro \in {1, 2, 4, 8} => acc \in {1, 2, 4, 8} /\ micro * acc = 8
  <2>. HIDE DEF micro
  <2>1. 8 \div 1 = 8 /\ 8 \div 2 = 4 /\ 8 \div 4 = 2 /\ 8 \div 8 = 1
    OBVIOUS
  <2>. QED
    BY <2>1 DEF EffectiveBatch
<1>3. p = IF params = Unknown THEN [DefaultPlan EXCEPT !.quantize = quant]
          ELSE IF memory = Unknown THEN DefaultPlan
          ELSE [DefaultPlan EXCEPT !.quantize = quant2, !.batch = micro, !.accumulation = acc, !.checkpoint = check]
  BY Zenon DEF PlanFor
<1>. HIDE DEF micro, acc, quant, quant2, check, p
<1>4. CASE params = Unknown
  <2>1. p = [DefaultPlan EXCEPT !.quantize = quant]
    BY <1>3, <1>4
  <2>. QED
    BY <2>1 DEF DefaultPlan, EffectiveBatch, p
<1>5. CASE params # Unknown /\ memory = Unknown
  <2>1. p = DefaultPlan
    BY <1>3, <1>5
  <2>. QED
    BY <2>1 DEF DefaultPlan, EffectiveBatch, p
<1>6. CASE params # Unknown /\ memory # Unknown
  <2>1. p = [DefaultPlan EXCEPT !.quantize = quant2, !.batch = micro, !.accumulation = acc, !.checkpoint = check]
    BY <1>3, <1>6
  <2>2. p.batch = micro /\ p.accumulation = acc /\ p.epochs = 100
    BY <2>1 DEF DefaultPlan
  <2>3. {"quantize", "batch", "accumulation", "epochs", "checkpoint", "iters"} \subseteq DOMAIN p
    BY <2>1 DEF DefaultPlan
  <2>. QED
    BY <1>1, <1>2, <1>6, <2>2, <2>3 DEF p, EffectiveBatch
<1>. QED
  BY <1>4, <1>5, <1>6

\* As many batches as it takes.
LEMMA CeilDivCovers ==
  ASSUME NEW a \in Int, NEW b \in Nat \ {0}
  PROVE  CeilDiv(a, b) \in Int /\ b * CeilDiv(a, b) >= a
<1>. DEFINE q == (a + b - 1) \div b
            r == (a + b - 1) % b
<1>1. q \in Int /\ r \in 0..(b - 1) /\ a + b - 1 = b * q + r
  OBVIOUS
<1>. HIDE DEF q, r
<1>2. b * q \in Int
  BY <1>1
<1>3. b * q >= a
  BY <1>1, <1>2
<1>. QED
  BY <1>1, <1>3 DEF CeilDiv, q

\* A planned run of a version that has so many rows to train on.
Covers(plan, o, n) ==
  /\ {"batch_size", "grad_accumulation"} \cap DOMAIN o = {} => plan.batch * plan.accumulation = EffectiveBatch
  /\ "iters" \notin DOMAIN o => plan.iters >= 10 /\ 100 * plan.iters * plan.batch >= plan.epochs * n

\* Overriding a plan of the planner leaves one that covers the data.
LEMMA OverrideCovers ==
  ASSUME NEW p, p.batch \in {1, 2, 4, 8}, p.accumulation \in {1, 2, 4, 8}, p.batch * p.accumulation = EffectiveBatch,
         p.epochs = 100, {"quantize", "batch", "accumulation", "epochs", "checkpoint", "iters"} \subseteq DOMAIN p,
         NEW o, PositiveNumbers(o), NEW n \in Int
  PROVE  Covers(Override(p, o, n), o, n)
<1>. DEFINE batch  == IF "batch_size" \in DOMAIN o THEN o["batch_size"] ELSE p.batch
            epochs == IF "epochs" \in DOMAIN o THEN o["epochs"] ELSE p.epochs
            acc    == IF "grad_accumulation" \in DOMAIN o THEN o["grad_accumulation"] ELSE p.accumulation
            quant  == IF "quantize" \in DOMAIN o THEN o["quantize"] ELSE p.quantize
            planned == AtLeast10(CeilDiv(epochs * n, 100 * batch))
            iters  == IF "iters" \in DOMAIN o THEN o["iters"] ELSE planned
            q      == Override(p, o, n)
<1>1. q = [p EXCEPT !.batch = batch, !.epochs = epochs, !.accumulation = acc, !.quantize = quant, !.iters = iters]
  BY Zenon DEF Override
<1>2. batch \in Nat \ {0} /\ epochs \in Int
  BY DEF PositiveNumbers
<1>3. planned \in Int /\ planned >= 10 /\ (100 * batch) * planned >= epochs * n
  <2>. HIDE DEF batch, epochs
  <2>. DEFINE a == epochs * n
              b == 100 * batch
              c == CeilDiv(a, b)
  <2>1. a \in Int /\ b \in Nat \ {0}
    BY <1>2
  <2>. HIDE DEF a, b
  <2>2. c \in Int /\ b * c >= a
    BY <2>1, CeilDivCovers
  <2>. HIDE DEF c
  <2>3. AtLeast10(c) \in Int /\ AtLeast10(c) >= 10 /\ AtLeast10(c) >= c
    BY <2>2 DEF AtLeast10
  <2>4. b * AtLeast10(c) >= b * c
    BY <2>1, <2>2, <2>3
  <2>5. b * AtLeast10(c) \in Int /\ b * c \in Int
    BY <2>1, <2>2, <2>3
  <2>6. b * AtLeast10(c) >= a
    BY <2>1, <2>2, <2>4, <2>5
  <2>. QED
    BY <2>3, <2>6 DEF a, b, c
<1>. HIDE DEF batch, epochs, acc, quant, planned, iters, q
<1>4. q.batch = batch /\ q.epochs = epochs /\ q.accumulation = acc /\ q.iters = iters
  BY <1>1, Zenon
<1>5. {"batch_size", "grad_accumulation"} \cap DOMAIN o = {} => q.batch * q.accumulation = EffectiveBatch
  BY <1>4 DEF batch, acc
<1>6. ASSUME "iters" \notin DOMAIN o PROVE q.iters >= 10 /\ 100 * q.iters * q.batch >= q.epochs * n
  <2>1. q.iters = planned
    BY <1>4, <1>6 DEF iters
  <2>2. 100 * planned * batch = (100 * batch) * planned
    BY <1>2, <1>3
  <2>. QED
    BY <1>3, <1>4, <2>1, <2>2
<1>. QED
  BY <1>5, <1>6 DEF Covers, q

\* The configurations are what files load as, a submission has read a dataset for a Model
\* with a train section, and a machine's numbers are numbers.
Sources ==
  /\ config \in Loaded /\ worker \subseteq Loaded
  /\ {machine.params, machine.memory} \subseteq Memory
  /\ submit # Nobody => /\ submit.cfg \in Loaded
                        /\ Model \in DOMAIN submit.cfg.models /\ submit.cfg.models[Model].train # {}
                        /\ \E n \in Nat : DOMAIN submit.examples = 1..n

\* What is configured at the start was loaded from a file of the instance.
LEMMA SourcesInit == Init => Sources
<1>. SUFFICES ASSUME Init PROVE Sources
  OBVIOUS
<1>1. PICK s \in Setups : config = Load(s.file) /\ machine = s.machine
  BY DEF Init
<1>. QED
  BY <1>1, WorkflowAssumption DEF Init, Sources, Loaded, Files, Memory

\* Configurations only come from files that are loaded, a submission from one with a train section.
LEMMA SourcesStep ==
  ASSUME Shape, Sources, [Next]_vars
  PROVE  Sources'
<1>1. config' \in Loaded
  BY RestStep DEF Sources, Loaded, Files
<1>2. worker' \subseteq Loaded
  BY RestStep DEF Sources
<1>3. {machine'.params, machine'.memory} \subseteq Memory
  BY RestStep DEF Sources
<1>4. ASSUME submit' # Nobody
      PROVE  /\ submit'.cfg \in Loaded
             /\ Model \in DOMAIN submit'.cfg.models /\ submit'.cfg.models[Model].train # {}
             /\ \E n \in Nat : DOMAIN submit'.examples = 1..n
  <2>1. CASE submit' = submit
    BY <1>4, <2>1 DEF Sources
  <2>2. ASSUME NEW via \in Via, submit' = [via |-> via, cfg |-> config, examples |-> ToExamples(rows)],
               SubmitProblem(config) = "none"
        PROVE  /\ submit'.cfg \in Loaded
               /\ Model \in DOMAIN submit'.cfg.models /\ submit'.cfg.models[Model].train # {}
               /\ \E n \in Nat : DOMAIN submit'.examples = 1..n
    <3>1. Model \in DOMAIN config.models /\ config.models[Model].train # {}
      <4>1. Model \notin DOMAIN config.models => SubmitProblem(config) = "no-Model"
        BY Zenon DEF SubmitProblem
      <4>2. Model \in DOMAIN config.models /\ config.models[Model].train = {} => SubmitProblem(config) = "no-train"
        BY Zenon DEF SubmitProblem
      <4>. QED
        BY <2>2, <4>1, <4>2
    <3>2. DOMAIN ToExamples(rows) = 1..Len(rows) /\ Len(rows) \in Nat
      BY Grown DEF ToExamples, Shape
    <3>3. submit'.cfg = config /\ submit'.examples = ToExamples(rows)
      BY <2>2
    <3>. QED
      BY <3>1, <3>2, <3>3 DEF Sources
  <2>. QED
    BY <1>4, <2>1, <2>2, SubmitStep
<1>. QED
  BY <1>1, <1>2, <1>3, <1>4 DEF Sources

\* The numbers of a snapshot.
LEMMA SnapshotCounts ==
  ASSUME NEW examples, NEW n \in Nat, DOMAIN examples = 1..n, NEW source, NEW splits
  PROVE  SnapshotOf(examples, source, splits).train \in Int
<1>. DEFINE T == TrainingRows(examples, splits)
            k == Cardinality(T)
<1>1. T \subseteq 1..n
  BY DEF TrainingRows, InSplits
<1>2. k \in Nat
  <2>1. IsFiniteSet(1..n)
    BY FS_Interval
  <2>. HIDE DEF T
  <2>2. IsFiniteSet(T)
    BY <1>1, <2>1, FS_Subset
  <2>. QED
    BY <2>2, FS_CardinalityType
<1>3. SnapshotOf(examples, source, splits).train = k - ValidOf(k)
  <2>. DEFINE train == k - ValidOf(k)
  <2>1. Counted(examples, splits).train = train
    BY Zenon DEF Counted
  <2>. HIDE DEF train
  <2>2. SnapshotOf(examples, source, splits).train = Counted(examples, splits).train
    BY SnapshotIs
  <2>. QED
    BY <2>1, <2>2 DEF train
<1>. HIDE DEF k
<1>. QED
  BY <1>2, <1>3 DEF ValidOf

PlansCover == \A i \in DOMAIN versions : Covers(versions[i].plan, versions[i].train.overrides, versions[i].snap.train)

\* Every step keeps the plans covering the data.
LEMMA PlansStep ==
  ASSUME OverridesArePositive, Shape, Sources, PlansCover, [Next]_vars
  PROVE  PlansCover'
<1>. SUFFICES ASSUME NEW i \in DOMAIN versions'
              PROVE  Covers(versions'[i].plan, versions'[i].train.overrides, versions'[i].snap.train)
  BY DEF PlansCover
<1>1. CASE i \in DOMAIN versions
  BY <1>1, VersionKept DEF PlansCover
<1>2. CASE i \notin DOMAIN versions
  <2>. DEFINE m    == submit.cfg.models[Model]
              t    == CHOOSE t \in m.train : TRUE
              plan == PlanFor(TrainerOf(t, machine), machine.params, machine.prequantized, machine.memory)
              snap == SnapshotOf(submit.examples, rows, SplitsOfModel(m))
              v    == NewVersion(submit.cfg, submit.examples, rows)
  <2>1. submit # Nobody /\ versions'[i] = v
    BY <1>2, EachVersion DEF Submitted
  <2>2. v.snap = snap /\ v.train = t /\ v.plan = Override(plan, t.overrides, snap.train)
    <3>1. v.snap = snap
      BY NewSnapshot, Zenon
    <3>. HIDE DEF snap
    <3>2. snap = SnapshotOf(submit.examples, rows, SplitsOfModel(submit.cfg.models[Model]))
      BY Zenon DEF snap
    <3>. HIDE DEF v
    <3>3. t = TrainOf(submit.cfg)
      BY Zenon DEF t, m, TrainOf
    <3>. HIDE DEF t
    <3>4. v.train = t /\ v.plan = Override(plan, t.overrides, snap.train)
      BY <3>2, <3>3, NewPlan DEF v
    <3>. QED
      BY <3>1, <3>4
  <2>3. t \in m.train /\ PositiveNumbers(t.overrides)
    BY <2>1 DEF Sources, OverridesArePositive
  <2>4. snap.train \in Int
    BY <2>1, SnapshotCounts DEF Sources
  <2>5. /\ plan.batch \in {1, 2, 4, 8} /\ plan.accumulation \in {1, 2, 4, 8} /\ plan.batch * plan.accumulation = EffectiveBatch
        /\ plan.epochs = 100
        /\ {"quantize", "batch", "accumulation", "epochs", "checkpoint", "iters"} \subseteq DOMAIN plan
    BY PlanForIs DEF Sources
  <2>. HIDE DEF t, plan, snap, v
  <2>6. Covers(Override(plan, t.overrides, snap.train), t.overrides, snap.train)
    BY <2>3, <2>4, <2>5, OverrideCovers
  <2>. QED
    BY <2>1, <2>2, <2>6
<1>. QED
  BY <1>1, <1>2

\* Where the batch sizes that files ask for are positive numbers, and the epochs numbers,
\* the planned runs cover the data.
THEOREM PlansCoverTheData == OverridesArePositive => (Spec => []PlanCoversTheData)
<1>. SUFFICES ASSUME OverridesArePositive PROVE Spec => []PlanCoversTheData
  OBVIOUS
<1>1. Init => Sources /\ PlansCover
  <2>1. Init => PlansCover
    BY DEF Init, PlansCover
  <2>. QED
    BY <2>1, SourcesInit
<1>2. Shape /\ Sources /\ PlansCover /\ [Next]_vars => (Sources /\ PlansCover)'
  BY SourcesStep, PlansStep
<1>3. PlansCover => PlanCoversTheData
  BY DEF PlansCover, Covers, PlanCoversTheData
<1>. QED
  BY <1>1, <1>2, <1>3, ShapeIsInvariant, PTL DEF Spec

-----------------------------------------------------------------------------
(* What an accepted file has                                               *)

\* What adding documents one after the other comes to.
Empty == [platform |-> {}, models |-> << >>, issues |-> {}]

Adds(after, docs) ==
  after = [n \in 0..Len(docs) |-> IF n = 0 THEN Empty ELSE AddDoc(after[n - 1], docs[n])]

\* Such a function of the number of documents exists.
LEMMA AddsExist ==
  ASSUME NEW docs, Len(docs) \in Nat
  PROVE  \E after : Adds(after, docs)
<1>. DEFINE UpTo(after, m) == after = [n \in 0..m |-> IF n = 0 THEN Empty ELSE AddDoc(after[n - 1], docs[n])]
            S == {m \in Nat : \E after : UpTo(after, m)}
<1>1. 0 \in S
  <2>. DEFINE f == [n \in 0..0 |-> Empty]
  <2>1. f = [n \in 0..0 |-> IF n = 0 THEN Empty ELSE AddDoc(f[n - 1], docs[n])]
    OBVIOUS
  <2>. HIDE DEF f
  <2>. QED
    BY <2>1
<1>2. ASSUME NEW m \in Nat, m \in S PROVE m + 1 \in S
  <2>1. PICK f : UpTo(f, m)
    BY <1>2
  <2>. DEFINE g == [n \in 0..(m + 1) |-> IF n <= m THEN f[n] ELSE AddDoc(f[m], docs[m + 1])]
  <2>2. ASSUME NEW n \in 0..(m + 1)
        PROVE  g[n] = IF n = 0 THEN Empty ELSE AddDoc(g[n - 1], docs[n])
    <3>1. CASE n <= m
      <4>1. g[n] = f[n] /\ f[n] = IF n = 0 THEN Empty ELSE AddDoc(f[n - 1], docs[n])
        BY <2>1, <3>1
      <4>2. n # 0 => g[n - 1] = f[n - 1]
        BY <3>1
      <4>. HIDE DEF g
      <4>. QED
        BY <4>1, <4>2
    <3>2. CASE n = m + 1
      <4>1. g[n] = AddDoc(f[m], docs[m + 1]) /\ g[n - 1] = f[m] /\ n # 0
        BY <3>2
      <4>. HIDE DEF g
      <4>. QED
        BY <3>2, <4>1
    <3>. QED
      BY <3>1, <3>2
  <2>3. DOMAIN g = 0..(m + 1) /\ g = [n \in DOMAIN g |-> g[n]]
    BY Zenon
  <2>. HIDE DEF g
  <2>4. UpTo(g, m + 1)
    BY <2>2, <2>3
  <2>. HIDE DEF UpTo
  <2>. QED
    BY <2>4
<1>. HIDE DEF UpTo
<1>3. Len(docs) \in S
  <2>. HIDE DEF S
  <2>. QED
    BY <1>1, <1>2, SetInduction
<1>4. PICK after : UpTo(after, Len(docs))
  BY <1>3
<1>. QED
  BY <1>4 DEF UpTo, Adds

\* A configuration whose Models have passed their validators, and come from these documents.
Validated(cfg, docs) ==
  /\ {"platform", "models", "issues"} \subseteq DOMAIN cfg
  /\ \A n \in DOMAIN cfg.models :
       /\ ModelOK(cfg.models[n])
       /\ \E i \in DOMAIN docs : docs[i].kind = "Model" /\ cfg.models[n] = docs[i].spec

\* Adding a document keeps that.
LEMMA AddKeepsValidated ==
  ASSUME NEW docs, NEW cfg, Validated(cfg, docs), NEW i \in DOMAIN docs
  PROVE  Validated(AddDoc(cfg, docs[i]), docs)
<1>. DEFINE d == docs[i]
            new == AddDoc(cfg, d)
<1>0. {"platform", "models", "issues"} \subseteq DOMAIN cfg
  BY DEF Validated
<1>1. \/ new.models = cfg.models /\ DOMAIN new = DOMAIN cfg
      \/ /\ d.kind = "Model" /\ DocOK(d) /\ DOMAIN new = DOMAIN cfg
         /\ new.models = [n \in DOMAIN cfg.models \cup {d.name} |-> IF n = d.name THEN d.spec ELSE cfg.models[n]]
  <2>1. CASE d.kind \notin {"Platform", "Model"}
    BY <1>0, <2>1 DEF AddDoc
  <2>2. CASE d.kind \in {"Platform", "Model"} /\ ~DocOK(d)
    BY <1>0, <2>2 DEF AddDoc
  <2>3. CASE d.kind = "Platform" /\ DocOK(d)
    BY <1>0, <2>3 DEF AddDoc
  <2>4. CASE d.kind = "Model" /\ DocOK(d)
    BY <1>0, <2>4 DEF AddDoc
  <2>. QED
    BY <2>1, <2>2, <2>3, <2>4
<1>2. d.kind = "Model" /\ DocOK(d) => ModelOK(d.spec)
  BY DEF DocOK
<1>. HIDE DEF new
<1>. QED
  BY <1>0, <1>1, <1>2 DEF Validated, new

\* So all the documents of a file, one after the other.
LEMMA AllValidated ==
  ASSUME NEW docs, docs \in Seq(ToSet(docs))
  PROVE  Validated(AddAll(docs), docs)
<1>. DEFINE after == CHOOSE f : Adds(f, docs)
<1>0. Len(docs) \in Nat /\ DOMAIN docs = 1..Len(docs)
  OBVIOUS
<1>1. Adds(after, docs)
  BY <1>0, AddsExist, Zenon
<1>2. AddAll(docs) = after[Len(docs)]
  BY Zenon DEF AddAll, Adds, Empty
<1>. HIDE DEF after
<1>3. after[0] = Empty /\ \A n \in 0..Len(docs) : n # 0 => after[n] = AddDoc(after[n - 1], docs[n])
  BY <1>0, <1>1 DEF Adds
<1>. DEFINE S == {n \in Nat : n <= Len(docs) => Validated(after[n], docs)}
<1>4. 0 \in S
  <2>1. Validated(Empty, docs)
    BY DEF Validated, Empty
  <2>. QED
    BY <1>3, <2>1
<1>5. ASSUME NEW n \in Nat, n \in S PROVE n + 1 \in S
  <2>. SUFFICES ASSUME n + 1 <= Len(docs) PROVE Validated(after[n + 1], docs)
    OBVIOUS
  <2>1. Validated(after[n], docs)
    BY <1>0, <1>5
  <2>2. after[n + 1] = AddDoc(after[n], docs[n + 1]) /\ n + 1 \in DOMAIN docs
    BY <1>0, <1>3
  <2>. QED
    BY <2>1, <2>2, AddKeepsValidated
<1>6. Len(docs) \in S
  <2>. HIDE DEF S
  <2>. QED
    BY <1>0, <1>4, <1>5, SetInduction
<1>. QED
  BY <1>2, <1>6

\* What a configuration that was loaded has: validated Models, and if it was accepted no
\* error of lint either.
LEMMA LoadedIs ==
  ASSUME NEW cfg \in Loaded
  PROVE  \E docs : /\ EvalsAreTyped(docs) /\ Validated(cfg, docs)
                   /\ Accepted(cfg) => NoErrors(Lint(cfg))
<1>1. PICK file \in Files : cfg = Load(file)
  BY DEF Loaded
<1>. DEFINE raw == IF file = {} THEN [platform |-> {}, models |-> << >>, issues |-> {Error("unreadable")}]
                   ELSE AddAll(CHOOSE docs \in file : TRUE)
<1>2. cfg = IF NoErrors(raw.issues) THEN [raw EXCEPT !.issues = Lint(raw)] ELSE raw
  BY <1>1, Zenon DEF Load
<1>3. \E docs : EvalsAreTyped(docs) /\ Validated(raw, docs)
  <2>1. CASE file = {}
    <3>1. EvalsAreTyped(<< >>)
      BY DEF EvalsAreTyped
    <3>2. Validated(raw, << >>)
      BY <2>1 DEF Validated
    <3>. QED
      BY <3>1, <3>2
  <2>2. CASE file # {}
    <3>. DEFINE docs == CHOOSE docs \in file : TRUE
    <3>1. docs \in file
      BY <2>2
    <3>2. docs \in Seq(ToSet(docs)) /\ EvalsAreTyped(docs)
      BY <3>1, WorkflowAssumption DEF Files
    <3>3. raw = AddAll(docs)
      BY <2>2
    <3>. HIDE DEF docs, raw
    <3>. QED
      BY <3>2, <3>3, AllValidated
  <2>. QED
    BY <2>1, <2>2
<1>. HIDE DEF raw
<1>4. PICK docs : EvalsAreTyped(docs) /\ Validated(raw, docs)
  BY <1>3
<1>5. {"platform", "models", "issues"} \subseteq DOMAIN raw
  BY <1>4 DEF Validated
<1>6. DOMAIN cfg = DOMAIN raw /\ cfg.models = raw.models /\ cfg.platform = raw.platform
  BY <1>2, <1>5, Zenon
<1>7. Validated(cfg, docs)
  BY <1>4, <1>6 DEF Validated
<1>8. Accepted(cfg) => NoErrors(Lint(cfg))
  <2>1. Lint(cfg) = Lint(raw)
    <3>. DEFINE L(p, m) == When(p = {}, Warning("no-Platform"))
                           \cup (UNION {LintPlatform(q) : q \in p})
                           \cup UNION {LintModel(m[n]) \cup UNION {LintForPlatform(m[n], q) : q \in p} : n \in DOMAIN m}
    <3>1. Lint(cfg) = L(cfg.platform, cfg.models) /\ Lint(raw) = L(raw.platform, raw.models)
      BY Zenon DEF Lint
    <3>. HIDE DEF L
    <3>. QED
      BY <1>6, <3>1, Zenon
  <2>2. CASE NoErrors(raw.issues)
    <3>1. cfg.issues = Lint(raw)
      BY <1>2, <1>5, <2>2, Zenon
    <3>. QED
      BY <2>1, <3>1 DEF Accepted
  <2>3. CASE ~NoErrors(raw.issues)
    BY <1>2, <2>3 DEF Accepted
  <2>. QED
    BY <2>2, <2>3
<1>. QED
  BY <1>4, <1>7, <1>8

\* What training and gating a Model of an accepted file ask for.
Runnable(cfg, m) ==
  /\ m.data # {} /\ m.eval # {}
  /\ \A t \in m.train : TrainOK(t)
  /\ ServeOK(m.serve)
  /\ \A e \in m.eval : GateOK(e.gate)
  /\ \A d \in m.data : DataOK(d) /\ ("traces" \in d.sources /\ ~d.lake => \E p \in cfg.platform : p.tracing # {})
  /\ \A e \in EvaluatorsOf(m) : e.kind = "python" => e.value \in {"here", "unusable"}

\* An issue that lint reports is an issue of the file.
LEMMA LintReports ==
  ASSUME NEW cfg, NoErrors(Lint(cfg)), NEW n \in DOMAIN cfg.models
  PROVE  /\ \A p \in cfg.platform : NoErrors(LintForPlatform(cfg.models[n], p))
         /\ NoErrors(LintEval(cfg.models[n]))
<1>. DEFINE Of(k) == LintModel(cfg.models[k]) \cup UNION {LintForPlatform(cfg.models[k], p) : p \in cfg.platform}
            all   == UNION {Of(k) : k \in DOMAIN cfg.models}
<1>1. all \subseteq Lint(cfg)
  <2>. DEFINE w == When(cfg.platform = {}, Warning("no-Platform"))
              l == UNION {LintPlatform(p) : p \in cfg.platform}
  <2>1. Lint(cfg) = w \cup l \cup all
    BY Zenon DEF Lint
  <2>. HIDE DEF w, l, all
  <2>. QED
    BY <2>1
<1>2. Of(n) \subseteq all
  <2>. HIDE DEF Of
  <2>. QED
    BY Zenon
<1>3. LintEval(cfg.models[n]) \subseteq LintModel(cfg.models[n])
  BY Zenon DEF LintModel
<1>. HIDE DEF all
<1>4. LintModel(cfg.models[n]) \subseteq Of(n) /\ \A p \in cfg.platform : LintForPlatform(cfg.models[n], p) \subseteq Of(n)
  BY Zenon
<1>. HIDE DEF Of
<1>. QED
  BY <1>1, <1>2, <1>3, <1>4 DEF NoErrors

\* A set of one member, as cardinalities say it.
LEMMA OneMember ==
  ASSUME NEW S, IsFiniteSet(S), Cardinality(S) = 1
  PROVE  \E x : S = {x}
BY FS_Singleton

\* A set that lists four members is finite.
LEMMA FourMembers ==
  \A a, b, c, d : IsFiniteSet({a, b, c, d})
<1>. TAKE a, b, c, d
<1>1. IsFiniteSet({a})
  BY FS_Singleton
<1>2. IsFiniteSet({a} \cup {b})
  BY <1>1, FS_AddElement
<1>3. IsFiniteSet(({a} \cup {b}) \cup {c})
  BY <1>2, FS_AddElement
<1>4. IsFiniteSet((({a} \cup {b}) \cup {c}) \cup {d})
  BY <1>3, FS_AddElement
<1>5. {a, b, c, d} = (({a} \cup {b}) \cup {c}) \cup {d}
  OBVIOUS
<1>. QED
  BY <1>4, <1>5, Zenon

\* An evaluator that names the kind python names no other, and has a reference.
LEMMA PythonHasRef ==
  ASSUME NEW e, EvaluatorOK(e), Compact(e).kind = "python"
  PROVE  "python" \in e.keys /\ e.value # "none" /\ Compact(e).value = e.value
<1>. DEFINE kind == CHOOSE k \in e.keys : k \in EvaluatorKinds
<1>1. IsFiniteSet(e.keys \cap EvaluatorKinds)
  <2>1. IsFiniteSet({"labels", "python", "webhook", "command"}) /\ IsFiniteSet({"plugin", "lm-eval", "inspect", "structural"})
    BY FourMembers
  <2>2. IsFiniteSet({"labels", "python", "webhook", "command"} \cup {"plugin", "lm-eval", "inspect", "structural"})
    BY <2>1, FS_Union
  <2>3. EvaluatorKinds = {"labels", "python", "webhook", "command"} \cup {"plugin", "lm-eval", "inspect", "structural"}
    BY DEF EvaluatorKinds
  <2>. QED
    BY <2>2, <2>3, FS_Subset, Zenon
<1>2. PICK x : e.keys \cap EvaluatorKinds = {x}
  BY <1>1, OneMember DEF EvaluatorOK
<1>3. kind = x
  BY <1>2
<1>4. Compact(e).kind = kind /\ Compact(e).value = e.value
  BY Zenon DEF Compact
<1>. HIDE DEF kind
<1>5. e.keys \cap EvaluatorKinds = {"python"}
  BY <1>2, <1>3, <1>4
<1>. QED
  BY <1>4, <1>5 DEF EvaluatorOK, EvaluatorKinds

\* An accepted file with a Platform has what its Models with a train section need.
LEMMA AcceptedIsRunnable ==
  ASSUME NEW cfg \in Loaded, Accepted(cfg), cfg.platform # {}, NEW n \in DOMAIN cfg.models, cfg.models[n].train # {}
  PROVE  Runnable(cfg, cfg.models[n])
<1>. DEFINE m == cfg.models[n]
<1>1. PICK docs : EvalsAreTyped(docs) /\ Validated(cfg, docs) /\ NoErrors(Lint(cfg))
  BY LoadedIs
<1>2. ModelOK(m) /\ \E i \in DOMAIN docs : docs[i].kind = "Model" /\ m = docs[i].spec
  BY <1>1 DEF Validated
<1>3. (\A p \in cfg.platform : NoErrors(LintForPlatform(m, p))) /\ NoErrors(LintEval(m))
  BY <1>1, LintReports
<1>. HIDE DEF m
<1>4. m.train # {}
  BY DEF m
<1>5. SelfHostedOK(m) /\ ServeOK(m.serve) /\ (\A d \in m.data : DataOK(d)) /\ (\A t \in m.train : TrainOK(t))
      /\ \A e \in m.eval : EvalOK(e)
  BY <1>2, <1>4 DEF ModelOK
<1>6. m.data # {} /\ m.eval # {}
  BY <1>4, <1>5 DEF SelfHostedOK
<1>7. \A e \in m.eval : GateOK(e.gate) /\ \A i \in DOMAIN e.evaluators : EvaluatorOK(e.evaluators[i])
  BY <1>5 DEF EvalOK
<1>8. ASSUME NEW d \in m.data, "traces" \in d.sources, ~d.lake PROVE \E p \in cfg.platform : p.tracing # {}
  <2>1. PICK p \in cfg.platform : TRUE
    OBVIOUS
  <2>2. Error("traces-need-a-lake").level = "error"
    BY DEF Error
  <2>3. p.tracing = {} => Error("traces-need-a-lake") \in LintForPlatform(m, p)
    BY <1>8, Zenon DEF LintForPlatform, When
  <2>. QED
    BY <1>3, <2>2, <2>3 DEF NoErrors
<1>9. ASSUME NEW e \in EvaluatorsOf(m), e.kind = "python" PROVE e.value \in {"here", "unusable"}
  <2>1. PICK s \in m.eval : \E i \in DOMAIN s.evaluators : e = Compact(s.evaluators[i])
    BY Zenon DEF EvaluatorsOf
  <2>2. PICK i \in DOMAIN s.evaluators : e = Compact(s.evaluators[i])
    BY <2>1
  <2>3. "python" \in s.evaluators[i].keys /\ s.evaluators[i].value # "none" /\ e.value = s.evaluators[i].value
    BY <1>7, <1>9, <2>2, PythonHasRef
  <2>4. e.value \in {"here", "unusable", "gone", "none"}
    BY <1>1, <1>2, <2>3 DEF EvalsAreTyped
  <2>5. e.value # "gone"
    <3>. DEFINE Of(x) == {Compact(x.evaluators[k]) : k \in DOMAIN x.evaluators}
                python == {x.value : x \in {y \in UNION {Of(z) : z \in m.eval} : y.kind = "python"}}
    <3>1. e \in Of(s)
      BY <2>2
    <3>. HIDE DEF Of
    <3>2. e.value \in python
      BY <1>9, <3>1, Zenon
    <3>3. "gone" \in python => Error("python-ref") \in LintEval(m)
      BY Zenon DEF LintEval, When, Of
    <3>4. Error("python-ref").level = "error"
      BY DEF Error
    <3>. HIDE DEF python
    <3>. QED
      BY <1>3, <3>2, <3>3, <3>4 DEF NoErrors
  <2>. QED
    BY <2>3, <2>4, <2>5
<1>. QED
  BY <1>5, <1>6, <1>7, <1>8, <1>9 DEF Runnable, m

\* Then nothing that is missing in the file keeps its data from being read,
LEMMA SourceIsThere ==
  ASSUME NEW cfg, NEW m, Runnable(cfg, m), NEW data, NEW tools
  PROVE  SourceProblem(CHOOSE d \in m.data : TRUE, cfg, data, tools) \notin MissingSections
<1>. DEFINE d == CHOOSE d \in m.data : TRUE
            kind == CHOOSE k \in d.sources : k \in SourceKinds
<1>1. d \in m.data
  BY DEF Runnable
<1>2. d.sources \cap SourceKinds # {}
  <2>1. Cardinality({}) = 0
    BY FS_EmptySet
  <2>. QED
    BY <1>1, <2>1 DEF Runnable, DataOK
<1>3. kind \in d.sources
  BY <1>2
<1>4. TracesProblem(d, cfg, tools) \in {"no-exporter", "none", "no-lake"}
  BY DEF TracesProblem
<1>5. kind = "traces" => TracesProblem(d, cfg, tools) # "no-lake"
  BY <1>1, <1>3 DEF Runnable, TracesProblem
<1>. HIDE DEF d
<1>6. SourceProblem(d, cfg, data, tools) \in {"no-exporter", "no-pyarrow", "no-datasets", "no-file", "bad-row", "none"}
  <2>1. SourceProblem(d, cfg, data, tools) =
          CASE kind = "traces" /\ TracesProblem(d, cfg, tools) # "none" -> TracesProblem(d, cfg, tools)
            [] kind = "parquet" /\ "pyarrow" \notin tools -> "no-pyarrow"
            [] kind = "hf" /\ "datasets" \notin tools -> "no-datasets"
            [] kind \in {"jsonl", "parquet"} /\ d.path = "gone" -> "no-file"
            [] \E i \in DOMAIN data : ~HasInput(data[i]) -> "bad-row"
            [] OTHER -> "none"
    BY Zenon DEF SourceProblem
  <2>. HIDE DEF kind
  <2>. QED
    BY <1>4, <1>5, <2>1
<1>. QED
  BY <1>6 DEF MissingSections, d

\* nor its trainer,
LEMMA TrainerIsThere ==
  ASSUME NEW t, TrainOK(t), TrainerOf(t, machine) # "none"
  PROVE  TrainerProblem(t, machine) \notin MissingSections
<1>1. TrainerOf(t, machine) \in {"mlx", "trl", "command"}
  BY DEF TrainOK, TrainerOf, Detected
<1>2. TrainerOf(t, machine) = "command" => t.command
  BY DEF TrainOK, TrainerOf, Detected
<1>3. TrainerProblem(t, machine) \in {"none", "no-mlx_lm", "no-trl"}
  BY <1>1, <1>2 DEF TrainerProblem
<1>. QED
  BY <1>3 DEF MissingSections

\* nor its engine,
LEMMA EngineIsThere ==
  ASSUME NEW m, ServeOK(m.serve), NEW adapter, NEW fused
  PROVE  LaunchProblem(m, machine, adapter, fused) \notin MissingSections
<1>1. EngineOf(m, machine) \in {"none", "mlx", "vllm", "command"}
  BY DEF ServeOK, EngineOf, Detected
<1>2. EngineOf(m, machine) = "command" => m.serve.command # {}
  BY DEF ServeOK, EngineOf, Detected
<1>3. LaunchProblem(m, machine, adapter, fused) \in
        {"none", "no-accelerator", "no-weights", "no-adapter-placeholder", "no-vllm", "no-fused-model", "no-mlx_lm"}
  <2>. DEFINE engine == EngineOf(m, machine)
  <2>. HIDE DEF engine
  <2>1. LaunchProblem(m, machine, adapter, fused) =
          CASE engine = "none" -> "no-accelerator"
            [] engine # "none" /\ ~HasWeights(m) -> "no-weights"
            [] engine = "command" /\ HasWeights(m) ->
                 IF m.serve.command = {} THEN "no-serve.command"
                 ELSE IF adapter /\ \E c \in m.serve.command : "adapter" \notin c THEN "no-adapter-placeholder" ELSE "none"
            [] engine = "vllm" /\ HasWeights(m) -> IF "vllm" \in machine.tools THEN "none" ELSE "no-vllm"
            [] engine = "mlx" /\ HasWeights(m) ->
                 IF adapter /\ ~fused THEN "no-fused-model" ELSE IF "mlx_lm" \in machine.tools THEN "none" ELSE "no-mlx_lm"
    BY Zenon DEF LaunchProblem, engine
  <2>. QED
    BY <1>1, <1>2, <2>1 DEF engine
<1>. QED
  BY <1>3 DEF MissingSections

\* nor its evaluation,
LEMMA EvaluationIsThere ==
  ASSUME NEW cfg, NEW m, Runnable(cfg, m), NEW targets
  PROVE  EvalProblem(cfg, m, targets) \notin MissingSections
<1>. DEFINE builds == {BuildProblem(e, machine.tools) : e \in EvaluatorsOf(m)} \ {"none"}
            fails  == \E e \in EvaluatorsOf(m) \ RowEvaluators(m), t \in targets : RolloutProblem(e, t, machine.tools) # "none"
            build  == CHOOSE b \in builds : TRUE
            source == SourceProblem(CHOOSE d \in m.data : TRUE, cfg, rows, machine.tools)
<1>1. m.eval # {} /\ m.data # {} /\ ~\E e \in m.eval : e.gate.test = "threshold" /\ e.gate.min = {}
  BY DEF Runnable, GateOK
<1>2. builds # {} => build \in {"bad-match", "unusable-ref", "no-plugin"}
  <2>1. \A e \in EvaluatorsOf(m) : BuildProblem(e, machine.tools) \in {"bad-match", "unusable-ref", "no-plugin", "none"}
    BY DEF Runnable, BuildProblem, RefProblem
  <2>. QED
    BY <2>1
<1>3. source \notin MissingSections
  BY SourceIsThere
<1>. HIDE DEF builds, fails, build, source
<1>4. \/ EvalProblem(cfg, m, targets) \in {"nothing-held-out", "no-harness", "none", source}
      \/ builds # {} /\ EvalProblem(cfg, m, targets) = build
  <2>. DEFINE row      == RowEvaluators(m) # {}
              read     == IF row THEN source ELSE "none"
              untested == Chosen(ToExamples(rows), SplitsOfModel(m)) = {}
              floor    == \E e \in m.eval : e.gate.test = "threshold" /\ e.gate.min = {}
  <2>1. EvalProblem(cfg, m, targets) =
          IF m.eval = {} THEN "no-eval" ELSE IF builds # {} THEN build
          ELSE IF row /\ m.data = {} THEN "rows-need-data"
          ELSE IF read # "none" THEN read
          ELSE IF row /\ untested THEN "nothing-held-out"
          ELSE IF fails THEN "no-harness"
          ELSE IF floor THEN "no-floor" ELSE "none"
    BY Zenon DEF EvalProblem, builds, fails, build, source
  <2>2. read \in {source, "none"} /\ ~floor
    BY <1>1
  <2>. HIDE DEF row, read, untested, floor
  <2>. QED
    BY <1>1, <2>1, <2>2
<1>5. "nothing-held-out" \notin MissingSections /\ "no-harness" \notin MissingSections /\ "none" \notin MissingSections
      /\ "bad-match" \notin MissingSections /\ "unusable-ref" \notin MissingSections /\ "no-plugin" \notin MissingSections
  BY DEF MissingSections
<1>. QED
  BY <1>2, <1>3, <1>4, <1>5

\* so that no gate fails for it where the file is the one that was submitted.
LEMMA GateFindsAll ==
  ASSUME NEW cfg \in Loaded, NEW v, Agreed(cfg, v), TrainerOf(v.train, machine) # "none"
  PROVE  GateProblem(cfg, v) \notin MissingSections
<1>. DEFINE m == cfg.models[Model]
<1>1. m.train = {v.train} /\ Model \in DOMAIN cfg.models
  BY DEF Agreed
<1>2. Runnable(cfg, m)
  BY <1>1, AcceptedIsRunnable DEF Agreed
<1>. HIDE DEF m
<1>3. TrainerProblem(v.train, machine) \notin MissingSections
  BY <1>1, <1>2, TrainerIsThere DEF Runnable
<1>4. LaunchProblem(m, machine, TRUE, Fused(v.trainer)) \notin MissingSections
  BY <1>2, EngineIsThere DEF Runnable
<1>5. IncumbentProblem(m) \notin MissingSections
  BY <1>2, EngineIsThere DEF Runnable, IncumbentProblem
<1>6. EvalProblem(cfg, m, {[kind |-> "openai"]}) \notin MissingSections
  BY <1>2, EvaluationIsThere
<1>7. GateProblem(cfg, v) \in {TrainerProblem(v.train, machine), LaunchProblem(m, machine, TRUE, Fused(v.trainer)),
                               IncumbentProblem(m), EvalProblem(cfg, m, {[kind |-> "openai"]})}
  BY <1>1, Zenon DEF GateProblem, m
<1>. QED
  BY <1>3, <1>4, <1>5, <1>6, <1>7

\* Nor is a submission refused for it.
LEMMA SubmissionFindsAll ==
  ASSUME NEW cfg \in Loaded, Accepted(cfg), cfg.platform # {}, Model \in DOMAIN cfg.models, cfg.models[Model].train # {}
  PROVE  SubmitProblem(cfg) \notin MissingSections
<1>. DEFINE m == cfg.models[Model]
            source == SourceProblem(CHOOSE d \in m.data : TRUE, cfg, rows, machine.tools)
<1>1. Runnable(cfg, m)
  BY AcceptedIsRunnable
<1>2. source \notin MissingSections
  BY <1>1, SourceIsThere
<1>. HIDE DEF source
<1>3. SubmitProblem(cfg) \in {"recipe", "backend", "no-accelerator", "no-weights", source}
  BY <1>1, Zenon DEF SubmitProblem, Runnable, source
<1>4. {"recipe", "backend", "no-accelerator", "no-weights"} \cap MissingSections = {}
  BY DEF MissingSections
<1>. QED
  BY <1>2, <1>3, <1>4

\* Every version was submitted where there was a trainer for it, and fails of what the file
\* could have told only if the worker had loaded another file, or one with issues.
TrainersAreThere ==
  /\ \A i \in DOMAIN versions : TrainerOf(versions[i].train, machine) # "none"
  /\ submit # Nobody => TrainerOf(TrainOf(submit.cfg), machine) # "none"

NothingMissing ==
  \A i \in DOMAIN versions : /\ versions[i].agreed => versions[i].reason \notin MissingSections
                             /\ versions[i].job = "queued" => versions[i].reason = "none"

\* Every step keeps the trainers.
LEMMA TrainersStep ==
  ASSUME Shape, TrainersAreThere, [Next]_vars
  PROVE  TrainersAreThere'
<1>1. machine' = machine
  BY RestStep
<1>2. ASSUME NEW i \in DOMAIN versions' PROVE TrainerOf(versions'[i].train, machine) # "none"
  <2>1. CASE i \in DOMAIN versions
    BY <2>1, VersionKept DEF TrainersAreThere
  <2>2. CASE i \notin DOMAIN versions
    <3>1. submit # Nobody /\ versions'[i] = NewVersion(submit.cfg, submit.examples, rows)
      BY <2>2, EachVersion DEF Submitted
    <3>2. NewVersion(submit.cfg, submit.examples, rows).train = TrainOf(submit.cfg)
      BY NewPlan
    <3>. QED
      BY <3>1, <3>2 DEF TrainersAreThere
  <2>. QED
    BY <2>1, <2>2
<1>3. ASSUME submit' # Nobody PROVE TrainerOf(TrainOf(submit'.cfg), machine) # "none"
  <2>1. ASSUME SubmitProblem(config) = "none" PROVE TrainerOf(TrainOf(config), machine) # "none"
    <3>. DEFINE t == TrainOf(config)
    <3>1. \/ SubmitProblem(config) \in {"no-Model", "no-train", "recipe", "backend", "no-accelerator"}
          \/ TrainerOf(t, machine) # "none"
      BY Zenon DEF SubmitProblem, TrainOf
    <3>. QED
      BY <2>1, <3>1
  <2>2. ASSUME NEW via \in Via, submit' = [via |-> via, cfg |-> config, examples |-> ToExamples(rows)]
        PROVE  submit'.cfg = config
    BY <2>2
  <2>. QED
    BY <1>3, <2>1, <2>2, SubmitStep, Zenon DEF TrainersAreThere
<1>4. TrainOf(submit'.cfg) = TrainOf(submit.cfg)'
  BY DEF TrainOf
<1>. QED
  BY <1>1, <1>2, <1>3, <1>4 DEF TrainersAreThere, TrainerOf

\* Every step keeps what versions fail of apart from what is missing in an accepted file.
LEMMA MissingStep ==
  ASSUME Shape, Sources, TrainersAreThere, NothingMissing, [Next]_vars
  PROVE  NothingMissing'
<1>0. "none" \notin MissingSections
  BY DEF MissingSections
<1>. SUFFICES ASSUME NEW i \in DOMAIN versions'
              PROVE  /\ versions'[i].agreed => versions'[i].reason \notin MissingSections
                     /\ versions'[i].job = "queued" => versions'[i].reason = "none"
  BY DEF NothingMissing, MissingSections
<1>1. CASE i \notin DOMAIN versions
  <2>1. versions'[i] = NewVersion(submit.cfg, submit.examples, rows)
    BY <1>1, EachVersion
  <2>2. NewVersion(submit.cfg, submit.examples, rows).reason = "none"
    BY NewIs
  <2>. QED
    BY <1>0, <2>1, <2>2
<1>2. CASE i \in DOMAIN versions
  <2>0. Fields \subseteq DOMAIN versions[i]
    BY <1>2 DEF Shape
  <2>1. CASE versions'[i] = versions[i]
    BY <1>2, <2>1 DEF NothingMissing
  <2>2. CASE AsGated(versions[i], versions'[i])
    <3>1. PICK cfg \in worker :
            \/ versions'[i] = AsFailed(cfg, versions[i])
            \/ \E results : versions'[i] = AsJudged(cfg, versions[i], results)
      BY <2>2, Zenon DEF AsGated
    <3>2. CASE versions'[i] = AsFailed(cfg, versions[i])
      <4>1. AsFailed(cfg, versions[i]).reason = GateProblem(cfg, versions[i])
            /\ (AsFailed(cfg, versions[i]).agreed = Agreed(cfg, versions[i]))
            /\ AsFailed(cfg, versions[i]).job = "failed"
        BY <2>0, FailedIs
      <4>2. cfg \in Loaded /\ TrainerOf(versions[i].train, machine) # "none"
        BY <1>2 DEF Sources, TrainersAreThere
      <4>. QED
        BY <3>2, <4>1, <4>2, GateFindsAll
    <3>3. ASSUME NEW results, versions'[i] = AsJudged(cfg, versions[i], results)
          PROVE  versions'[i].reason = versions[i].reason /\ versions'[i].job = "succeeded"
      BY <2>0, <3>3, JudgedJob
    <3>4. versions[i].reason = "none"
      BY <1>2, <2>2 DEF NothingMissing, AsGated
    <3>. QED
      BY <1>0, <3>1, <3>2, <3>3, <3>4
  <2>3. CASE WithStatus(versions[i], versions'[i])
    BY <1>2, <2>3 DEF NothingMissing, WithStatus
  <2>. QED
    BY <1>2, <2>1, <2>2, <2>3, EachVersion
<1>. QED
  BY <1>1, <1>2

\* A file with a Platform that is accepted has all that training and gating its Model ask
\* for, and no submission and no gate that used it fails of anything it could have told.
THEOREM AcceptedFilesLackNothing == Spec => []AcceptedLacksNothing
<1>1. Init => TrainersAreThere /\ NothingMissing
  BY DEF Init, TrainersAreThere, NothingMissing
<1>2. Shape /\ Sources /\ TrainersAreThere /\ NothingMissing /\ [Next]_vars => (Sources /\ TrainersAreThere /\ NothingMissing)'
  BY SourcesStep, TrainersStep, MissingStep
<1>3. Sources /\ NothingMissing => AcceptedLacksNothing
  BY SubmissionFindsAll DEF Sources, NothingMissing, AcceptedLacksNothing
<1>. QED
  BY <1>1, <1>2, <1>3, SourcesInit, ShapeIsInvariant, PTL DEF Spec

-----------------------------------------------------------------------------
(* What a pass means                                                       *)

\* The mean of some integers is an integer, as is the greatest of some.
LEMMA AverageIsInteger ==
  ASSUME NEW f, IsFiniteSet(DOMAIN f), DOMAIN f # {}, \A x \in DOMAIN f : f[x] \in Int
  PROVE  Average(f) \in Int
<1>. DEFINE sum == CHOOSE g : g = Folded(g, DOMAIN f, f)
            n == Cardinality(DOMAIN f)
<1>1. Average(f) = sum[DOMAIN f] \div n
  BY Zenon DEF Average, FoldFunction, FoldFunctionOnSet, MapThenFoldSet, Folded
<1>2. sum = Folded(sum, DOMAIN f, f)
  BY SumsExist, Zenon
<1>. HIDE DEF sum
<1>3. sum[DOMAIN f] \in Int
  BY <1>2, SumsAreIntegers
<1>4. n \in Nat \ {0}
  BY FS_CardinalityType, FS_EmptySet
<1>. HIDE DEF n
<1>. QED
  BY <1>1, <1>3, <1>4

\* Observations: a function from some positions, with values that are integers.
Observations(obs) == IsFiniteSet(DOMAIN obs) /\ DOMAIN obs \subseteq Nat /\ \A i \in DOMAIN obs : obs[i].value \in Int

\* The means of items are integers, and there are finitely many.
LEMMA MeansAreIntegers ==
  ASSUME NEW obs, Observations(obs)
  PROVE  /\ DOMAIN ItemMeans(obs) = Items(obs) /\ IsFiniteSet(Items(obs))
         /\ \A item \in Items(obs) : ItemMeans(obs)[item].mean \in Int
<1>1. DOMAIN ItemMeans(obs) = Items(obs)
  BY DEF ItemMeans
<1>2. IsFiniteSet(Items(obs))
  <2>. DEFINE f == [i \in DOMAIN obs |-> obs[i].item]
  <2>1. f \in Surjection(DOMAIN obs, Items(obs))
    BY DEF Surjection, Items
  <2>. HIDE DEF f
  <2>. QED
    BY <2>1, FS_Surjection DEF Observations
<1>3. ASSUME NEW item \in Items(obs) PROVE ItemMeans(obs)[item].mean \in Int
  <2>. DEFINE f == [i \in OfItem(obs, item) |-> obs[i].value]
  <2>1. OfItem(obs, item) \subseteq DOMAIN obs /\ OfItem(obs, item) # {}
    BY DEF OfItem, Items
  <2>2. DOMAIN f = OfItem(obs, item) /\ \A i \in DOMAIN f : f[i] \in Int
    BY <2>1 DEF Observations
  <2>3. IsFiniteSet(DOMAIN f)
    BY <2>1, <2>2, FS_Subset DEF Observations
  <2>4. ItemMeans(obs)[item].mean = Average(f)
    BY DEF ItemMeans
  <2>. HIDE DEF f
  <2>. QED
    BY <2>1, <2>2, <2>3, <2>4, AverageIsInteger
<1>. QED
  BY <1>1, <1>2, <1>3

\* A judgement that may say passed is of enough items, on some of which the candidate is
\* not worse by more than the margin.
Shows(j, gate) ==
  /\ j.n >= gate.minItems
  /\ gate.test = "non-inferiority" => j.best >= gate.margin

GateTyped(gate) == GateOK(gate) /\ {gate.margin, gate.minItems} \subseteq Int

\* Judge says passed of nothing else.
LEMMA JudgeShows ==
  ASSUME NEW name, NEW split, NEW slice, NEW items, NEW cand, NEW inc, NEW gate, GateTyped(gate), IsFiniteSet(items),
         \A i \in items : cand[i].mean \in Int /\ inc[i].mean \in Int,
         TRUE \in Judge(name, split, slice, items, cand, inc, gate).passed
  PROVE  Shows(Judge(name, split, slice, items, cand, inc, gate), gate)
<1>. DEFINE n     == Cardinality(items)
            diffs == {cand[i].mean - inc[i].mean : i \in items}
            mean  == IF items = {} THEN 0 ELSE Average([i \in items |-> cand[i].mean])
            best  == IF items = {} THEN 0 ELSE Greatest(diffs)
            may   == {Passes(n, lower, mean, gate) : lower \in LowerBounds(diffs, gate)}
            j     == Judge(name, split, slice, items, cand, inc, gate)
<1>1. j = [evaluator |-> name, split |-> split, slice |-> slice, n |-> n, best |-> best, passed |-> may]
  BY Zenon DEF Judge
<1>. HIDE DEF n, best, may, j
<1>2. j.n = n /\ j.best = best /\ j.passed = may
  BY <1>1
<1>3. PICK lower \in LowerBounds(diffs, gate) : Passes(n, lower, mean, gate)
  BY <1>2 DEF may, j
<1>. HIDE DEF mean
<1>4. n >= gate.minItems
  BY <1>3 DEF Passes
<1>5. items # {}
  <2>1. items = {} => n = 0
    BY FS_EmptySet DEF n
  <2>. QED
    BY <1>4, <2>1 DEF GateTyped, GateOK
<1>6. diffs \subseteq Int /\ diffs # {}
  BY <1>5
<1>7. IsFiniteSet(diffs)
  <2>. DEFINE f == [i \in items |-> cand[i].mean - inc[i].mean]
  <2>1. f \in Surjection(items, diffs)
    BY DEF Surjection
  <2>. HIDE DEF f, diffs
  <2>. QED
    BY <2>1, FS_Surjection
<1>. HIDE DEF diffs
<1>8. Greatest(diffs) \in diffs
  <2>1. \E x \in diffs : \A y \in diffs : y <= x
    BY <1>6, <1>7, GreatestNumber
  <2>. QED
    BY <2>1, Zenon DEF Greatest
<1>9. ASSUME gate.test = "non-inferiority" PROVE best >= gate.margin
  <2>1. lower >= gate.margin
    BY <1>3, <1>9 DEF Passes
  <2>2. lower <= Greatest(diffs)
    BY <1>6 DEF LowerBounds
  <2>3. lower \in Int
    <3>1. Least(diffs) \in diffs
      <4>1. diffs \subseteq Int
        BY <1>6
      <4>2. \E x \in diffs : \A y \in diffs : x <= y
        BY <1>6, <1>7, LeastInteger
      <4>. QED
        BY <4>2, Zenon DEF Least
    <3>. QED
      BY <1>6, <1>8, <3>1 DEF LowerBounds, GateTyped
  <2>4. best = Greatest(diffs)
    BY <1>5 DEF best, diffs
  <2>5. Greatest(diffs) \in Int /\ gate.margin \in Int
    BY <1>6, <1>8 DEF GateTyped
  <2>. DEFINE greatest == Greatest(diffs)
              margin   == gate.margin
  <2>6. lower >= margin /\ lower <= greatest /\ greatest \in Int /\ margin \in Int /\ best = greatest
    BY <2>1, <2>2, <2>4, <2>5
  <2>. HIDE DEF greatest, margin
  <2>7. best >= margin
    BY <2>3, <2>6
  <2>. QED
    BY <2>7 DEF margin
<1>. QED
  BY <1>2, <1>4, <1>9 DEF Shows, j

\* A judgement that, if it may say passed, shows it.
Judged(j, gate) ==
  /\ {"evaluator", "slice", "n", "best", "passed"} \subseteq DOMAIN j
  /\ TRUE \in j.passed => Shows(j, gate)

\* The judgements of an evaluator in a split are such, and one is of all its items.
LEMMA JudgementsShow ==
  ASSUME NEW name, NEW split, NEW cand, Observations(cand), NEW inc, Observations(inc), NEW gate, GateTyped(gate)
  PROVE  /\ \A j \in Judgements(name, split, cand, inc, gate) : Judged(j, gate)
         /\ \E j \in Judgements(name, split, cand, inc, gate) : j.evaluator = name /\ j.slice = All
<1>. DEFINE c      == ItemMeans(cand)
            i      == ItemMeans(inc)
            common == DOMAIN c \cap DOMAIN i
            slices == Slices(c, i, gate.perSlice)
<1>1. Judgements(name, split, cand, inc, gate) =
        {Judge(name, split, n, slices[n], c, i, gate) : n \in DOMAIN slices}
  BY Zenon DEF Judgements
<1>2. IsFiniteSet(common) /\ \A x \in common : c[x].mean \in Int /\ i[x].mean \in Int
  <2>1. IsFiniteSet(DOMAIN c) /\ \A x \in DOMAIN c : c[x].mean \in Int
    BY MeansAreIntegers
  <2>2. \A x \in DOMAIN i : i[x].mean \in Int
    BY MeansAreIntegers
  <2>3. IsFiniteSet(common)
    BY <2>1, FS_Subset
  <2>. QED
    BY <2>1, <2>2, <2>3
<1>3. All \in DOMAIN slices /\ \A n \in DOMAIN slices : slices[n] \subseteq common
  BY DEF Slices
<1>. HIDE DEF c, i, slices
<1>4. ASSUME NEW n \in DOMAIN slices
      PROVE  Judged(Judge(name, split, n, slices[n], c, i, gate), gate)
  <2>1. IsFiniteSet(slices[n]) /\ \A x \in slices[n] : c[x].mean \in Int /\ i[x].mean \in Int
    BY <1>2, <1>3, FS_Subset
  <2>2. {"evaluator", "slice", "n", "best", "passed"} \subseteq DOMAIN Judge(name, split, n, slices[n], c, i, gate)
    BY DEF Judge
  <2>. QED
    BY <2>1, <2>2, JudgeShows DEF Judged
<1>5. /\ Judge(name, split, All, slices[All], c, i, gate).evaluator = name
      /\ Judge(name, split, All, slices[All], c, i, gate).slice = All
  BY DEF Judge
<1>. QED
  BY <1>1, <1>3, <1>4, <1>5, Zenon

\* The observations of a row evaluator.
LEMMA RowsAreObserved ==
  ASSUME NEW examples, NEW n \in Nat, DOMAIN examples = 1..n, NEW splits, NEW split, NEW outputs, NEW score,
         \A i \in InSplits(examples, splits, {split}) : examples[i].id \in outputs => score[examples[i]] \in Int
  PROVE  Observations(RowObservations(examples, splits, split, outputs, score))
<1>. DEFINE D == {j \in InSplits(examples, splits, {split}) : examples[j].id \in outputs}
            obs == RowObservations(examples, splits, split, outputs, score)
<1>1. DOMAIN obs = D
  BY DEF RowObservations
<1>2. D \subseteq 1..n
  BY DEF InSplits
<1>3. IsFiniteSet(D)
  <2>1. IsFiniteSet(1..n)
    BY FS_Interval
  <2>. HIDE DEF D
  <2>. QED
    BY <1>2, <2>1, FS_Subset
<1>4. \A i \in D : obs[i].value = score[examples[i]]
  BY DEF RowObservations
<1>5. \A i \in D : score[examples[i]] \in Int
  OBVIOUS
<1>. HIDE DEF D, obs
<1>6. \A i \in DOMAIN obs : obs[i].value \in Int
  BY <1>1, <1>4, <1>5
<1>7. DOMAIN obs \subseteq Nat
  BY <1>1, <1>2
<1>8. Observations(obs)
  BY <1>1, <1>3, <1>6, <1>7 DEF Observations
<1>. QED
  BY <1>8, Zenon DEF obs

\* The judgements of a row evaluator: where the candidate has an output for a row that is
\* tested, one of them is of all items.
LEMMA RowsAreJudged ==
  ASSUME NEW e, NEW examples, NEW n \in Nat, DOMAIN examples = 1..n, NEW splits, NEW outs, NEW scores,
         NEW gate, GateTyped(gate),
         \A t \in Targets, i \in Chosen(examples, splits) : examples[i].id \in outs[t] => scores[t][examples[i]] \in Int
  PROVE  /\ \A j \in RowJudgements(e, examples, splits, outs, scores, gate) : Judged(j, gate)
         /\ (\E i \in Chosen(examples, splits) : examples[i].id \in outs["candidate"])
              => \E j \in RowJudgements(e, examples, splits, outs, scores, gate) : j.evaluator = e.name /\ j.slice = All
<1>. DEFINE Obs(t, split) == RowObservations(examples, splits, split, outs[t], scores[t])
            Of(split) == Judgements(e.name, split, Obs("candidate", split), Obs("incumbent", split), gate)
            some == {s \in {"heldOut", "audit"} : DOMAIN Obs("candidate", s) \cup DOMAIN Obs("incumbent", s) # {}}
            judged == RowJudgements(e, examples, splits, outs, scores, gate)
<1>1. judged = UNION {Of(split) : split \in some}
  BY Zenon DEF RowJudgements
<1>2. \A split \in {"heldOut", "audit"} : Observations(Obs("candidate", split)) /\ Observations(Obs("incumbent", split))
  <2>. TAKE split \in {"heldOut", "audit"}
  <2>1. InSplits(examples, splits, {split}) \subseteq Chosen(examples, splits)
    BY DEF Chosen, InSplits
  <2>2. \A t \in Targets : Observations(Obs(t, split))
    BY <2>1, RowsAreObserved
  <2>. HIDE DEF Obs
  <2>. QED
    BY <2>2 DEF Targets
<1>3. ASSUME NEW i \in Chosen(examples, splits), examples[i].id \in outs["candidate"]
      PROVE  \E split \in some : TRUE
  <2>. DEFINE split == AssignSplits(examples, splits)[examples[i].id]
  <2>1. i \in DOMAIN examples /\ split \in {"heldOut", "audit"}
    BY <1>3 DEF Chosen, InSplits
  <2>2. i \in InSplits(examples, splits, {split})
    BY <2>1 DEF InSplits
  <2>. HIDE DEF split
  <2>3. i \in DOMAIN Obs("candidate", split)
    BY <1>3, <2>2 DEF RowObservations
  <2>. QED
    BY <2>1, <2>3
<1>. HIDE DEF judged
<1>0. some \subseteq {"heldOut", "audit"}
  OBVIOUS
<1>. HIDE DEF Obs, some
<1>4. \A split \in {"heldOut", "audit"} :
        /\ \A j \in Of(split) : Judged(j, gate)
        /\ \E j \in Of(split) : j.evaluator = e.name /\ j.slice = All
  BY <1>2, JudgementsShow
<1>. HIDE DEF Of
<1>5. \A j \in judged : Judged(j, gate)
  BY <1>0, <1>1, <1>4
<1>6. ASSUME NEW split \in some PROVE \E j \in judged : j.evaluator = e.name /\ j.slice = All
  <2>1. Of(split) \subseteq judged
    BY <1>1, Zenon
  <2>. QED
    BY <1>0, <1>4, <2>1
<1>. QED
  BY <1>3, <1>5, <1>6 DEF judged

\* The decision pass: every judgement said so, and could.
LEMMA PassShows ==
  ASSUME NEW judged, NEW gate, \A j \in judged : Judged(j, gate), NEW results \in Results(judged), Decision(results) = "pass"
  PROVE  /\ \A r \in results : Shows(r, gate)
         /\ \A j \in judged : \E r \in results : r.evaluator = j.evaluator /\ r.slice = j.slice
<1>1. PICK p \in {f \in [judged -> BOOLEAN] : \A j \in judged : f[j] \in j.passed} :
        results = {[j EXCEPT !.passed = p[j]] : j \in judged}
  BY Zenon DEF Results
<1>2. \A r \in results : r.passed
  BY DEF Decision
<1>3. \A j \in judged : p[j] \in BOOLEAN /\ p[j] \in j.passed
  BY <1>1
<1>4. ASSUME NEW j \in judged, NEW b \in BOOLEAN
      PROVE  /\ [j EXCEPT !.passed = b].evaluator = j.evaluator /\ [j EXCEPT !.passed = b].slice = j.slice
             /\ [j EXCEPT !.passed = b].n = j.n /\ [j EXCEPT !.passed = b].best = j.best
             /\ [j EXCEPT !.passed = b].passed <=> b
  <2>1. {"evaluator", "slice", "n", "best", "passed"} \subseteq DOMAIN j
    BY DEF Judged
  <2>. QED
    BY <2>1, Zenon
<1>5. ASSUME NEW j \in judged
      PROVE  Shows([j EXCEPT !.passed = p[j]], gate)
  <2>1. [j EXCEPT !.passed = p[j]] \in results
    BY <1>1, Zenon
  <2>2. [j EXCEPT !.passed = p[j]].passed
    BY <1>2, <2>1, Zenon
  <2>3. [j EXCEPT !.passed = p[j]].passed <=> p[j]
    BY <1>3, <1>4, Zenon
  <2>4. p[j]
    BY <2>2, <2>3, Zenon
  <2>5. p[j] = TRUE
    BY <1>3, <2>4, Zenon
  <2>6. Shows(j, gate)
    BY <1>3, <2>5 DEF Judged
  <2>. QED
    BY <1>3, <1>4, <2>6 DEF Shows
<1>6. \A r \in results : Shows(r, gate)
  BY <1>1, <1>5, Zenon
<1>7. ASSUME NEW j \in judged PROVE \E r \in results : r.evaluator = j.evaluator /\ r.slice = j.slice
  <2>1. [j EXCEPT !.passed = p[j]] \in results
    BY <1>1, Zenon
  <2>. QED
    BY <1>3, <1>4, <2>1, Zenon
<1>. QED
  BY <1>6, <1>7

\* The first of some positions is one of them.
LEMMA FirstIs ==
  ASSUME NEW S, S \subseteq Nat, S # {}
  PROVE  First(S) \in S
BY LeastNumber, Zenon DEF First

\* A function from some positions of a log, with values that are integers.
LEMMA PositionsAreObserved ==
  ASSUME NEW log, NEW T, log \in Seq(T), NEW D, D \subseteq DOMAIN log, NEW obs, DOMAIN obs = D,
         \A i \in D : obs[i].value \in Int
  PROVE  Observations(obs)
<1>1. IsFiniteSet(1..Len(log)) /\ DOMAIN log = 1..Len(log) /\ 1..Len(log) \subseteq Nat
  BY FS_Interval
<1>2. IsFiniteSet(D)
  BY <1>1, FS_Subset
<1>. QED
  BY <1>1, <1>2 DEF Observations

\* The score of a sample of an Inspect log is a number,
LEMMA SampleScore ==
  ASSUME NEW s, NEW T, s.scores \in Seq(T), s.scores # << >>, NEW scorer,
         \A k \in DOMAIN s.scores : s.scores[k].value.number \in Int
  PROVE  ScoreOf(s, scorer) \in Int
<1>. DEFINE named == {i \in DOMAIN s.scores : s.scores[i].scorer = scorer}
            k     == IF named # {} THEN First(named) ELSE 1
<1>1. DOMAIN s.scores = 1..Len(s.scores) /\ 1 \in DOMAIN s.scores
  OBVIOUS
<1>2. named \subseteq Nat
  BY <1>1
<1>3. named # {} => First(named) \in named
  BY <1>2, FirstIs
<1>4. k \in DOMAIN s.scores
  BY <1>1, <1>3
<1>5. ScoreOf(s, scorer) = InspectValue(s.scores[k].value)
  BY Zenon DEF ScoreOf
<1>. HIDE DEF k
<1>6. \A v : v.number \in Int => InspectValue(v) \in Int
  BY DEF InspectValue
<1>. QED
  BY <1>4, <1>5, <1>6

\* as is the metric of a sample of lm-eval's.
LEMMA SampleMetric ==
  ASSUME NEW r, NEW metric, MetricOf(r, metric) # "none"
  PROVE  MetricOf(r, metric) \in DOMAIN r.metrics
<1>. DEFINE known == {i \in DOMAIN LmEvalMetrics : LmEvalMetrics[i] \in DOMAIN r.metrics}
<1>1. MetricOf(r, metric) = IF metric \in DOMAIN r.metrics THEN metric
                            ELSE IF known = {} THEN "none" ELSE LmEvalMetrics[First(known)]
  BY Zenon DEF MetricOf
<1>2. known \subseteq Nat
  <2>1. DOMAIN LmEvalMetrics \subseteq Nat
    BY DEF LmEvalMetrics
  <2>. QED
    BY <2>1
<1>3. known # {} => LmEvalMetrics[First(known)] \in DOMAIN r.metrics
  <2>1. known # {} => First(known) \in known
    BY <1>2, FirstIs
  <2>. QED
    BY <2>1, Zenon
<1>. QED
  BY <1>1, <1>3

\* So a benchmark's log becomes observations.
LEMMA LogsAreObserved ==
  ASSUME NEW e, IsRollout(e), NEW log \in Logs[e.kind]
  PROVE  Observations(LogOf(e, log))
<1>1. e.kind \in RolloutKinds /\ ScoresAreNumbers(log, e.kind)
  BY WorkflowAssumption DEF IsRollout
<1>2. log \in Seq(ToSet(log))
  BY <1>1 DEF ScoresAreNumbers
<1>3. CASE e.kind = "command"
  <2>. DEFINE D == {j \in DOMAIN log : ~log[j].error /\ log[j].score # NoScore}
  <2>1. LogOf(e, log) = ParseScores(log)
    BY <1>3 DEF LogOf
  <2>2. DOMAIN ParseScores(log) = D /\ \A i \in D : ParseScores(log)[i].value = log[i].score
    BY DEF ParseScores
  <2>3. \A i \in DOMAIN log : log[i].score \in Int
    BY <1>1, <1>3 DEF ScoresAreNumbers
  <2>4. D \subseteq DOMAIN log
    OBVIOUS
  <2>. HIDE DEF D
  <2>5. \A i \in D : ParseScores(log)[i].value \in Int
    BY <2>2, <2>3, <2>4
  <2>. QED
    BY <1>2, <2>1, <2>2, <2>4, <2>5, PositionsAreObserved
<1>4. CASE e.kind = "inspect"
  <2>. DEFINE D == {j \in DOMAIN log : ~log[j].error /\ log[j].scores # << >> /\ ScoreOf(log[j], "match") # NoScore}
              obs == ParseInspect(log, "match", "task")
  <2>1. LogOf(e, log) = obs
    BY <1>4 DEF LogOf
  <2>2. DOMAIN obs = D /\ \A i \in D : obs[i].value = ScoreOf(log[i], "match")
    BY DEF ParseInspect
  <2>3. \A i \in D : ScoreOf(log[i], "match") \in Int
    <3>1. \A i \in DOMAIN log : /\ log[i].scores \in Seq(ToSet(log[i].scores))
                                /\ \A k \in DOMAIN log[i].scores : log[i].scores[k].value.number \in Int
      BY <1>1, <1>4 DEF ScoresAreNumbers
    <3>2. \A i \in D : i \in DOMAIN log /\ log[i].scores # << >>
      OBVIOUS
    <3>. HIDE DEF D
    <3>. QED
      BY <3>1, <3>2, SampleScore
  <2>4. D \subseteq DOMAIN log
    OBVIOUS
  <2>. HIDE DEF D, obs
  <2>5. \A i \in D : obs[i].value \in Int
    BY <2>2, <2>3
  <2>. QED
    BY <1>2, <2>1, <2>2, <2>4, <2>5, PositionsAreObserved
<1>5. CASE e.kind = "lm-eval"
  <2>. DEFINE chosen == FilterOf(log, "none")
              D == {j \in DOMAIN log : (chosen = "none" \/ log[j].filter \in {"none", chosen}) /\ MetricOf(log[j], "none") # "none"}
              obs == ParseLmEval("gsm8k", log, "none", "none")
  <2>1. LogOf(e, log) = obs
    BY <1>5 DEF LogOf
  <2>2. DOMAIN obs = D /\ \A i \in D : obs[i].value = log[i].metrics[MetricOf(log[i], "none")]
    BY DEF ParseLmEval
  <2>3. \A i \in D : log[i].metrics[MetricOf(log[i], "none")] \in Int
    <3>1. \A i \in DOMAIN log : \A metric \in DOMAIN log[i].metrics : log[i].metrics[metric] \in Int
      BY <1>1, <1>5 DEF ScoresAreNumbers
    <3>2. \A i \in D : i \in DOMAIN log /\ MetricOf(log[i], "none") # "none"
      OBVIOUS
    <3>. HIDE DEF D
    <3>. QED
      BY <3>1, <3>2, SampleMetric
  <2>4. D \subseteq DOMAIN log
    OBVIOUS
  <2>. HIDE DEF D, obs
  <2>5. \A i \in D : obs[i].value \in Int
    BY <2>2, <2>3
  <2>. QED
    BY <1>2, <2>1, <2>2, <2>4, <2>5, PositionsAreObserved
<1>. QED
  BY <1>1, <1>3, <1>4, <1>5 DEF RolloutKinds

\* A row's score is a number,
LEMMA RowScoreIs ==
  ASSUME NEW e, NEW x, NEW out \in Outputs
  PROVE  RowScore(e, x, out) \in Int
<1>1. \A match, label, comparison : LabelScore(match, label, comparison) \in {0, 100}
  BY Zenon DEF LabelScore
<1>2. StructuralScore(x.shape, out) \in {0, 100}
  BY Zenon DEF StructuralScore
<1>3. AsScore(out.verdict) \in Int
  BY WorkflowAssumption DEF AsScore
<1>. DEFINE match == IF e.value = "contains" THEN e.value ELSE "exact"
<1>4. RowScore(e, x, out) = LabelScore(match, x.label, out.text)
      \/ RowScore(e, x, out) = StructuralScore(x.shape, out) \/ RowScore(e, x, out) = AsScore(out.verdict)
  <2>1. CASE e.kind = "labels"
    BY <2>1, Zenon DEF RowScore
  <2>2. CASE e.kind = "structural"
    BY <2>2 DEF RowScore
  <2>3. CASE e.kind \notin {"labels", "structural"}
    BY <2>3 DEF RowScore
  <2>. QED
    BY <2>1, <2>2, <2>3
<1>. HIDE DEF match
<1>. QED
  BY <1>1, <1>2, <1>3, <1>4

\* and where an evaluation has row evaluators a row is held out that they test.
LEMMA SomeRowIsTested ==
  ASSUME NEW cfg, NEW m, NEW targets, EvalProblem(cfg, m, targets) = "none", RowEvaluators(m) # {}
  PROVE  Chosen(ToExamples(rows), SplitsOfModel(m)) # {}
<1>. DEFINE builds == {BuildProblem(f, machine.tools) : f \in EvaluatorsOf(m)} \ {"none"}
            fails  == \E f \in EvaluatorsOf(m) \ RowEvaluators(m), t \in targets :
                        RolloutProblem(f, t, machine.tools) # "none"
            row    == RowEvaluators(m) # {}
            build  == CHOOSE b \in builds : TRUE
            source == SourceProblem(CHOOSE d \in m.data : TRUE, cfg, rows, machine.tools)
            read   == IF row THEN source ELSE "none"
            untested == Chosen(ToExamples(rows), SplitsOfModel(m)) = {}
            floor  == \E f \in m.eval : f.gate.test = "threshold" /\ f.gate.min = {}
<1>1. EvalProblem(cfg, m, targets) =
        IF m.eval = {} THEN "no-eval" ELSE IF builds # {} THEN build
        ELSE IF row /\ m.data = {} THEN "rows-need-data"
        ELSE IF read # "none" THEN read
        ELSE IF row /\ untested THEN "nothing-held-out"
        ELSE IF fails THEN "no-harness"
        ELSE IF floor THEN "no-floor" ELSE "none"
  BY Zenon DEF EvalProblem
<1>2. builds # {} => build # "none"
  BY Zenon
<1>. HIDE DEF builds, fails, build, read, untested, floor
<1>3. ~untested
  BY <1>1, <1>2
<1>. QED
  BY <1>3 DEF untested

\* What the targets of a gate answer: an output for each row, a log of each benchmark.
LEMMA AnswersAre ==
  ASSUME NEW m, NEW answers \in Answers(m), NEW t \in Targets
  PROVE  /\ \A id \in IdsOf(TestedRows(m)) : answers.outputs[t][id] \in Outputs
         /\ \A k \in KindsOf(m) : answers.logs[t][k] \in Logs[k]
<1>. DEFINE ids == IdsOf(TestedRows(m))
            kinds == KindsOf(m)
            logs == {l \in [kinds -> UNION {Logs[k] : k \in kinds}] : \A k \in kinds : l[k] \in Logs[k]}
<1>1. answers \in [outputs : [Targets -> [ids -> Outputs]], logs : [Targets -> logs]]
  BY Zenon DEF Answers
<1>. HIDE DEF ids, kinds, logs
<1>2. answers.outputs \in [Targets -> [ids -> Outputs]] /\ answers.logs \in [Targets -> logs]
  BY <1>1
<1>3. answers.outputs[t] \in [ids -> Outputs] /\ answers.logs[t] \in logs
  BY <1>2
<1>4. \A id \in ids : answers.outputs[t][id] \in Outputs
  BY <1>3
<1>5. \A k \in kinds : answers.logs[t][k] \in Logs[k]
  BY <1>3, Zenon DEF logs
<1>. QED
  BY <1>4, <1>5, Zenon DEF ids, kinds

\* What a gate makes of the answers for an evaluator.
ScoresOf(m, answers, f) ==
  [t \in Targets |->
     [x \in TestedRows(m) |-> RowScore(f, x, answers.outputs[t][x.id])]]

AllIds(m) == [t \in Targets |-> OutputsFor(Served[t], TestedRows(m))]

JudgedOf(m, e, answers, f) ==
  IF IsRollout(f)
  THEN RolloutJudgements(f, [t \in Targets |-> LogOf(f, answers.logs[t][f.kind])], e.gate)
  ELSE RowJudgements(f, ToExamples(rows), e.splits, AllIds(m), ScoresOf(m, answers, f), e.gate)

\* The outcomes of a gate are what its evaluators' judgements can come to.
LEMMA OutcomesAre ==
  ASSUME NEW m, NEW e, m.eval = {e}, NEW answers
  PROVE  Outcomes(m, Served, answers) = Results(UNION {JudgedOf(m, e, answers, f) : f \in {g \in EvaluatorsOf(m) : g.gate}})
<1>. DEFINE chosen == CHOOSE d \in m.eval : TRUE
            G(x)   == Results(UNION {JudgedOf(m, x, answers, f) : f \in {g \in EvaluatorsOf(m) : g.gate}})
<1>1. chosen = e
  OBVIOUS
<1>2. Outcomes(m, Served, answers) = G(chosen)
  BY Zenon DEF Outcomes, JudgedOf, ScoresOf, AllIds
<1>. HIDE DEF G, chosen
<1>3. Outcomes(m, Served, answers) = G(e)
  BY <1>1, <1>2
<1>. QED
  BY <1>3 DEF G

\* A target that is served answers all rows that are tested.
LEMMA ServedAnswersAll ==
  ASSUME NEW m, NEW t \in Targets
  PROVE  AllIds(m)[t] = IdsOf(TestedRows(m))
<1>1. Served[t].kind = "openai"
  BY DEF Served
<1>. QED
  BY <1>1 DEF AllIds, OutputsFor, IdsOf

\* The judgements of an evaluator at a gate: they are such, and one is of all its items.
LEMMA EvaluatorIsJudged ==
  ASSUME Shape, NEW cfg, NEW m, NEW e, m.eval = {e}, GateTyped(e.gate), NEW targets,
         EvalProblem(cfg, m, targets) = "none", NEW answers \in Answers(m), NEW f \in EvaluatorsOf(m)
  PROVE  /\ \A j \in JudgedOf(m, e, answers, f) : Judged(j, e.gate)
         /\ \E j \in JudgedOf(m, e, answers, f) : j.evaluator = f.name /\ j.slice = All
<1>1. CASE IsRollout(f)
  <2>. DEFINE logs == [t \in Targets |-> LogOf(f, answers.logs[t][f.kind])]
  <2>1. f.kind \in KindsOf(m)
    BY <1>1, Zenon DEF KindsOf, RowEvaluators
  <2>2. \A t \in Targets : Observations(logs[t])
    <3>. TAKE t \in Targets
    <3>1. answers.logs[t][f.kind] \in Logs[f.kind]
      BY <2>1, AnswersAre
    <3>2. logs[t] = LogOf(f, answers.logs[t][f.kind])
      OBVIOUS
    <3>. QED
      BY <1>1, <3>1, <3>2, LogsAreObserved
  <2>3. JudgedOf(m, e, answers, f) = Judgements(f.name, "items", logs["candidate"], logs["incumbent"], e.gate)
    BY <1>1, Zenon DEF JudgedOf, RolloutJudgements
  <2>. HIDE DEF logs
  <2>4. Observations(logs["candidate"]) /\ Observations(logs["incumbent"])
    BY <2>2 DEF Targets
  <2>. QED
    BY <2>3, <2>4, JudgementsShow
<1>2. CASE ~IsRollout(f)
  <2>. DEFINE scores   == ScoresOf(m, answers, f)
              examples == ToExamples(rows)
              outs     == AllIds(m)
              tested   == TestedRows(m)
  <2>1. \A t \in Targets : outs[t] = IdsOf(tested)
    BY ServedAnswersAll
  <2>2. ASSUME NEW t \in Targets, NEW x \in tested PROVE scores[t][x] \in Int
    <3>1. answers.outputs[t][x.id] \in Outputs
      BY <2>2, AnswersAre DEF IdsOf
    <3>2. scores[t][x] = RowScore(f, x, answers.outputs[t][x.id])
      BY <2>2, Zenon DEF ScoresOf
    <3>. HIDE DEF scores
    <3>. QED
      BY <3>1, <3>2, RowScoreIs
  <2>3. Len(rows) \in Nat /\ DOMAIN examples = 1..Len(rows)
    BY Grown DEF ToExamples, Shape
  <2>4. SplitsOfModel(m) = e.splits
    <3>1. (CHOOSE d \in m.eval : TRUE) = e
      OBVIOUS
    <3>. QED
      BY <3>1 DEF SplitsOfModel
  <2>5. f \in RowEvaluators(m)
    BY <1>2 DEF RowEvaluators
  <2>6. PICK i \in Chosen(examples, e.splits) : TRUE
    BY <2>4, <2>5, SomeRowIsTested
  <2>7. ASSUME NEW k \in Chosen(examples, e.splits)
        PROVE  examples[k] \in tested /\ examples[k].id \in outs["candidate"]
    <3>1. tested = {ToExample(rows[l]) : l \in Chosen(examples, e.splits)}
      BY <2>4, <2>5, Zenon DEF TestedRows
    <3>2. k \in DOMAIN rows /\ examples[k] = ToExample(rows[k])
      BY <2>7 DEF Chosen, InSplits, ToExamples
    <3>3. ToExample(rows[k]) \in tested
      BY <2>7, <3>1, Zenon
    <3>. HIDE DEF tested, examples, outs
    <3>4. examples[k].id \in IdsOf(tested)
      BY <3>2, <3>3, Zenon DEF IdsOf
    <3>. QED
      BY <2>1, <3>2, <3>3, <3>4 DEF Targets
  <2>8. JudgedOf(m, e, answers, f) = RowJudgements(f, examples, e.splits, outs, scores, e.gate)
    BY <1>2, Zenon DEF JudgedOf
  <2>. HIDE DEF scores, examples, outs, tested
  <2>9. \A t \in Targets, k \in Chosen(examples, e.splits) : examples[k].id \in outs[t] => scores[t][examples[k]] \in Int
    BY <2>2, <2>7
  <2>10. \E k \in Chosen(examples, e.splits) : examples[k].id \in outs["candidate"]
    BY <2>6, <2>7
  <2>11. ASSUME NEW n \in Nat, DOMAIN examples = 1..n
         PROVE  LET js == RowJudgements(f, examples, e.splits, outs, scores, e.gate)
                IN  /\ \A j \in js : Judged(j, e.gate)
                    /\ \E j \in js : j.evaluator = f.name /\ j.slice = All
    <3>. DEFINE splits == e.splits
                gate == e.gate
    <3>1. GateTyped(gate)
      OBVIOUS
    <3>2. \A t \in Targets, i_1 \in Chosen(examples, splits) : examples[i_1].id \in outs[t] => scores[t][examples[i_1]] \in Int
      BY <2>9
    <3>3. \E k \in Chosen(examples, splits) : examples[k].id \in outs["candidate"]
      BY <2>10
    <3>. HIDE DEF splits, gate
    <3>4. /\ \A j \in RowJudgements(f, examples, splits, outs, scores, gate) : Judged(j, gate)
          /\ \E j \in RowJudgements(f, examples, splits, outs, scores, gate) : j.evaluator = f.name /\ j.slice = All
      BY <2>11, <3>1, <3>2, <3>3, RowsAreJudged
    <3>. QED
      BY <3>4 DEF splits, gate
  <2>. QED
    BY <2>3, <2>8, <2>11
<1>. QED
  BY <1>1, <1>2

\* A gate that passes shows what it should.
LEMMA PassedShows ==
  ASSUME Shape, NEW cfg, NEW m, NEW e, m.eval = {e}, GateTyped(e.gate), NEW targets,
         EvalProblem(cfg, m, targets) = "none", NEW answers \in Answers(m),
         NEW results \in Outcomes(m, Served, answers), Decision(results) = "pass"
  PROVE  /\ \A r \in results : Shows(r, e.gate)
         /\ \A f \in EvaluatorsOf(m) : f.gate => \E r \in results : r.evaluator = f.name /\ r.slice = All
<1>. DEFINE Of(f) == JudgedOf(m, e, answers, f)
            gating == {g \in EvaluatorsOf(m) : g.gate}
            judged == UNION {Of(f) : f \in gating}
<1>1. results \in Results(judged)
  BY OutcomesAre
<1>2. \A f \in EvaluatorsOf(m) : /\ \A j \in Of(f) : Judged(j, e.gate)
                                 /\ \E j \in Of(f) : j.evaluator = f.name /\ j.slice = All
  BY EvaluatorIsJudged
<1>. HIDE DEF Of
<1>3. \A j \in judged : Judged(j, e.gate)
  BY <1>2
<1>4. \A f \in gating : Of(f) \subseteq judged
  BY Zenon
<1>. HIDE DEF judged
<1>5. /\ \A r \in results : Shows(r, e.gate)
      /\ \A j \in judged : \E r \in results : r.evaluator = j.evaluator /\ r.slice = j.slice
  BY <1>1, <1>3, PassShows, SMTT(40)
<1>6. ASSUME NEW f \in EvaluatorsOf(m), f.gate PROVE \E r \in results : r.evaluator = f.name /\ r.slice = All
  <2>1. f \in gating
    BY <1>6
  <2>2. PICK j \in Of(f) : j.evaluator = f.name /\ j.slice = All
    BY <1>2
  <2>. QED
    BY <1>4, <1>5, <2>1, <2>2
<1>. QED
  BY <1>5, <1>6

\* What a Model's eval section is: at most one, of the schema's types, with gates that can be.
LEMMA EvalsAre ==
  ASSUME NEW cfg \in Loaded, NEW n \in DOMAIN cfg.models
  PROVE  /\ \A d, e \in cfg.models[n].eval : d = e
         /\ \A e \in cfg.models[n].eval : GateTyped(e.gate)
<1>1. PICK docs : EvalsAreTyped(docs) /\ Validated(cfg, docs)
  BY LoadedIs
<1>. DEFINE m == cfg.models[n]
<1>2. ModelOK(m) /\ \E i \in DOMAIN docs : docs[i].kind = "Model" /\ m = docs[i].spec
  BY <1>1 DEF Validated
<1>. HIDE DEF m
<1>3. \A e \in m.eval : GateOK(e.gate)
  BY <1>2 DEF ModelOK, EvalOK
<1>4. /\ \A d, e \in m.eval : d = e
      /\ \A e \in m.eval : {e.gate.margin, e.gate.minItems} \subseteq Int
  BY <1>1, <1>2, Zenon DEF EvalsAreTyped
<1>. QED
  BY <1>3, <1>4 DEF GateTyped, m

\* A gate without a problem has found the Model, and its evaluation has none.
LEMMA GateEvaluates ==
  ASSUME NEW cfg, NEW v, GateProblem(cfg, v) = "none"
  PROVE  /\ Model \in DOMAIN cfg.models /\ cfg.models[Model].eval # {}
         /\ EvalProblem(cfg, cfg.models[Model], {[kind |-> "openai"]}) = "none"
<1>. DEFINE m == cfg.models[Model]
            trainer == TrainerProblem(v.train, machine)
            serve == LaunchProblem(m, machine, TRUE, Fused(v.trainer))
            problem == EvalProblem(cfg, m, {[kind |-> "openai"]})
<1>1. GateProblem(cfg, v) = IF trainer # "none" THEN trainer ELSE IF Model \notin DOMAIN cfg.models THEN "no-Model"
                            ELSE IF serve # "none" THEN serve ELSE problem
  BY Zenon DEF GateProblem
<1>2. m.eval = {} => problem = "no-eval"
  BY Zenon DEF EvalProblem
<1>. HIDE DEF trainer, serve, problem
<1>3. Model \in DOMAIN cfg.models /\ problem = "none"
  BY <1>1
<1>. QED
  BY <1>2, <1>3 DEF problem

\* What it means that a version passed.
PassMeans(v) ==
  v.status = "passed" =>
    \A e \in v.by : \A k \in DOMAIN e.evaluators :
      e.evaluators[k].gate =>
        LET mine == {r \in v.results : r.evaluator = Compact(e.evaluators[k]).name}
        IN /\ \E r \in mine : r.slice = All
           /\ \A r \in mine : r.n >= e.gate.minItems
                              /\ (e.gate.test = "non-inferiority" => r.best >= e.gate.margin)

\* A gate's version means it.
LEMMA JudgedMeans ==
  ASSUME Shape, Sources, NEW cfg \in worker, NEW v, Fields \subseteq DOMAIN v, GateProblem(cfg, v) = "none",
         NEW answers \in Answers(cfg.models[Model]), NEW results \in Outcomes(cfg.models[Model], Served, answers)
  PROVE  PassMeans(AsJudged(cfg, v, results))
<1>. DEFINE m == cfg.models[Model]
            w == AsJudged(cfg, v, results)
<1>0. cfg \in Loaded
  BY DEF Sources
<1>1. /\ Model \in DOMAIN cfg.models /\ m.eval # {}
      /\ EvalProblem(cfg, m, {[kind |-> "openai"]}) = "none"
  BY GateEvaluates
<1>2. /\ \A d, e \in m.eval : d = e
      /\ \A e \in m.eval : GateTyped(e.gate)
  BY <1>0, <1>1, EvalsAre
<1>3. (w.status = "passed" => Decision(results) = "pass") /\ w.by = m.eval /\ w.results = results
  BY JudgedIs
<1>6. answers \in Answers(m) /\ results \in Outcomes(m, Served, answers)
  OBVIOUS
<1>. HIDE DEF m, w
<1>4. ASSUME w.status = "passed", NEW e \in w.by, NEW k \in DOMAIN e.evaluators, e.evaluators[k].gate
      PROVE  /\ \E r \in w.results : r.evaluator = Compact(e.evaluators[k]).name /\ r.slice = All
             /\ \A r \in w.results : Shows(r, e.gate)
  <2>1. Decision(results) = "pass" /\ e \in m.eval /\ m.eval = {e} /\ GateTyped(e.gate)
    BY <1>2, <1>3, <1>4
  <2>. DEFINE f == Compact(e.evaluators[k])
  <2>2. f \in EvaluatorsOf(m)
    <3>1. e \in m.eval /\ k \in DOMAIN e.evaluators
      BY <1>4, <2>1
    <3>2. f \in {Compact(e.evaluators[i]) : i \in DOMAIN e.evaluators}
      BY <3>1
    <3>. HIDE DEF f
    <3>. QED
      BY <3>1, <3>2 DEF EvaluatorsOf
  <2>3. f.gate <=> e.evaluators[k].gate
    BY Zenon DEF Compact
  <2>. HIDE DEF f
  <2>4. /\ \A r \in results : Shows(r, e.gate)
        /\ \A g \in EvaluatorsOf(m) : g.gate => \E r \in results : r.evaluator = g.name /\ r.slice = All
    BY <1>1, <1>6, <2>1, PassedShows, SMTT(40)
  <2>5. \E r \in results : r.evaluator = f.name /\ r.slice = All
    BY <1>4, <2>2, <2>3, <2>4, Zenon
  <2>. QED
    BY <1>3, <2>4, <2>5 DEF f
<1>5. PassMeans(w)
  BY <1>4, Zenon DEF PassMeans, Shows
<1>. QED
  BY <1>5 DEF w

\* Every step keeps what it means.
LEMMA MeansStep ==
  ASSUME Shape, Sources, PassNeedsEveryEvaluator, [Next]_vars
  PROVE  PassNeedsEveryEvaluator'
<1>1. \A i \in DOMAIN versions : PassMeans(versions[i])
  BY Zenon DEF PassNeedsEveryEvaluator, PassMeans
<1>2. ASSUME NEW i \in DOMAIN versions' PROVE PassMeans(versions'[i])
  <2>1. CASE i \notin DOMAIN versions
    <3>1. versions'[i] = NewVersion(submit.cfg, submit.examples, rows)
      BY <2>1, EachVersion
    <3>2. NewVersion(submit.cfg, submit.examples, rows).status = "training"
      BY NewIs
    <3>3. versions'[i].status # "passed"
      BY <3>1, <3>2
    <3>. QED
      BY <3>3, Zenon DEF PassMeans
  <2>2. CASE i \in DOMAIN versions
    <3>0. Fields \subseteq DOMAIN versions[i]
      BY <2>2 DEF Shape
    <3>1. CASE versions'[i] = versions[i]
      BY <1>1, <2>2, <3>1
    <3>2. CASE AsGated(versions[i], versions'[i])
      <4>1. PICK cfg \in worker :
              \/ versions'[i] = AsFailed(cfg, versions[i])
              \/ /\ GateProblem(cfg, versions[i]) = "none"
                 /\ \E answers \in Answers(cfg.models[Model]) :
                      \E results \in Outcomes(cfg.models[Model], Served, answers) :
                        versions'[i] = AsJudged(cfg, versions[i], results)
        BY <3>2, Zenon DEF AsGated
      <4>2. CASE versions'[i] = AsFailed(cfg, versions[i])
        <5>1. versions'[i].status # "passed"
          BY <3>0, <4>2, FailedIs
        <5>. QED
          BY <5>1, Zenon DEF PassMeans
      <4>3. ASSUME GateProblem(cfg, versions[i]) = "none", NEW answers \in Answers(cfg.models[Model]),
                   NEW results \in Outcomes(cfg.models[Model], Served, answers),
                   versions'[i] = AsJudged(cfg, versions[i], results)
            PROVE  PassMeans(versions'[i])
        BY <3>0, <4>3, JudgedMeans
      <4>. QED
        BY <4>1, <4>2, <4>3, Zenon
    <3>3. CASE WithStatus(versions[i], versions'[i])
      <4>1. /\ versions'[i].by = versions[i].by /\ versions'[i].results = versions[i].results
            /\ versions'[i].status = "passed" => versions[i].status = "passed"
        BY <3>3 DEF WithStatus
      <4>2. PassMeans(versions[i])
        BY <1>1, <2>2
      <4>. QED
        BY <4>1, <4>2, Zenon DEF PassMeans
    <3>. QED
      BY <2>2, <3>1, <3>2, <3>3, EachVersion
  <2>. QED
    BY <2>1, <2>2
<1>. QED
  BY <1>2, Zenon DEF PassNeedsEveryEvaluator, PassMeans

\* A version passes its gate only if each of its gating evaluators was judged, on enough of
\* the items that both targets have, and the candidate is on none of its splits and slices
\* worse by more than the margin on every item.
THEOREM PassesMean == Spec => []PassNeedsEveryEvaluator
<1>1. Init => PassNeedsEveryEvaluator
  BY DEF Init, PassNeedsEveryEvaluator
<1>2. Shape /\ Sources /\ PassNeedsEveryEvaluator /\ [Next]_vars => (Sources /\ PassNeedsEveryEvaluator)'
  BY SourcesStep, MeansStep
<1>. QED
  BY <1>1, <1>2, SourcesInit, ShapeIsInvariant, PTL DEF Spec
=============================================================================
