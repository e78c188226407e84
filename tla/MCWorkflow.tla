------------------------------ MODULE MCWorkflow ------------------------------
(* A small instance of Workflow.tla for TLC: files that differ from a good one in what   *)
(* one validator is about, machines of each kind, rows whose inputs fall in each split.  *)
EXTENDS Workflow, TLC

Some(x) == {x}
M == "m"

-----------------------------------------------------------------------------
Labels(gate)  == [keys |-> {"labels"}, value |-> "exact", name |-> "none", gate |-> gate]
Python(ref)   == [keys |-> {"python", "gate"}, value |-> ref, name |-> "task", gate |-> TRUE]
Kind(k)       == [keys |-> {k}, value |-> "t", name |-> "none", gate |-> TRUE]
SmallGate     == [DefaultGate EXCEPT !.minItems = 1]

GoodEval  == [splits |-> [DefaultSplits EXCEPT !.stratify = TRUE], evaluators |-> <<Labels(TRUE)>>, gate |-> SmallGate]
GoodTrain == [engine |-> "auto", command |-> FALSE, recipe |-> "sft", reward |-> "none", overrides |-> << >>]
GoodData  == [sources |-> {"jsonl"}, path |-> "here", lake |-> FALSE, minExamples |-> 2]
Handoff   == [route |-> FALSE, stages |-> <<<<"shadow">>, <<"canary", 10>>, <<"live">>>>, rollback |-> {}, executor |-> "none"]
GoodModel == [base |-> "catalog", published |-> TRUE, provider |-> {}, licence |-> "none", weights |-> FALSE,
              serve |-> DefaultServe, data |-> Some(GoodData), train |-> Some(GoodTrain), eval |-> Some(GoodEval),
              handoff |-> Handoff]

Doc(kind, name, spec) == [kind |-> kind, name |-> name, wellFormed |-> TRUE, spec |-> spec]
File(p, m) == Some(<<Doc("Platform", "p", p), Doc("Model", M, m)>>)
WithModel(m)    == File(DefaultPlatform, m)
WithPlatform(p) == File(p, GoodModel)
WithTrain(t)    == WithModel([GoodModel EXCEPT !.train = Some(t)])
WithData(d)     == WithModel([GoodModel EXCEPT !.data = Some(d)])
WithEval(e)     == WithModel([GoodModel EXCEPT !.eval = Some(e)])
WithEvals(es)   == WithEval([GoodEval EXCEPT !.evaluators = es])
WithGate(g)     == WithEval([GoodEval EXCEPT !.gate = g])
WithServe(s)    == WithModel([GoodModel EXCEPT !.serve = s])

Good    == WithModel(GoodModel)
NewSeed == WithEval([GoodEval EXCEPT !.splits.seed = 1])
Long    == WithTrain([GoodTrain EXCEPT !.overrides = [epochs |-> 1050]])
NoTrain == WithModel([GoodModel EXCEPT !.train = {}])
Broken  == WithData([GoodData EXCEPT !.sources = {"jsonl", "hf"}])

\* Two evaluators and thresholds that decide differently.
Gates == {WithEvals(<<Labels(TRUE), Kind("command")>>), WithEvals(<<Kind("structural"), Labels(FALSE)>>),
          WithEvals(<<Kind("inspect")>>), WithEvals(<<Kind("lm-eval")>>), WithEvals(<<Python("here")>>),
          WithGate([SmallGate EXCEPT !.test = "superiority"]),
          WithGate([SmallGate EXCEPT !.test = "threshold", !.min = Some(60)]), WithGate([SmallGate EXCEPT !.minItems = 2]),
          WithGate([SmallGate EXCEPT !.perSlice = FALSE])}

\* Accepted, and refused later for a reason that the file could not tell.
Refused == {WithTrain([GoodTrain EXCEPT !.recipe = "dpo"]), WithModel([GoodModel EXCEPT !.published = FALSE]),
            WithPlatform([DefaultPlatform EXCEPT !.storage = "s3"]),
            WithPlatform([DefaultPlatform EXCEPT !.backend = "k8s", !.profile = "onprem", !.database = "reference"]),
            WithData([GoodData EXCEPT !.path = "gone"]), WithData([GoodData EXCEPT !.sources = {"traces"}, !.lake = TRUE]),
            WithServe([DefaultServe EXCEPT !.engine = "command", !.command = Some({"port"})]),
            WithTrain([GoodTrain EXCEPT !.engine = "command", !.command = TRUE]),
            WithEvals(<<[Labels(TRUE) EXCEPT !.value = "fuzzy"]>>), WithEvals(<<Python("unusable")>>),
            Some(<<Doc("Model", M, GoodModel)>>), NoTrain,
            WithModel([GoodModel EXCEPT !.train = {}, !.data = {}])}

\* Each breaks one rule of the file.
Wrong == {Broken, {}, Some(<<Doc("Secret", "s", << >>)>>), Some(<<Doc("Platform", "p", DefaultPlatform), Doc("Platform", "q", DefaultPlatform), Doc("Model", M, GoodModel)>>),
          WithPlatform([DefaultPlatform EXCEPT !.gateway.mode = "external"]),
          WithPlatform([DefaultPlatform EXCEPT !.gateway.adminKey = "inline"]),
          WithPlatform([DefaultPlatform EXCEPT !.profile = "onprem"]), WithPlatform([DefaultPlatform EXCEPT !.backend = "k8s"]),
          WithPlatform([DefaultPlatform EXCEPT !.components = @ \ {"registry"}]),
          WithPlatform([DefaultPlatform EXCEPT !.components = @ \cup {"tracing"}]),
          WithPlatform([DefaultPlatform EXCEPT !.tracing = Some([mode |-> "managed", config |-> "none"])]),
          WithPlatform([DefaultPlatform EXCEPT !.langfuse = Some([publicKey |-> "reference", secretKey |-> "inline"])]),
          WithModel([GoodModel EXCEPT !.data = {}]), WithModel([GoodModel EXCEPT !.eval = {}]),
          WithData([GoodData EXCEPT !.sources = {"traces"}]), WithEvals(<<Python("gone")>>), WithEvals(<<Labels(FALSE)>>),
          WithEvals(<<Labels(TRUE), Labels(TRUE)>>), WithEvals(<<[Kind("inspect") EXCEPT !.value = "none"]>>),
          WithGate([SmallGate EXCEPT !.test = "threshold"]), WithEval([GoodEval EXCEPT !.splits.heldOut = 45]),
          WithServe([DefaultServe EXCEPT !.engine = "command"]), WithTrain([GoodTrain EXCEPT !.engine = "command"]),
          WithTrain([GoodTrain EXCEPT !.recipe = "grpo"]), WithTrain([GoodTrain EXCEPT !.overrides = [optimizer |-> 1]]),
          WithModel([GoodModel EXCEPT !.provider = Some([apiKey |-> "reference"])]),
          WithModel([GoodModel EXCEPT !.base = "other", !.licence = "GPL"]),
          WithModel([GoodModel EXCEPT !.handoff.stages = <<<<"canary", 20>>, <<"canary", 10>>, <<"live">>>>]),
          WithModel([GoodModel EXCEPT !.handoff.rollback = {<<"nothing">>}])}

-----------------------------------------------------------------------------
Apple  == [kind |-> "apple", tools |-> {"mlx_lm", "inspect", "lm-eval", "command"}, params |-> 40, prequantized |-> TRUE,
           memory |-> 12000]
Nvidia == [kind |-> "nvidia", tools |-> {"vllm", "trl", "cc"}, params |-> 40, prequantized |-> FALSE, memory |-> 24000]
Machines == {Nvidia, [Nvidia EXCEPT !.memory = 16000], [Nvidia EXCEPT !.memory = 8000], [Nvidia EXCEPT !.memory = 4000],
             [Nvidia EXCEPT !.memory = Unknown], [Nvidia EXCEPT !.params = Unknown],
             [Apple EXCEPT !.kind = "cpu"], [Apple EXCEPT !.tools = {}]}

SomeEdits  == {NewSeed, NoTrain, Broken}

-----------------------------------------------------------------------------
NoShape == [tools |-> {}, json |-> FALSE, schema |-> FALSE]
Row(id, text, slice) == [id |-> id, form |-> "input", text |-> text, reference |-> "none", label |-> "l", slice |-> slice,
                         shape |-> NoShape]
\* Inputs a, b are trained on, c is held out, d is for the audit; another seed moves b and c.
Falls == [seed \in {0, 1} |-> [input \in {"messages", "text"} \X {"a", "b", "c", "d", ""} |->
            CASE input[2] = "d" -> 2 [] input[2] = IF seed = 0 THEN "c" ELSE "b" -> 10 [] OTHER -> 60]]
SomeRows == {Row("3", "c", "k=x"), [Row("", "c", "k=y") EXCEPT !.label = "other"],
             Row("5", "d", "k=y"), Row("1", "c", "k=x")}

Calls(c)  == [text |-> "differs", calls |-> c, json |-> TRUE, fits |-> TRUE, verdict |-> [type |-> "bool", value |-> FALSE]]
SomeOutputs == {[Calls({}) EXCEPT !.text = "same", !.verdict.value = TRUE],
                Calls({[tool |-> "t", json |-> FALSE, fits |-> FALSE]})}

Line(item, score) == [item |-> item, error |-> FALSE, score |-> score, slice |-> ""]
Sample(id, text)  == [id |-> id, error |-> FALSE, scores |-> <<[scorer |-> "model", value |-> [text |-> "I", number |-> 0]],
                                                             [scorer |-> "match", value |-> [text |-> text, number |-> NoScore]]>>]
Lm(doc, f, score) == [doc |-> doc, filter |-> f, metrics |-> [acc |-> score]]
SomeLogs == [k \in RolloutKinds |->
  CASE k = "command" -> {<<Line("i", 100), Line("i", 0)>>, <<Line("i", 50), [Line("j", 0) EXCEPT !.error = TRUE]>>, <<Line("i", NoScore)>>}
    [] k = "inspect" -> {<<Sample("i", "C"), Sample("j", "P")>>, <<Sample("i", "?"), [Sample("j", "C") EXCEPT !.error = TRUE]>>}
    [] k = "lm-eval" -> {<<Lm(1, "strict", 100), Lm(1, "flexible", 0)>>, <<Lm(1, "none", 0)>>}]

-----------------------------------------------------------------------------
\* Rows arrive, or the file is edited, while a good file is in use.
Setup(f, m, data, n) == [file |-> f, machine |-> m, rows |-> data, edits |-> n]
Full == <<Row("1", "a", "k=x"), Row("2", "b", "k=y"), Row("3", "c", "k=x")>>
Few  == SubSeq(Full, 1, 2)
AllSetups == {Setup(Good, Apple, Few, 0), Setup(Good, Apple, Full, 1)} \cup {Setup(f, Apple, Full, 0) : f \in Gates \cup Refused \cup Wrong}
             \cup {Setup(Long, m, Full, 0) : m \in Machines}

-----------------------------------------------------------------------------
NoBody == [size |-> 0, type |-> "object", lines |-> TRUE, path |-> "none", since |-> TRUE]
Get(path)        == [method |-> "GET", path |-> path, token |-> "master", body |-> NoBody]
Post(path)       == [Get(path) EXCEPT !.method = "POST"]
Chat             == Post(<<"api", "chat">>)
SomeRequests ==
  {Get(<<"healthz">>), Get(<<"app.js">>), Post(<<"app.js">>), Get(<<"api", "nothing">>), Post(<<"api", "nothing">>),
   [Chat EXCEPT !.token = "none"], [Chat EXCEPT !.token = "wrong"], [Chat EXCEPT !.body.size = 2],
   [Chat EXCEPT !.body.type = "list"], Chat,
   Get(<<"api", "overview">>), Get(<<"api", "models", M, "versions">>), Get(<<"api", "models", "other", "versions">>),
   Get(<<"api", "jobs", "job", "logs">>), Get(<<"api", "jobs", "other", "logs">>), [Get(<<"api", "jobs", "job", "logs">>) EXCEPT !.body.lines = FALSE],
   Get(<<"api", "report">>), [Get(<<"api", "report">>) EXCEPT !.body.path = "report"],
   Get(<<"api", "usage">>), [Get(<<"api", "usage">>) EXCEPT !.body.since = FALSE]}
=============================================================================
