---------------------------- MODULE Configuration ----------------------------
(***************************************************************************)
(* ookami.yaml: what each section of a document has to satisfy, loading    *)
(* the documents of a file, and the checks across documents.               *)
(*                                                                         *)
(* An optional section is a set of at most one record.  A path says if it  *)
(* exists ("here", "gone") or is not given ("none"); a reference to Python *)
(* code may also be "unusable": its file exists and no function is loaded  *)
(* from it.  A secret is a reference or an inline value; shares and scores *)
(* are in hundredths.                                                      *)
(***************************************************************************)
EXTENDS Integers, Sequences, SequencesExt, FiniteSets

Secret == {"none", "reference"}
Port   == 1..65535

-----------------------------------------------------------------------------
(* Platform *)

DefaultGateway == [mode |-> "managed", auth |-> "keys", url |-> FALSE, adminKey |-> "none", port |-> 4000]

GatewayOK(g) ==
  /\ g.mode \in {"managed", "external", "none"} /\ g.auth \in {"keys", "none"}
  /\ g.adminKey \in Secret /\ g.port \in Port
  /\ g.mode = "external" => g.url

DatabaseOK(url) == url \in {"none", "reference", "sqlite", "postgres"}  \* not "credentials" inline

TracingOK(t) ==
  /\ t.mode \in {"managed", "external"}
  /\ t.mode = "managed" => t.config # "none"

LangfuseOK(l) == {l.publicKey, l.secretKey} \subseteq {"reference"}

DefaultComponents == {"serving", "training", "eval", "registry"}

DefaultPlatform ==
  [backend |-> "local", storage |-> "local", database |-> "none", gateway |-> DefaultGateway,
   components |-> DefaultComponents, tracing |-> {}, langfuse |-> {}, profile |-> "local"]

BackendFits(p) ==
  CASE p.backend = "k8s"   -> p.profile \notin {"local", "vm"} /\ p.database \in {"reference", "postgres"}
    [] p.backend = "local" -> p.profile \in {"local", "vm"}
    [] OTHER               -> p.backend = "skypilot"

PlatformOK(p) ==
  /\ GatewayOK(p.gateway) /\ DatabaseOK(p.database)
  /\ \A t \in p.tracing : TracingOK(t)
  /\ \A l \in p.langfuse : LangfuseOK(l)
  /\ BackendFits(p)

-----------------------------------------------------------------------------
(* Model *)

SourceKinds == {"jsonl", "parquet", "hf", "traces"}

\* [sources |-> the keys given, path, lake, minExamples]
DataOK(d) == Cardinality(d.sources \cap SourceKinds) = 1 /\ d.minExamples >= 1

Overridable == {"lora.rank", "lora.alpha", "lora.dropout", "lora.layers", "epochs", "iters", "learning_rate",
                "max_seq_len", "batch_size", "grad_accumulation", "seed", "quantize"}

TrainOK(t) ==
  /\ t.engine \in {"auto", "mlx", "trl", "command"}
  /\ t.recipe \in {"sft", "dpo", "grpo", "sft-then-grpo"}
  /\ t.engine = "command" => t.command
  /\ t.recipe \in {"grpo", "sft-then-grpo"} => t.reward # "none"
  /\ DOMAIN t.overrides \subseteq Overridable

DefaultSplits == [heldOut |-> 10, audit |-> 5, stratify |-> FALSE, seed |-> 0]

SplitsOK(s) ==
  /\ s.heldOut > 0 /\ s.heldOut < 100 /\ s.audit >= 0 /\ s.audit < 100
  /\ s.heldOut + s.audit < 50

EvaluatorKinds == {"labels", "python", "webhook", "command", "plugin", "lm-eval", "inspect", "structural"}

\* The name an evaluator has when it gives none: a file's stem, a column, a plugin or its kind.
DefaultName(kind, value) ==
  CASE kind \in {"python", "plugin"} -> <<value>>
    [] kind = "labels"               -> <<kind, value>>
    [] OTHER                         -> <<kind>>

\* An entry of eval.evaluators: its keys name exactly one kind; the value under it is
\* "none" when the parameter that the kind needs is missing.
EvaluatorOK(e) ==
  /\ Cardinality(e.keys \cap EvaluatorKinds) = 1
  /\ e.keys \cap {"labels", "structural"} = {} => e.value # "none"

Compact(e) ==
  LET kind == CHOOSE k \in e.keys : k \in EvaluatorKinds
  IN [kind |-> kind, value |-> e.value, gate |-> e.gate,
      name |-> IF e.name = "none" THEN DefaultName(kind, e.value) ELSE <<e.name>>]

DefaultGate == [test |-> "non-inferiority", margin |-> -1, perSlice |-> TRUE, min |-> {}, minItems |-> 20,
                confidence |-> 95]

GateOK(g) ==
  /\ g.test \in {"non-inferiority", "superiority", "threshold"}
  /\ g.margin <= 0 /\ g.minItems >= 1 /\ g.confidence > 50 /\ g.confidence < 100
  /\ g.test = "threshold" => g.min # {}

NamesUnique(evaluators) ==
  \A i, j \in DOMAIN evaluators : Compact(evaluators[i]).name = Compact(evaluators[j]).name => i = j

EvalOK(e) ==
  /\ SplitsOK(e.splits) /\ GateOK(e.gate)
  /\ e.evaluators # << >> /\ \A i \in DOMAIN e.evaluators : EvaluatorOK(e.evaluators[i])
  /\ NamesUnique(e.evaluators)
  /\ \E i \in DOMAIN e.evaluators : e.evaluators[i].gate

\* A stage is <<kind, share>>.
ShareOf(stage) == CASE stage[1] = "shadow" -> 0 [] stage[1] = "live" -> 100 [] OTHER -> stage[2]

StagesOK(v) ==
  /\ v # << >> /\ Last(v)[1] = "live"
  /\ \A i \in DOMAIN v :
       /\ v[i][1] \in {"shadow", "canary", "live"}
       /\ v[i][1] = "canary" => ShareOf(v[i]) > 0 /\ ShareOf(v[i]) < 100
       /\ v[i][1] = "shadow" \/ i = 1 \/ ShareOf(v[i]) > ShareOf(v[i - 1])

ProviderOK(p) == p.apiKey \in Secret

DefaultServe == [engine |-> "auto", command |-> {}, port |-> {}, cost |-> 0]

\* Mutant: the command of a command engine is not asked for.
ServeUnchecked(s) == s.engine \in {"auto", "vllm", "mlx", "command"} /\ s.port \subseteq Port /\ s.cost >= 0

\* serve.command is given as the set of the placeholders in it, in a set of at most one.
ServeOK(s) ==
  /\ s.engine \in {"auto", "vllm", "mlx", "command"} /\ s.port \subseteq Port /\ s.cost >= 0
  /\ s.engine = "command" => s.command # {}

AllowedLicences == {"Apache-2.0", "MIT", "BSD-3-Clause", "BSD-2-Clause"}

SelfHostedOK(m) ==
  /\ m.base = "catalog" \/ m.licence \in AllowedLicences
  /\ m.train # {} => m.data # {} /\ m.eval # {}
  /\ \A metric \in m.handoff.rollback :
       \E e \in m.eval : \E i \in DOMAIN e.evaluators : Compact(e.evaluators[i]).name = metric

ModelOK(m) ==
  /\ \A d \in m.data : DataOK(d)
  /\ \A t \in m.train : TrainOK(t)
  /\ \A e \in m.eval : EvalOK(e)
  /\ ServeOK(m.serve) /\ StagesOK(m.handoff.stages) /\ \A p \in m.provider : ProviderOK(p)
  /\ (m.base = "none") # (m.provider = {})
  /\ IF m.provider # {} THEN m.train = {} /\ m.data = {} ELSE SelfHostedOK(m)

-----------------------------------------------------------------------------
(* Loading *)

\* A document is well formed: its version, its name, and no key that the schema lacks.
DocOK(d) == d.wellFormed /\ IF d.kind = "Platform" THEN PlatformOK(d.spec) ELSE ModelOK(d.spec)

Error(what)   == [level |-> "error", what |-> what]
Warning(what) == [level |-> "warning", what |-> what]
When(cond, issue) == IF cond THEN {issue} ELSE {}
NoErrors(issues)  == \A i \in issues : i.level # "error"

\* What a document adds to the configuration; of two of one name the last is kept.
AddDoc(cfg, d) ==
  CASE d.kind \notin {"Platform", "Model"} -> [cfg EXCEPT !.issues = @ \cup {Error("kind")}]
    [] d.kind \in {"Platform", "Model"} /\ ~DocOK(d) -> [cfg EXCEPT !.issues = @ \cup {Error("invalid")}]
    [] d.kind = "Platform" /\ DocOK(d) ->
         [cfg EXCEPT !.platform = {d.spec},
                     !.issues = @ \cup When(cfg.platform # {}, Error("second-Platform"))]
    [] d.kind = "Model" /\ DocOK(d) ->
         [cfg EXCEPT !.models = [n \in DOMAIN @ \cup {d.name} |-> IF n = d.name THEN d.spec ELSE @[n]],
                     !.issues = @ \cup When(d.name \in DOMAIN cfg.models, Error("duplicate-Model"))]

LintPlatform(p) ==
  When(p.gateway.mode = "managed" /\ p.gateway.auth = "none", Warning("gateway-open"))
  \cup (IF "tracing" \notin p.components THEN {}
        ELSE IF p.tracing = {} THEN {Error("tracing-component-needs-Platform.tracing")}
        ELSE UNION {IF t.mode = "managed" /\ t.config = "gone" THEN {Error("tracing.config")}
                    ELSE When(p.gateway.mode = "external", Warning("tracing-callback")) : t \in p.tracing})

\* The components that a Model needs.
Needs(m) ==
  (IF m.base # "none" THEN {"serving"} ELSE {}) \cup (IF m.eval # {} THEN {"eval"} ELSE {})
  \cup (IF m.train # {} THEN {"training", "registry"} ELSE {})

LintForPlatform(m, p) ==
  When(~(Needs(m) \subseteq p.components), Error("component-off"))
  \cup When(m.handoff.route /\ p.gateway.mode = "none", Error("route-needs-a-gateway"))
  \cup When(\E d \in m.data : "traces" \in d.sources /\ ~d.lake /\ p.tracing = {}, Error("traces-need-a-lake"))

\* What the evaluators can and cannot show.  Of a reference to Python code only the file
\* is looked for, neither the function nor whether it can be imported; the parameters of
\* an evaluator are its own affair.
LintEval(m) ==
  LET rewards == {t.reward : t \in m.train} \ {"none"}
      Of(e)   == {Compact(e.evaluators[i]) : i \in DOMAIN e.evaluators}
      gating  == UNION {{x \in Of(e) : x.gate} : e \in m.eval}
      python  == {x.value : x \in {y \in UNION {Of(e) : e \in m.eval} : y.kind = "python"}}
  IN When(m.eval # {} /\ \A x \in gating : x.kind = "structural", Warning("structural-only"))
     \cup When(\E x \in gating : x.kind = "python" /\ x.value \in rewards, Warning("reward-gates"))
     \cup When(rewards # {} /\ \E e \in m.eval : e.splits.audit = 0, Warning("no-audit-split"))
     \cup When("gone" \in rewards \cup python \cup {m.handoff.executor}, Error("python-ref"))

LintModel(m) ==
  LintEval(m)
  \cup When(\E d \in m.data : d.path = "gone", Warning("data-source-not-found-yet"))
  \cup When(/\ m.handoff.route /\ m.handoff.executor = "none"
            /\ \E i \in DOMAIN m.handoff.stages : m.handoff.stages[i][1] = "shadow", Warning("shadow-scores"))

Lint(cfg) ==
  When(cfg.platform = {}, Warning("no-Platform"))
  \cup (UNION {LintPlatform(p) : p \in cfg.platform})
  \cup UNION {LintModel(cfg.models[n]) \cup UNION {LintForPlatform(cfg.models[n], p) : p \in cfg.platform} :
                n \in DOMAIN cfg.models}

\* The documents of a file, one after the other.
AddAll(docs) ==
  LET after[n \in 0..Len(docs)] ==
        IF n = 0 THEN [platform |-> {}, models |-> << >>, issues |-> {}] ELSE AddDoc(after[n - 1], docs[n])
  IN after[Len(docs)]

\* A file is a sequence of documents in a set of at most one, or {} if it cannot be parsed.
Load(file) ==
  LET cfg == IF file = {} THEN [platform |-> {}, models |-> << >>, issues |-> {Error("unreadable")}]
             ELSE AddAll(CHOOSE docs \in file : TRUE)
  IN IF NoErrors(cfg.issues) THEN [cfg EXCEPT !.issues = Lint(cfg)] ELSE cfg

Accepted(cfg) == NoErrors(cfg.issues)
=============================================================================
