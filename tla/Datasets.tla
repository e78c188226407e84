------------------------------- MODULE Datasets -------------------------------
(***************************************************************************)
(* Data sources, splits by hash, and the snapshot that a training run      *)
(* reads.  A row is [id, form, text, reference, label, slice, shape]:      *)
(* where the input is, what it says, and what there is to learn from.      *)
(***************************************************************************)
EXTENDS Configuration

CONSTANT Hash   \* [seed -> [input -> 0..99]]: where the hash of an input falls

\* Input of an example as the file has it; a prompt and a list of messages that send a
\* model the same text are two inputs, and have two hashes.
InputOf(row) == <<IF row.form = "messages" THEN "messages" ELSE "text", row.text>>

\* A row without an id is named by its content.
IdOf(row) == IF row.id # "" THEN <<row.id>> ELSE <<"sha1", row>>

\* An example: the trailing assistant turn, where the row has messages, is its reference.
ToExample(row) ==
  [id |-> IdOf(row), input |-> InputOf(row), label |-> row.label, slice |-> row.slice, shape |-> row.shape,
   reference |-> IF row.form = "messages" THEN row.reference ELSE "none"]

HasInput(row) == row.form \in {"messages", "input", "prompt"}
ToExamples(rows) == [i \in DOMAIN rows |-> ToExample(rows[i])]

\* Trajectory's export needs a lake and a program; it writes an empty file if it finds nothing.
TracesProblem(d, cfg, tools) ==
  IF ~d.lake /\ ~\E p \in cfg.platform : p.tracing # {} THEN "no-lake"
  ELSE IF "cc" \notin tools THEN "no-exporter" ELSE "none"

\* Why a source cannot be read, or "none".
SourceProblem(d, cfg, rows, tools) ==
  LET kind == CHOOSE k \in d.sources : k \in SourceKinds IN
  CASE kind = "traces" /\ TracesProblem(d, cfg, tools) # "none" -> TracesProblem(d, cfg, tools)
    [] kind = "parquet" /\ "pyarrow" \notin tools -> "no-pyarrow"
    [] kind = "hf" /\ "datasets" \notin tools -> "no-datasets"
    [] kind \in {"jsonl", "parquet"} /\ d.path = "gone" -> "no-file"
    [] \E i \in DOMAIN rows : ~HasInput(rows[i]) -> "bad-row"
    [] OTHER -> "none"

-----------------------------------------------------------------------------
(* Splits *)

SplitOf(input, splits) ==
  LET u == Hash[splits.seed][input] IN
  IF u < splits.audit THEN "audit" ELSE IF u < splits.audit + splits.heldOut THEN "heldOut" ELSE "train"

Ids(examples)    == {examples[i].id : i \in DOMAIN examples}
LastOf(examples, id) == CHOOSE i \in DOMAIN examples :
  examples[i].id = id /\ \A j \in DOMAIN examples : examples[j].id = id => j <= i

\* [id -> split]: of two rows with one id the later decides for both.
AssignSplits(examples, splits) ==
  [id \in Ids(examples) |-> SplitOf(examples[LastOf(examples, id)].input, splits)]

\* The positions of the examples of these splits.
InSplits(examples, splits, names) ==
  LET splitOf == AssignSplits(examples, splits)
  IN {i \in DOMAIN examples : splitOf[examples[i].id] \in names}

\* Those that are tested: held out or audit.
Chosen(examples, splits) == InSplits(examples, splits, {"heldOut", "audit"})

-----------------------------------------------------------------------------
(* Snapshot *)

\* What there is to learn: the reference if it says something, else the label.
HasTarget(x) == x.reference \in {"content", "tool_calls"} \/ x.label # "none"

LocalStorage(cfg) == \A p \in cfg.platform : p.storage \in {"local", "file"}

SplitsOfModel(m) == IF m.eval = {} THEN DefaultSplits ELSE (CHOOSE e \in m.eval : TRUE).splits

\* Mutant: only the audit rows are kept from training.
NotAudit(examples, splits) ==
  {i \in InSplits(examples, splits, {"train", "heldOut"}) : HasTarget(examples[i])}

\* Those that are trained on.
TrainingRows(examples, splits) ==
  {i \in InSplits(examples, splits, {"train"}) : HasTarget(examples[i])}

\* A slice of at most 200 of the training rows is for validation.
ValidOf(n) == LET v == IF n \div 20 > 200 THEN 200 ELSE n \div 20 IN IF v < 1 THEN 1 ELSE v

\* Mutant: the seed of the splits is not hashed.
Seedless(source, splits) == <<source, splits.heldOut, splits.audit>>

\* The name of the snapshot's directory.
Digest(source, splits) == <<source, splits.seed, splits.heldOut, splits.audit>>

\* The snapshot of the examples that were read; source is the content that was hashed.
SnapshotOf(examples, source, splits) ==
  LET rows  == TrainingRows(examples, splits)
      n     == Cardinality(rows)
      valid == ValidOf(n)
      Count(split) == Cardinality({id \in Ids(examples) : AssignSplits(examples, splits)[id] = split})
  IN [digest  |-> Digest(source, splits), splits |-> splits,
      inputs  |-> {examples[i].input : i \in rows},
      valid   |-> valid, train |-> n - valid,
      heldOut |-> Count("heldOut"), audit |-> Count("audit")]

-----------------------------------------------------------------------------
(* Outputs *)

\* The examples that a target has an output for: a served model answers all that are
\* chosen, recorded results have the ids of the file.
OutputsFor(target, chosen) == IF target.kind = "results" THEN target.ids ELSE {x.id : x \in chosen}
=============================================================================
