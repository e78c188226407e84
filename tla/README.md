# Ookami: a verification project

Ookami runs language models on one machine behind a gateway, fine-tunes them,
gates every trained version against the live one and promotes the versions that
pass. Its hard part is not any one function: several processes (the `ookami`
command, the threads of the console, the training worker, the gateway, the
engines and trainers they start) share a SQLite file, a directory of status
files, a lock file and a `state.json`, and any of them may die between two
steps. This directory models that part in TLA+, checks it with TLC and proves
the central results with TLAPS.

Paths below are relative to the Python package `src/ookami/`.

## Inventory

| Component | State | Operations | Interacts with | Hard behaviour | Correct when |
|---|---|---|---|---|---|
| Model registry, `registry.py` | `registry.db`: versions, events | `create`, `update`, `promote`, `live`, `event` | every other part opens it | several writers, SQLite's one write lock, a read outside a transaction, an event after the COMMIT, crashes | operations are atomic; one live version per model; a change without an event is that of a call that failed |
| Training queue and worker, `train/jobs.py` | `jobs/<id>/status.json`, `jobs/worker.lock`, the trainer process | `submit`, `cancel`, `ensure_worker`, `run_worker`, `_recover`, `run_job` | registry, gate, trainer | a worker that leaves while a job arrives, a worker that dies, writers of one file | one trainer; first come first served; interrupted jobs come back; every job ends |
| Submission, `train/__init__.py` | none of its own | `submit_training` | data, planner, registry, queue | dies between version and job; rows arrive while it reads | every version has a job; a refused submission leaves nothing behind |
| Gate, `train/gate.py` | two engines while it runs | `gate_version`, `serve_pair` | registry, engines, evaluation | the live version changes during the evaluation; another engine takes a port | a version that passes was compared with the live one, on its own engines |
| Local runtime, `local/runtime.py`, `local/engines.py` | `run/state.json`, service processes, `engine_runs` rows | `up`, `down`, `restart_engine`, `status`, `start`, `stop`, `launch` | registry, keys, engines | two commands at once, an `up` that fails half-way or is killed, a file that is rewritten in place | no service runs that `state.json` does not name; an engine serves the live version; its time is counted once |
| Gateway keys, `gateway/keys.py` | keys, usage, engine runs; the master key file | `create`, `revoke`, `record`, `spend_this_month`, `engine_started`, `engine_stopped`, `usage_report` | hooks, runtime, console | two first uses of the master key, a file read before it is written | there is one master key; a run is closed once |
| Gateway hooks, `gateway/litellm_hooks.py` | sliding windows in memory | `check`, `UsageLogger` | keys | a check that reads what is recorded later | no more than `rpm` requests in a minute; a budget is overrun only by calls under way |
| Evaluation, `eval_runner.py`, `stats.py`, `evaluators/` | reports | `run_eval`, `judge`, `build`, the scores and logs of evaluators | gate, data | a split, a slice or an evaluator without items | `pass` means every gating evaluator was judged and none got worse |
| Data, `data.py` | dataset snapshots | `load_source`, `assign_splits`, `snapshot`, `outputs_for` | submission, evaluation | equal prompts under different ids, a dataset that grows | no tested prompt is trained on; a digest names what was trained on |
| Configuration, `config.py`, `catalog.py` | none | `load`, the validators, `lint` | all | a rule that a much later step relies on | an accepted file lacks nothing that training and gating need |
| Planner, backends, `train/planner.py`, `train/backends.py` | none | `plan`, `detect_trainer`, `argv_for`, `post_train` | submission, worker | unknown memory, overrides, rounding | the run covers the data as often as it was asked to |
| Console, CLI, `console/`, `cli.py` | none; the file is loaded for every request | routes, handlers; commands | all | the file changes between requests | both grant and refuse the same things |

`PROJECT.json` lists every component with its status, and every hazard at its
line with the properties that cover it.

## Modules

| Module | Models | Built on |
|---|---|---|
| `VersionLifecycle.tla` | what the registry promises: atomic Create, SetStatus, Promote | |
| `Registry.tla` | `registry.py` at the level of SQL statements | refines `VersionLifecycle` |
| `RegistryProofs.tla` | proofs about `Registry` | `Registry` |
| `JobQueue.tla` | `train/jobs.py`, with `runtime.stop` as the queue uses it | |
| `JobQueueProofs.tla` | proofs about `JobQueue` | `JobQueue` |
| `TrainingPipeline.tla` | submission, queue, gate and promotion together | extends `JobQueue` |
| `TrainingPipelineProofs.tla` | proofs about `TrainingPipeline`, which implements `JobQueue` | `TrainingPipeline`, `JobQueueProofs` |
| `Serving.tla` | `local/runtime.py`, `gate.serve_pair`, the engine runs of `gateway/keys.py`, promote with its restart | |
| `ServingProofs.tla`, `EngineProofs.tla` | proofs about `Serving`: types, lost processes, open runs; what engines serve, cost and answer | `Serving` |
| `Gateway.tla` | `gateway/litellm_hooks.py`, the keys, usage and master key of `gateway/keys.py` | |
| `GatewayProofs.tla` | proofs about `Gateway` | `Gateway`, `NumberLemmas` |
| `Configuration.tla` | `config.py`: the rules of each section, `load`, `lint` | |
| `Datasets.tla` | `data.py`: sources, splits, snapshots | extends `Configuration` |
| `Evaluators.tla` | `evaluators/`: what can be built, scores, logs of benchmarks | |
| `Evaluation.tla` | `eval_runner.py`, `stats.py`: judgements and the decision | extends `Datasets`, `Evaluators` |
| `Planner.tla` | `train/planner.py`, `train/backends.py`, `local/engines.py` | extends `Configuration` |
| `Interfaces.tla` | `console/server.py` and `cli.py`: routes, status codes, exit codes | |
| `Workflow.tla` | submission, gate, promotion, keys and reads, with the file and the dataset changing | extends `Evaluation`, `Planner`, `Interfaces` |
| `WorkflowProofs.tla` | proofs about `Workflow` and the functions it calls | `Workflow`, `NumberLemmas` |
| `NumberLemmas.tla` | facts about numbers, finite sets and sums that the proofs share | |
| `MC*.tla` | small instances for TLC | |

`Configuration` to `Interfaces` have no state: they are the functions of the code,
and `Workflow` is the system that calls them. Lines marked "Mutant" define a
plausible mistake next to the definition it would replace; no specification uses
them.

### Registry

`rows` is the committed `versions` table reduced to the status column, `draft`
the table as the open transaction sees it, `writer` the connection that holds
SQLite's write lock. `pc[c]` and `op[c]` are the program counter and the
arguments of the call that client `c` is in. `promote` is split where another
process can run: the read and its checks (`CallPromote`), `BEGIN IMMEDIATE`
(`Begin`), the two UPDATEs (`Retire`, `SetLive`), `Commit`, and `Record` for
the event, which is written after the COMMIT. `create` is `CallCreate`,
`Begin`, `Insert`, `Commit`, `Record`; `update` is one autocommitted statement
and an event. `LockTimeout` is the `timeout=30` of `sqlite3.connect`, and
`Crash` kills a client anywhere and rolls its transaction back.

The refinement mapping to `VersionLifecycle` is `versions <- rows`: COMMIT and
the autocommitted UPDATE are the linearization points, every other step
stutters.

`registry.py:4` and `docs/architecture.md:97` say that every change writes an event.
The UPDATE that retires the version which was live (`registry.py:131`) writes none, on
any path: the models have it so, and `ChangesAreRecorded` takes the `promoted` event of
such a version for the one that tells of it. Of every other change the event can get
lost with the process, or in a lock timeout, between COMMIT and `Record`: the
property bounds these by the calls that failed. It does not ask for the order of the
events, which two clients can write in the other order than they committed.

### Queue

`state[j]` is the state in the job's `status.json`; `new` means no such job and
`filed` a job directory that has `job.json` only, the window in which `submit`
has taken `queued_at` and not yet written the status file. Jobs are numbered by
`queued_at`. A status file is replaced by a rename, so a write is one step.
`lock` is the holder of `worker.lock`, which `worker_running` takes too, for a
moment (`Probe`, `ProbeEnd`). `wpc[w]` walks through `run_worker`, `_recover`
and `run_job`; each step of it that another process can see is an action, each
`except` path a disjunct. `pid[j]` says whether the status file has a pid:
`run_job` raises when it does before the job is marked running (`MarkRaises`).
`trainers` is the set of trainer processes alive; `StoppedWith` is what
`runtime.stop` does to one, which is nothing, since `killpg` finds no group of
that id. `ahead` is a history variable for `InOrder`.

The listing of the job directory is one step. A registry call that raises inside
`run_job` outside the gate is left out: it fails the job as `LaunchFails` does
or ends the worker as `Crash` does.

### Pipeline

`TrainingPipeline` gives the three registry steps of the worker (`Evaluate`,
`Verdict`, `Settle`) their effect and adds submission and promotion. Registry
transactions are single steps, by `RegistryProofs!ImplementsLifecycle`; what no
transaction joins stays apart: version and job at submission, status file and
registry row, the incumbent read by the gate and its verdict, the check of
`promote` and its transaction. A version goes by the number of the job that
trains it. Promotions are unforced; the forced ones are in `Registry`. The read of the
incumbent and the update to `evaluating` (`gate.py:61` and `62`) are one step.

### Serving

`procs` is every service process ever started (a pid is an index), `stateFile` is
the list that `run/state.json` was last given and `file` what that file is now;
`openRuns` counts a model's rows of `engine_runs` that are not
stopped, and `live` is the registry's live version. Each command is a process
with its own list of services (`cmd[c].mine`), which it writes over the file: no
command holds a lock. `up` and a gate walk a plan of `pick` (port, live version,
command line) and `wait` steps; `Start`, `Truncate`, `Write`, `WaitReady`,
`CloseRuns`, `OpenRun` are the steps another command can see. `Fail` is anything raised in
`up` or `serve_pair`, and may come at every step, because Ctrl-C may. `Kill` is
the death of the command, `Exit` of a service, `Bind` the moment in which a server
takes its port or finds it taken. `past` and `overlaps` are history variables:
what has failed, and which kinds of commands ran at the same time; the properties
use them to say under which circumstances they promise something.

`write_state` opens the file, which empties it (`Truncate`), and then writes it
(`Write`), in place and without a rename. `file.open` holds the commands that are
between the two, and `file.text` says whether the text is one that can be parsed: it
is empty in between, and two writers can leave a mixture of a short text and the
rest of a longer one. `read_state` raises on either, so `Up`, `Down` and `ServePair`
do not start, and a promotion ends before its restart (`RestartFails`); nothing
repairs such a file. `Popen` and the append to the command's own list
(`runtime.py:287-290`) are one step (`Start`): an interrupt between the two is left out.

### Gateway

The hooks run in the gateway's event loop, so a check is not interrupted by
another, but keys are created and revoked by other processes: `Lookup` reads the
row and `Decide` uses it later. A request goes new, checking, admitted, recorded;
the cost is known at `Record` only. Time is a clock in seconds, a window is `Window`
long and a month `Month`. A revocation names a text, which is the name or the prefix of
several keys, of one, or of none (`Revoke`).

`master_key` is `Look`, `CreateFile` (O_EXCL), `WriteKey`, `ReadKey`; a process that
loses the race fails, or reads an empty file. One that is killed (`Interrupt`) may
leave the file empty for good, and any of them may be run again (`AskAgain`). `up`
takes whatever it read (`runtime.py:305`). With the empty text `gateway_config`
leaves the authentication out (`runtime.py:204`), so `StartGateway` starts a gateway
that is `"open"`: it lets every request through (`Unchecked`) and records its usage
without a key (`RecordUnchecked`), which counts for nobody. `KnownMaster` is the
`master_key` of the gateway's own process; it only reads, because the file exists
before any gateway does (part of `MasterIsKnown`).

### Configuration, data, evaluation

An optional section is a set of at most one record, shares and scores are in
hundredths, paths and references are the few values the rules tell apart. `Load`
folds the documents of a file into a configuration with its issues; `Lint` runs
when there were no errors. The hash of an input is a constant function from seed
and input to 0..99, so every distribution of the rows over the splits that the
instance lists is one that a hash could give. Observations are functions from the
positions of the log or the dataset they come from, so entries that are dropped
leave gaps and none is moved. `LowerBounds` stands for the
bootstrap: any of the values that a mean of resampled differences can have and the
judgement tells apart. `Results` is therefore a set, and `Gate` takes any of it.

### Workflow

`config` is what loading the file gives now: commands and console requests load it
each time, the worker once when it starts (`worker`). A submission reads the
dataset (`TrainBegins`) and hashes it a moment later (`TrainEnds`); rows may arrive
in between. `Gate` goes through the whole of `run_job` after the queue: the
trainer, the engines, the evaluation on the dataset as it is then, the verdict. Its
interleavings with the queue and the registry are those of `TrainingPipeline`.
`reply` is the answer of the request that was just handled, and nobody's next step
depends on it.

A reference to Python code names a file and a function; it may find both, the file
without the function (`unusable`), or no file. `lint` looks for the file only
(`config.py:615`), the evaluator needs the function (`base.py:107`), so such a file is
accepted and its gate raises; so it is with a `labels.match` that does not exist, which
only the evaluator reads. The console strips a key's name (`Strip`, `server.py:164`) and
the command line does not: `KeyNames` has a name of blanks, which one refuses and the
other grants. The incumbent is launched as the candidate is, and may be what fails
(`IncumbentProblem`).

Smaller simplifications here: a command evaluator or harness that fails does so as one
whose tool is missing (`RolloutProblem`); the scores of rows are kept by id, so that two
rows of one id are scored once (`Outcomes`); `ReadCode` answers 404 for an unknown job
before it looks at `lines`, where the code converts `lines` first and would answer 500.

## Runs

| Run | Shows | Bounds |
|---|---|---|
| `registry` | `TypeOK`, `AtMostOneLive`, `ChangesAreRecorded`; implements `VersionLifecycle` | 2 models, 2 clients, 4 calls, 1 failure |
| `queue` | `TypeOK`, `RunningIsCurrent`, `InOrder`, `AttemptsBounded`, `OneTrainerWhileNoneDies`, `EndedStaysEnded` | 3 jobs, 2 submitters, 2 workers, 1 crash, cancellation |
| `pipeline` | `PipelineTypeOK`, `JobAndVersionAgree`, `TrainingMeansQueuedOrRunning`, `IncumbentWasLive`, `LiveWasGated`, `FollowsLifecycle`; liveness `WorkerDrainsQueue`, `VersionsAreDecided` | 2 jobs, 2 submitters, 2 workers, 1 promoter, 1 crash, cancellation |
| `serving` | `ServingTypeOK`, `LostProcesses`, `UpMeansReady`, `EngineServesLive`, `OneOpenRun`, `RunsMatchServices`, `GateMeasuresItsOwn` | one engine and a gateway, 3 commands, 2 at a time, 1 of: overlap, kill, service exit |
| `gateway` | `GatewayTypeOK`, `RateLimit`, `RefusedOnlyWhenFull`, `BudgetOvershoot`, `OneMasterKey`, `MasterIsKnown` | 1 key, 3 requests, 4 instants over two months, 2 processes that ask for the master key, are killed and ask again, 1 restart |
| `workflow` | `WorkflowTypeOK`, `TrainedNeverTested`, `HashNamesTraining`, `AcceptedLacksNothing`, `PassNeedsEveryEvaluator`, `PlanCoversTheData`, `SameAnswers` | about 60 files and machines, 3 rows, 2 versions, 1 edit |
| `registry_revival` | a violation of `RetiredStaysRetired` | 1 model, 2 clients, 3 calls |
| `queue_orphan` | a violation of `OneTrainer` | 2 jobs, 1 crash |
| `queue_resume` | a violation of `InterruptedJobResumes` | 2 jobs, 1 crash |
| `queue_stranded` | a violation of `EveryJobRuns`, under fairness | 2 jobs, no crash |
| `pipeline_incumbent` | a violation of `PromotedBeatTheLiveOne` | 2 jobs, no crash |
| `pipeline_demoted` | a violation of `LiveOnlyReplaced` | 2 jobs, 1 crash |

Why the bounds are enough. In the registry all interference goes through one
lock, so two clients show every overlap of two calls, and four calls take a
model through create, two verdicts and a promotion while another client is half
way; two models show that one does not touch the other. In the queue the third
job is the one that starts a worker after the crash, and two workers are an old
one that leaves and a new one that starts. In the pipeline the second version is
the first that can have another version for incumbent. In `serving` three commands
are an `up`, one that disturbs it and one that finds what was left; the plan of
`up` does the same for every engine, so one is enough to be lost, overwritten or
left behind, and a gate brings two more. `MaxTrouble` bounds overlaps, kills and
exits together; it is 1 to keep the run short, and the theorems have no such bound. In `gateway` three requests are two
that fill a window and one that finds it full or passes, and the four instants
include both ends of a window and of a month. In `workflow` every rule of the file
is broken by one file and obeyed by the others, each machine and each kind of
evaluator appears, the second version is the first that can share a digest with
another or be tested on what another was trained on, and the third row is the one
that arrives late; files differ from a good one in one place, so two mistakes at
once are not explored. What the bounds leave open is proved for all values: every
invariant and action property of the runs that pass has a theorem (below).

Deadlock is checked where somebody can always move: in `gateway`, where keys can be
revoked, and processes ask again, at any time. The other instances stop when their
jobs, calls, commands or edits are used up, and the real system idles then too.

`Serving`, `Gateway` and `Workflow` state safety only and assume no fairness: a
command may stop at any step, and most of their hazards are that it does.

Fairness. `FairSpec` and `PipelineFairSpec` assume that a submitter that has
begun goes on, that a worker process keeps running, and that a trainer ends (its
number of iterations is fixed by the plan). They do not assume that anybody
submits, cancels, promotes or dies. `queue_stranded` is a violation under this
fairness: the job waits although everybody who may move does.
`WorkerDrainsQueue` and `VersionsAreDecided` count from the moment the last
crash is over, as `crashes = MaxCrashes` says, and only speak of a worker that
has the queue; that such a worker exists is what `EveryJobRuns` asks and the code
does not give.

### What the violations say

- `registry_revival`: `promote` checks the status at `registry.py:121-124`,
  outside its transaction (`129-134`). Two promotions between the check and the
  transaction make the version live and retire it; the third then puts a retired
  version back, unforced.
- `queue_orphan`: the trainer is started without a session of its own
  (`jobs.py:165`), so `runtime.stop` cannot signal it, and between `Popen` and the
  write of the pid nobody knows of it at all. After a worker dies two trainers run.
- `queue_resume`: `jobs.py:167` passes `pid=` next to `**_keep(...)`, which holds a
  pid as well once the job has run. A re-queued job therefore always fails, with
  its new trainer running on.
- `queue_stranded`: between `jobs.py:138` (queue empty) and `142` (lock released) a
  submitter finds the lock taken and starts no worker.
- `pipeline_incumbent`: `promote` does not compare the live version with the one
  the gate ran against.
- `pipeline_demoted`: a job that is run again after its version went live takes
  the live status away.

Two further disagreements are visible in the models and have no run: a job that
is cancelled while queued leaves its version in `training` (the property
`TrainingMeansQueuedOrRunning` has to leave cancelled jobs out), and the worker
writes over `CANCELLED` (`Write` in `JobQueue`). Nothing calls `cancel` yet.

What the new models show beyond their properties, and what these therefore have
to leave out: two `up`s at once start two sets of services and the later writer
hides the other's; an `up` that fails leaves the engine runs it opened open
(`runtime.py:349-353`); two promotions at once can leave the engine at the earlier
version; a killed command loses the one process it had not written down, and all of
them if it dies between emptying `state.json` and writing it (`runtime.py:74`); an `up`
that reads the master key before it is written, or after its writer was killed, starts a
gateway without authentication; a revoked key still passes if its row was read before;
calls are admitted as long as those under way have not been recorded, whatever they
will cost; a file with a `serve.command` without `{adapter}`, with a reference to a
function that its file does not have, or with an unknown `labels.match` is accepted and
fails at the gate; a name of blanks is a key's name for the command line and none for
the console; the command line's `promote` ends with code 1 when the engine's restart
fails, although the promotion stands; it takes the newest version that passed when
none is named, so the same command given twice may promote two versions, and the
console wants a number; a changed seed makes the gate test what the version was trained on;
`ookami eval` on results without outputs for a row evaluator does not count that
evaluator. Properties over these would fail or would only repeat the code; they are
listed under `hazards` in `PROJECT.json` with what covers the rest of each.

## Proofs

TLC checks the properties on the instances above; the theorems state them for every
value of the constants: any number of clients, models, jobs, workers, services,
keys, requests, files, rows and deaths. They rest on these assumptions, which TLC
evaluates for each instance:

- `RegistryAssumption`, `JobQueueAssumption`: the bounds are numbers, the kinds of
  processes are disjoint. `GatewayAssumption`: limits and costs are natural numbers,
  a window and a month have a length.
- `ServingAssumption`: no two services share a name, `up` has something to start, and
  the processes of a gate have no configured port (`gate.serve_pair` always searches
  one).
- `WorkflowAssumption`: files and datasets are sequences; what pydantic sees to (a
  Model has at most one `eval` section, numbers are numbers) and what a reference to
  Python code can come to (a function, a file without it, no file, not given); scores are
  numbers.

Three theorems have a condition of their own, because the code has it too:

- `LifecycleIsFollowed` asks for one promoter (`OnePromoter`). With two, a retired
  version can be put back, which the run `registry_revival` shows.
- `WhatIsUpIsReady` asks that the configuration gives no port twice and none in the
  range that `pick_port` searches (`PortsApart`). `config.py` checks neither. Without
  it `up` may find the health check of a port answered by another service and record
  one that has exited.
- `PlansCoverTheData` asks that the sizes in `train.overrides` are positive
  (`OverridesArePositive`). `config.py:247` takes any value; a batch size of 0 makes
  `planner.py` divide by zero, which the model leaves out.

**Registry.** `IInv` in `RegistryProofs` is the inductive invariant. Type
correctness alone is not inductive (`Insert` needs a free number, `SetLive` a
version that exists) and neither is `AtMostOneLive` (it says nothing about what
is in an open transaction). `IInv` adds: only the holder of the write lock is
inside a transaction (`LockHeld`); versions are numbered 1..k without a gap
(`Dense`); a call that needs a version has one (`CallOK`); and at each step of a
transaction the draft is exactly the committed table with the transaction's
statements so far applied (`DraftOK`). From it:

- `TypeCorrect`: `Spec => []TypeOK`.
- `ImplementsLifecycle`: `Spec => OperationsAreAtomic`. COMMIT is one Create or one
  Promote, the UPDATE one SetStatus, everything else stutters.
- `OneLiveVersion`: `Spec => []AtMostOneLive`, from `ImplementsLifecycle`'s step
  lemma: no abstract operation makes a second version live.
- `EveryChangeIsRecorded`: `Spec => []ChangesAreRecorded`. A version is `Untold` if
  neither an event nor a call between COMMIT and its event tells its status (a retired
  one is told by its `promoted` event). There are never more of them than calls that
  failed. A step that is no failure leaves nobody untold who was told
  (`ToldStaysTold`): a status that a COMMIT gives is that of a call which goes on to
  `Record` with it (`StatusGiven`), and a retired version was told as promoted. A crash
  or timeout can leave one version untold, that of its own call.

**Queue.** `IInv` in `JobQueueProofs` is the inductive invariant. None of the checked
properties is inductive: each rests on who may touch a job when. `Owned` is the
mutual exclusion of the lock file: a worker past its start holds it, a prober too.
So for each step of a worker lemma `Owner` gives a queue with no other worker in
it. `FilingOK`, `CurrentOK` and `StaleOK` say what the others (submitters, cancel)
can still do to a job that is being filed, that the worker holds, or that recovery
found. `AttemptsOK` counts the attempts a job has left, `AheadOK` orders the queue
by `queued_at`, and `TrainersOK` says that while no worker has died the only
trainer is the one its worker waits for. TLC checks `IInv` on the bounds of
`MCJobQueue.cfg`. From it, with one lemma per action:

- `TypeCorrect`, `OneJobRuns` (`RunningIsCurrent`), `FirstComeFirstServed`
  (`InOrder`), `FewAttempts` (`AttemptsBounded`), `OneTrainerAtATime`
  (`OneTrainerWhileNoneDies`);
- `EndedJobsStayEnded` (`EndedStaysEnded`), an action property: for each action that
  writes a status file, the part of `IInv` that says which state it writes over.

The proofs need the workers' steps as they are: that recovery reads the queue
with the lock held, that a prober holds the lock only while no worker does, that
the worker waits for its trainer. They need no bound on the deaths of workers but
the one that names it.

**Pipeline.** `PipelineImplementsQueue`: `PipelineSpec => Spec` of `JobQueue`, with the
versions and promoters hidden. Each step of the pipeline is a step of the queue or
leaves it alone, so the theorems above hold of it and `IInv` is available. What is
added relates the two stores (`PipelineInv`): while no worker has died, the place of a
worker in `run_job` tells the status of the version it holds (`HeldOK`), and the
status file of a job that nobody holds tells that of its version (`RestOK`). From these
follow `StoresAgree`, `TrainingIsUnderWay`, `GatesFaceLiveVersions` and
`LifecycleIsFollowed`. `NothingLiveUngated` needs no such condition: whatever workers
die, a version has the report of a gate from the verdict on (`GatedOK`), and a promotion
that is still to come keeps it.

**Serving.** `ServingInvariant` is inductive and gives types, lost processes and open
runs: where a command is in its plan and that its list holds exactly what it has
started by then (`CommandOK`), which commands ran beside each other (`OverlapsOK`),
and, for a command that no other one disturbs, how its list and the list last written
differ (`TrackedOK`: by one service at most). The count of lost processes needs two
things, because a file that cannot be read names nobody. `Gone` are the processes that
neither the list last written nor a command names, whether or not the file can be
read now; `FewGone` counts one for each killed command and a pair for each killed
gate. `FileOK` says that an unreadable file is being renewed by a command under way or
that one was killed, from `OpenOK`: a command that nobody disturbs still has the file
open, and it is empty. `FewLost` puts them together: where the file can be read, or a
command with the whole list is about to write it, what is lost is gone; else a kill
lost at most all services besides. This is `NothingElseIsLost`. `RunsAreOpenedOnce` needs the middle of `engine_started` (`RunsOK`). On top of
it, `EngineProofs` has one invariant per question, each under the condition that its
property names: `ServesOK` (every engine a list names serves the live version or is
about to be replaced) for `EnginesServeTheLiveVersion`; `CountOK` (which runs `up` and
`down` have opened and closed at their place) for `RunsAreCounted`; `GateHolds` (the
ports of a gate, of the file and of the one about to be taken are apart) for
`GatesMeasureTheirOwn`; `ReadyOK` (one process per port, and who has waited for whom)
for `WhatIsUpIsReady`. When nothing is under way and no command was killed the file
can be read (`ReadableAtRest`).

**Gateway.** `IInv` in `GatewayProofs`. `MasterOK`: one client created the key file, it
alone writes it, whoever has read a key has the file's, so a gateway that was started
with a text that is not empty has the one in the file, and one that runs at all finds
the file there; from it `MasterKeyIsOne` and `GatewayKnowsMaster`. None of this keeps a
gateway from being open: that is a state of the model too. `WindowsOK`: the times in a window are
sorted and there is a matching between them and the admitted requests of the last
`Window` seconds, from which `RateIsLimited` (by counting) and `RefusalsAreJust`.
`AdmittedOK`: an admitted request saw a prefix of the usage table whose spend was
below the budget; the table only grows, so `OvershootIsBounded`. Spend is a fold over
the table; that it grows with the table is shown with `SetInduction`.

**Workflow.** Nearly every property here is about a version long after the step that
decided it, so the proofs start with `EachVersion`: a step creates a version from the
submission under way, or gates it with the worker's configuration, or changes its
status only. With it:

- `ConsoleAnswersAlike`: each request's answer by console and command line, case by case,
  for a key with the name that the console keeps.
- `HashNames`: a version that is not torn has the snapshot that its digest determines
  (`SnapshotsAreWhole`), whatever the hash function.
- `NeverTrainedOnATest`: where an id names one input, the split of an example is where
  its own input falls (`SplitOfExample`), in every earlier and later dataset, since ids
  that are unique now were so before (`UniqueBefore`). Then what was trained on falls
  in `train`, and what is tested does not.
- `PlansCoverTheData`: the arithmetic of the rounded-up iterations, for each way of
  setting the sizes.
- `AcceptedFilesLackNothing`: `Load` leaves only Models that passed their validators, by
  induction over the documents (`AllValidated`); with lint this gives `Runnable`, all
  that a submission and a gate ask a Model for; then each cause of failure is looked
  up. A version fails of something the file could have told only if the worker loaded
  another file, or one with errors (`NothingMissing`). What is there and unusable
  (a reference without its function, a match that does not exist, a command without
  `{adapter}`) stays possible, as in the code.
- `PassesMean`: a judgement that can say passed has enough items, and its lower bound
  is no higher than the best difference (`JudgeShows`); every gating evaluator has a
  judgement of all its items (`EvaluatorIsJudged`): a benchmark always, a row evaluator
  because its evaluation raises when no row is held out and a served model answers
  every row. That scores are integers, through the parsers of the logs, the means of
  trials and the differences, takes most of the lemmas.
- `WorkflowTypes`.

Induction over data. The library's induction theorems take an operator as a
parameter, which the installed provers cannot instantiate. Where an induction was
needed (the documents of a file, the spend of a key, the sum behind a mean), it is done
by `NumberLemmas!SetInduction`: the set of numbers for which a statement holds contains
0 and the successor of each of its members, so it contains all.

Only model-checked: liveness (`WorkerDrainsQueue`, `VersionsAreDecided`), which is
outside the prover's reach, like ENABLED.

## Not modelled, and the plan

Worth proving next: that no step of `Serving` other than `kill` and a failed `up` adds to
what is lost (an action property, stronger than the count of `LostProcesses`); that a
bootstrap bound can be replaced by any other one between the same two differences
without a version passing that `judge` would not pass; that the queue of `Workflow` is
the one of `JobQueue` with one worker and no deaths (a refinement between the two
models of the same code).

Not modelled:

- `usage_report` and `engine_cost`: they only read, and their matter is real
  arithmetic over periods.
- The temporary name that all writers of a status file share, and the files of a
  snapshot that two submissions with one digest write: a file is one value here.
- What the commands `logs`, `jobs`, `models`, `schema` and `keys list` print; the
  contents of the gateway's configuration and of environments; the command lines
  of engines, trainers and harnesses, of which only the errors in making them matter.
- Components of a platform that is not local: the code refuses them
  (`remote storage`, `backend`), and the model has the refusals.
- Retries and time limits of HTTP calls to targets, webhooks and harnesses.
- The bootstrap's arithmetic and random numbers, JSON schemas, the syntax of files,
  names, periods and URLs.
- The browser page, HTTP, argument parsing, the TRL script, the template of `init`.
