------------------------------ MODULE JobQueue ------------------------------
(***************************************************************************)
(* The local training queue (src/ookami/train/jobs.py): a directory of     *)
(* status files and one lock file.  `ookami train` and the console submit  *)
(* jobs and make sure a worker process runs; the worker that gets the lock *)
(* re-queues what a dead worker left running, then runs the queued jobs    *)
(* one at a time, each through its trainer, its packaging and its gate.    *)
(*                                                                         *)
(* A status file is replaced by a rename, so a write is one step; what one *)
(* process reads and what it writes later are two steps.  The registry     *)
(* calls of run_job and of the gate are steps here without an effect:      *)
(* TrainingPipeline.tla gives them theirs.                                 *)
(***************************************************************************)
EXTENDS Naturals, FiniteSets, FiniteSetsExt

CONSTANTS NumJobs,      \* bound: jobs submitted in one behaviour
          Submitters,   \* CLI processes and console threads that submit jobs
          Workers,      \* worker processes (a slot is reused when one has exited)
          Nobody,       \* nobody holds the lock
          CanCancel,    \* whether somebody calls JobRunner.cancel
          MaxCrashes    \* bound: worker processes that die in one behaviour

ASSUME JobQueueAssumption ==
  /\ NumJobs \in Nat /\ MaxCrashes \in Nat
  /\ CanCancel \in BOOLEAN
  /\ Nobody \notin Submitters \cup Workers
  /\ Submitters \cap Workers = {}

VARIABLES state,      \* state[j]: the state in j's status.json ("new": no job, "filed":
                      \* a directory with job.json only)
          lock,       \* who holds jobs/worker.lock
          spc,        \* spc[s]: what submitter s does next
          filing,     \* filing[s]: the job s submits, 0 for none
          wpc,        \* wpc[w]: what worker w does next
          cur,        \* cur[w]: the job w runs, 0 for none
          stale,      \* stale[w]: running jobs that w found and has yet to re-queue
          pid,        \* pid[j]: whether status.json has a "pid" of a trainer
          attempt,    \* attempt[j]: trainers started for j so far
          trainers,   \* trainer processes alive: <<job, attempt>>
          crashes,    \* workers that have died
          ahead       \* history: the jobs that were in the queue, or past it, when
                      \* j took its queued_at

queueVars == <<state, lock, spc, filing, wpc, cur, stale, pid, attempt, trainers,
              crashes, ahead>>

\* Jobs are numbered in the order of their queued_at times.
Job        == 1..NumJobs
JobState   == {"new", "filed", "queued", "running", "succeeded", "failed", "cancelled"}
Terminal   == {"succeeded", "failed", "cancelled"}
Submitting == {"idle", "write", "probe", "probing", "spawn"}
RunJob     == {"launch", "mark", "wait", "package", "gate", "evaluate", "verdict",
               "finish", "fail", "settle"}
Working    == {"off", "start", "scan", "recover", "list", "close"} \cup RunJob

JobsIn(s) == {j \in Job : state[j] = s}
Child(w)  == <<cur[w], attempt[cur[w]]>>   \* the trainer that w waits for

Init ==
  /\ state = [j \in Job |-> "new"]
  /\ lock = Nobody
  /\ spc = [s \in Submitters |-> "idle"]
  /\ filing = [s \in Submitters |-> 0]
  /\ wpc = [w \in Workers |-> "off"]
  /\ cur = [w \in Workers |-> 0]
  /\ stale = [w \in Workers |-> {}]
  /\ pid = [j \in Job |-> FALSE]
  /\ attempt = [j \in Job |-> 0]
  /\ trainers = {}
  /\ crashes = 0
  /\ ahead = [j \in Job |-> {}]

-----------------------------------------------------------------------------
(* Submitters                                                              *)

\* submit makes the job's directory, writes job.json and takes queued_at ...
Submit(s, j) ==
  /\ spc[s] = "idle"
  /\ \A i \in Job : state[i] = "new" <=> i >= j
  /\ state' = [state EXCEPT ![j] = "filed"]
  /\ ahead' = [ahead EXCEPT ![j] = {i \in Job : state[i] \notin {"new", "filed"}}]
  /\ filing' = [filing EXCEPT ![s] = j]
  /\ spc' = [spc EXCEPT ![s] = "write"]
  /\ UNCHANGED <<lock, wpc, cur, stale, pid, attempt, trainers, crashes>>

\* ... writes status.json, and then asks for a worker.
WriteQueued(s) ==
  /\ spc[s] = "write"
  /\ state' = [state EXCEPT ![filing[s]] = "queued"]
  /\ filing' = [filing EXCEPT ![s] = 0]
  /\ spc' = [spc EXCEPT ![s] = "probe"]
  /\ UNCHANGED <<lock, wpc, cur, stale, pid, attempt, trainers, crashes, ahead>>

\* worker_running takes the lock itself to find out whether a worker has it.
Probe(s) ==
  /\ spc[s] = "probe"
  /\ IF lock = Nobody
     THEN lock' = s /\ spc' = [spc EXCEPT ![s] = "probing"]
     ELSE UNCHANGED lock /\ spc' = [spc EXCEPT ![s] = "idle"]
  /\ UNCHANGED <<state, filing, wpc, cur, stale, pid, attempt, trainers, crashes, ahead>>

ProbeEnd(s) ==
  /\ spc[s] = "probing"
  /\ lock' = Nobody
  /\ spc' = [spc EXCEPT ![s] = "spawn"]
  /\ UNCHANGED <<state, filing, wpc, cur, stale, pid, attempt, trainers, crashes, ahead>>

Spawn(s, w) ==
  /\ spc[s] = "spawn"
  /\ wpc[w] = "off"
  /\ wpc' = [wpc EXCEPT ![w] = "start"]
  /\ spc' = [spc EXCEPT ![s] = "idle"]
  /\ UNCHANGED <<state, lock, filing, cur, stale, pid, attempt, trainers, crashes, ahead>>

-----------------------------------------------------------------------------
(* The worker: the lock, recovery and the loop.  An operator whose comment *)
(* starts with "Mutant" is no part of the model: it is a bug that some     *)
(* property must catch.                                                    *)

Goto(w, step) == wpc' = [wpc EXCEPT ![w] = step]

\* Mutant: the early return for a lock that another worker has is forgotten.
WorkWithoutLock(w) ==
  /\ wpc[w] = "start"
  /\ lock' = IF lock = Nobody THEN w ELSE lock
  /\ Goto(w, "scan")
  /\ UNCHANGED <<state, spc, filing, cur, stale, pid, attempt, trainers, crashes, ahead>>

\* A worker that does not get the lock exits: another one owns the queue.
TakeLock(w) ==
  /\ wpc[w] = "start"
  /\ IF lock = Nobody THEN lock' = w /\ Goto(w, "scan")
                      ELSE UNCHANGED lock /\ Goto(w, "off")
  /\ UNCHANGED <<state, spc, filing, cur, stale, pid, attempt, trainers, crashes, ahead>>

\* Mutant: a failed job counts as interrupted too.
NotSucceeded == JobsIn("running") \cup JobsIn("failed")

\* A job still marked running has no worker: the reader holds the lock.
Interrupted == JobsIn("running")

Scan(w) ==
  /\ wpc[w] = "scan"
  /\ stale' = [stale EXCEPT ![w] = Interrupted]
  /\ Goto(w, "recover")
  /\ UNCHANGED <<state, lock, spc, filing, cur, pid, attempt, trainers, crashes, ahead>>

\* runtime.stop signals the process group whose id is the trainer's pid.  The
\* trainer is started without a group of its own, so there is no such group,
\* and stop returns without a signal: it kills no trainer.
StoppedWith(j) == {}

Requeue(w) ==
  LET j == Min(stale[w])
  IN  /\ wpc[w] = "recover"
      /\ stale[w] # {}
      /\ state' = [state EXCEPT ![j] = "queued"]
      /\ stale' = [stale EXCEPT ![w] = @ \ {j}]
      /\ trainers' = trainers \ StoppedWith(j)
      /\ UNCHANGED <<lock, spc, filing, wpc, cur, pid, attempt, crashes, ahead>>

\* Mutant: recovery leaves the running jobs as they are.
SkipRecovery(w) == TRUE

Recovered(w) == stale[w] = {}

RecoverEnd(w) ==
  /\ wpc[w] = "recover"
  /\ Recovered(w)
  /\ stale' = [stale EXCEPT ![w] = {}]
  /\ Goto(w, "list")
  /\ UNCHANGED <<state, lock, spc, filing, cur, pid, attempt, trainers, crashes, ahead>>

\* Mutant: the newest job first.
NewestOf(jobs) == Max(jobs)

\* runner.list() sorts by queued_at; the worker takes the first.
OldestOf(jobs) == Min(jobs)

\* Mutant: the worker may leave after any job.
EnoughForNow == TRUE

NoneQueued == JobsIn("queued") = {}

Pick(w) ==
  /\ wpc[w] = "list"
  /\ JobsIn("queued") # {}
  /\ cur' = [cur EXCEPT ![w] = OldestOf(JobsIn("queued"))]
  /\ Goto(w, "launch")
  /\ UNCHANGED <<state, lock, spc, filing, stale, pid, attempt, trainers, crashes, ahead>>

\* The queue is empty: return, and close the lock file in the finally block.
Drained(w) ==
  /\ wpc[w] = "list"
  /\ NoneQueued
  /\ Goto(w, "close")
  /\ UNCHANGED <<state, lock, spc, filing, cur, stale, pid, attempt, trainers, crashes, ahead>>

Close(w) ==
  /\ wpc[w] = "close"
  /\ lock' = Nobody
  /\ Goto(w, "off")
  /\ UNCHANGED <<state, spc, filing, cur, stale, pid, attempt, trainers, crashes, ahead>>

-----------------------------------------------------------------------------
(* The worker: run_job                                                     *)

NewTrainer(w) == <<cur[w], attempt[cur[w]] + 1>>

\* The trainer process starts; building its command line or starting it can raise.
Launch(w) ==
  /\ wpc[w] = "launch"
  /\ trainers' = trainers \cup {NewTrainer(w)}
  /\ attempt' = [attempt EXCEPT ![cur[w]] = @ + 1]
  /\ Goto(w, "mark")
  /\ UNCHANGED <<state, lock, spc, filing, cur, stale, pid, crashes, ahead>>

LaunchFails(w) ==
  /\ wpc[w] = "launch"
  /\ Goto(w, "fail")
  /\ UNCHANGED <<state, lock, spc, filing, cur, stale, pid, attempt, trainers, crashes, ahead>>

\* run_job writes its states over whatever the file says by then.
Write(w, s) == state' = [state EXCEPT ![cur[w]] = s]

\* The call that marks the job running passes the new pid next to the fields that
\* _keep takes over from status.json.  If these hold a pid of an earlier attempt,
\* the argument is there twice: the call raises, with the trainer at work.
Mark(w) ==
  /\ wpc[w] = "mark"
  /\ ~pid[cur[w]]
  /\ Write(w, "running")
  /\ pid' = [pid EXCEPT ![cur[w]] = TRUE]
  /\ Goto(w, "wait")
  /\ UNCHANGED <<lock, spc, filing, cur, stale, attempt, trainers, crashes, ahead>>

MarkRaises(w) ==
  /\ wpc[w] = "mark"
  /\ pid[cur[w]]
  /\ Goto(w, "fail")
  /\ UNCHANGED <<state, lock, spc, filing, cur, stale, pid, attempt, trainers, crashes, ahead>>

TrainerExit(t) ==
  /\ t \in trainers
  /\ trainers' = trainers \ {t}
  /\ UNCHANGED <<state, lock, spc, filing, wpc, cur, stale, pid, attempt, crashes, ahead>>

\* Mutant: the worker does not wait for its trainer.
DoNotWait(w) == TRUE

TrainerGone(w) == Child(w) \notin trainers

\* proc.wait() has returned.  A cancelled job only has its version failed; a
\* trainer that failed or wrote no adapter fails the job; else packaging follows.
Collect(w) ==
  /\ wpc[w] = "wait"
  /\ TrainerGone(w)
  /\ IF state[cur[w]] = "cancelled" THEN Goto(w, "settle")
                                    ELSE Goto(w, "package") \/ Goto(w, "fail")
  /\ UNCHANGED <<state, lock, spc, filing, cur, stale, pid, attempt, trainers, crashes, ahead>>

\* The rest of run_job, or an exception on the way, which fails the job.
Package(w) ==
  /\ wpc[w] = "package"
  /\ Write(w, "running")
  /\ Goto(w, "gate") \/ Goto(w, "fail")
  /\ UNCHANGED <<lock, spc, filing, cur, stale, pid, attempt, trainers, crashes, ahead>>

Gate(w) ==
  /\ wpc[w] = "gate"
  /\ Write(w, "running")
  /\ Goto(w, "evaluate")
  /\ UNCHANGED <<lock, spc, filing, cur, stale, pid, attempt, trainers, crashes, ahead>>

\* gate_version reads the live version and sets this one to evaluating ...
Evaluate(w) ==
  /\ wpc[w] = "evaluate"
  /\ Goto(w, "verdict")
  /\ UNCHANGED <<state, lock, spc, filing, cur, stale, pid, attempt, trainers, crashes, ahead>>

\* ... and records what the evaluation says, if it runs to its end.
Verdict(w) ==
  /\ wpc[w] = "verdict"
  /\ Goto(w, "finish") \/ Goto(w, "fail")
  /\ UNCHANGED <<state, lock, spc, filing, cur, stale, pid, attempt, trainers, crashes, ahead>>

Leave(w) == Goto(w, "list") /\ cur' = [cur EXCEPT ![w] = 0]

Finish(w) ==
  /\ wpc[w] = "finish"
  /\ Write(w, "succeeded")
  /\ Leave(w)
  /\ UNCHANGED <<lock, spc, filing, stale, pid, attempt, trainers, crashes, ahead>>

WriteFailed(w) ==
  /\ wpc[w] = "fail"
  /\ Write(w, "failed")
  /\ Goto(w, "settle")
  /\ UNCHANGED <<lock, spc, filing, cur, stale, pid, attempt, trainers, crashes, ahead>>

\* The version of a failed or cancelled job is set to failed.
Settle(w) ==
  /\ wpc[w] = "settle"
  /\ Leave(w)
  /\ UNCHANGED <<state, lock, spc, filing, stale, pid, attempt, trainers, crashes, ahead>>

-----------------------------------------------------------------------------
(* Cancellation and crashes                                                *)

\* cancel stops the trainer the way recovery does -- not at all -- and writes
\* CANCELLED whatever the state is.
Cancel(j) ==
  /\ CanCancel
  /\ state[j] \notin {"new", "filed"}
  /\ state' = [state EXCEPT ![j] = "cancelled"]
  /\ trainers' = trainers \ StoppedWith(j)
  /\ UNCHANGED <<lock, spc, filing, wpc, cur, stale, pid, attempt, crashes, ahead>>

\* A worker is killed.  The system closes its lock file; its trainer lives on.
Crash(w) ==
  /\ wpc[w] # "off"
  /\ crashes < MaxCrashes
  /\ crashes' = crashes + 1
  /\ lock' = IF lock = w THEN Nobody ELSE lock
  /\ Goto(w, "off")
  /\ cur' = [cur EXCEPT ![w] = 0]
  /\ stale' = [stale EXCEPT ![w] = {}]
  /\ UNCHANGED <<state, spc, filing, pid, attempt, trainers, ahead>>

-----------------------------------------------------------------------------

SubmitterStep(s) ==
  WriteQueued(s) \/ Probe(s) \/ ProbeEnd(s) \/ \E w \in Workers : Spawn(s, w)

QueueStep(w) ==
  \/ TakeLock(w) \/ Scan(w) \/ Requeue(w) \/ RecoverEnd(w)
  \/ Pick(w) \/ Drained(w) \/ Close(w)
  \/ Launch(w) \/ LaunchFails(w) \/ Mark(w) \/ MarkRaises(w)
  \/ Collect(w) \/ Package(w) \/ Gate(w)
  \/ Finish(w) \/ WriteFailed(w)

\* The steps of run_job that are registry calls.
RegistryStep(w) == Evaluate(w) \/ Verdict(w) \/ Settle(w)

WorkerStep(w) == QueueStep(w) \/ RegistryStep(w)

Next ==
  \/ \E s \in Submitters, j \in Job : Submit(s, j)
  \/ \E s \in Submitters : SubmitterStep(s)
  \/ \E w \in Workers : WorkerStep(w) \/ Crash(w)
  \/ \E t \in trainers : TrainerExit(t)
  \/ \E j \in Job : Cancel(j)

Spec == Init /\ [][Next]_queueVars

\* Submitters and workers keep running and every trainer ends: its number of
\* iterations is fixed by the plan.  Nobody has to submit, cancel or crash.
Trainer  == Job \X (1..(MaxCrashes + 1))
Fairness == /\ \A s \in Submitters : WF_queueVars(SubmitterStep(s))
            /\ \A w \in Workers : WF_queueVars(WorkerStep(w))
            /\ \A t \in Trainer : WF_queueVars(TrainerExit(t))

FairSpec == Spec /\ Fairness

-----------------------------------------------------------------------------
(* Properties                                                              *)

Types ==
  /\ state \in [Job -> JobState]
  /\ lock \in Submitters \cup Workers \cup {Nobody}
  /\ spc \in [Submitters -> Submitting]
  /\ filing \in [Submitters -> Job \cup {0}]
  /\ wpc \in [Workers -> Working]
  /\ cur \in [Workers -> Job \cup {0}]
  /\ stale \in [Workers -> SUBSET Job]
  /\ pid \in [Job -> BOOLEAN]
  /\ attempt \in [Job -> Nat]
  /\ trainers \subseteq Job \X (Nat \ {0})
  /\ crashes \in 0..MaxCrashes
  /\ ahead \in [Job -> SUBSET Job]

\* The lock is held by the one worker past its start, or by the one prober.
Owned ==
  /\ \A w \in Workers : wpc[w] \notin {"off", "start"} <=> lock = w
  /\ \A s \in Submitters : spc[s] = "probing" <=> lock = s

\* The type invariant: the values of the variables, and the lock file with the process
\* that acts as its holder.
TypeOK == Types /\ Owned

\* While a worker is past its recovery, the only job marked running is the one
\* it runs: what a dead worker left behind is never taken for work in progress.
RunningIsCurrent ==
  \A w \in Workers :
    wpc[w] \in {"list", "close"} \cup RunJob => JobsIn("running") \subseteq {cur[w]}

\* One job at a time: there is never a second trainer next to the first.
OneTrainer == Cardinality(trainers) <= 1

\* As long as no worker has died, whatever is cancelled and whoever is started.
OneTrainerWhileNoneDies == crashes = 0 => OneTrainer

\* First come, first served, re-queued jobs included: a worker that is about to
\* start a job leaves none waiting that was in the queue before that job came.
InOrder ==
  \A w \in Workers : wpc[w] = "launch" => ahead[cur[w]] \cap JobsIn("queued") = {}

\* A job is trained once, and once more for every worker that died.
AttemptsBounded == \A j \in Job : attempt[j] <= crashes + 1

\* A job that has succeeded or failed stays so, unless somebody cancels it after
\* the fact: neither recovery nor a second worker runs it again.
EndedStaysEnded ==
  [][\A j \in Job : state[j] \in {"succeeded", "failed"} =>
       state'[j] \in {state[j], "cancelled"}]_state

\* Once workers have stopped dying, a worker that has the queue brings every job
\* in it to its end, the ones that a dead worker left running included.
Draining(w) == wpc[w] \in {"scan", "recover", "list"} \cup RunJob
WorkerDrainsQueue ==
  \A j \in Job :
    (/\ crashes = MaxCrashes
     /\ \E w \in Workers : Draining(w)
     /\ state[j] \in {"queued", "running"}) ~> state[j] \in Terminal

\* Every submitted job is eventually run.
EveryJobRuns == \A j \in Job : state[j] = "queued" ~> state[j] # "queued"

\* A job whose worker died resumes: once its next trainer has started, the job is
\* running again.
InterruptedJobResumes ==
  [][\A w \in Workers :
       wpc[w] = "mark" /\ wpc'[w] \notin {"mark", "off"} => state'[cur[w]] = "running"]_wpc
=============================================================================
