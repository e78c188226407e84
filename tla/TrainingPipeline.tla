-------------------------- MODULE TrainingPipeline --------------------------
(***************************************************************************)
(* From `ookami train` to a live version: the job queue of JobQueue.tla    *)
(* together with what each of its steps does to the registry, and the      *)
(* promotions that run beside it.  Job j trains version j of one model.    *)
(*                                                                         *)
(* A registry transaction is one step here: Registry.tla shows that its    *)
(* operations are atomic.  What no transaction joins stays apart: the      *)
(* status file and the registry row of a job, the incumbent that a gate    *)
(* reads and the verdict it records, and the check that promote makes and  *)
(* the transaction that follows it.  Promotions are unforced.              *)
(***************************************************************************)
EXTENDS JobQueue

CONSTANT Promoters    \* CLI processes and console threads that promote versions

VARIABLES status,     \* status[j]: registry status of version j
          against,    \* against[j]: incumbent of j's last finished gate
          incumbent,  \* incumbent[w]: live version that w's gate runs against
          promoting   \* promoting[p]: the version p has checked and goes on to put live

registryVars == <<status, against, incumbent, promoting>>
vars == <<queueVars, registryVars>>

Absent == "absent"
Ungated == NumJobs + 1          \* no gate has finished
Base    == 0                    \* the base model: the incumbent while nothing is live
Gated   == {"passed", "rejected"}
VersionStatus == Gated \cup {Absent, "training", "evaluating", "failed", "promoted", "retired"}

Live == {j \in Job : status[j] = "promoted"}
LiveOrBase == IF Live = {} THEN Base ELSE Min(Live)

PipelineInit ==
  /\ Init
  /\ status = [j \in Job |-> Absent]
  /\ against = [j \in Job |-> Ungated]
  /\ incumbent = [w \in Workers |-> Base]
  /\ promoting = [p \in Promoters |-> 0]

SetStatus(j, s) == status' = [status EXCEPT ![j] = s]

-----------------------------------------------------------------------------
(* Training.  An operator whose comment starts with "Mutant" is no part of *)
(* the model: it is a bug that some property must catch.                   *)

\* submit_training creates the version, then the job.  Nothing makes the process
\* that created a version live to submit its job, and two processes may submit
\* in another order than they created: a version goes by the number of its job.
CreateVersion(j) ==
  /\ status[j] = Absent
  /\ SetStatus(j, "training")
  /\ UNCHANGED <<queueVars, against, incumbent, promoting>>

SubmitVersion(s, j) ==
  /\ status[j] = "training"
  /\ Submit(s, j)
  /\ UNCHANGED registryVars

\* Mutant: the newest version that passed its gate stands in for the live one.
NewestPassed(w) ==
  LET passed == {j \in Job : status[j] \in {"passed", "promoted"}}
  IN  IF passed = {} THEN Base ELSE Max(passed)

\* Mutant: no incumbent is recorded while the base model serves.
NoneOnBase(w) == IF Live = {} THEN Ungated ELSE LiveOrBase

GateIncumbent(w) == LiveOrBase

GateStarts(w) ==
  /\ Evaluate(w)
  /\ incumbent' = [incumbent EXCEPT ![w] = GateIncumbent(w)]
  /\ SetStatus(cur[w], "evaluating")
  /\ UNCHANGED <<against, promoting>>

\* Mutant: the gate reports its decision and forgets to record it.
NotRecorded(w) == UNCHANGED <<status, against>>

\* The decision and the report are recorded in one update.
RecordDecision(w) ==
  /\ \E s \in Gated : SetStatus(cur[w], s)
  /\ against' = [against EXCEPT ![cur[w]] = incumbent[w]]

\* The evaluation raises (the version fails), or saving the report does (the
\* version is left as it is for Settle).
GateRaises(w) ==
  /\ SetStatus(cur[w], "failed") \/ UNCHANGED status
  /\ UNCHANGED against

GateEnds(w) ==
  /\ Verdict(w)
  /\ IF wpc'[w] = "finish" THEN RecordDecision(w) ELSE GateRaises(w)
  /\ UNCHANGED <<incumbent, promoting>>

\* Mutant: the status file says failed and nobody tells the registry.
LeaveVersion(j) == UNCHANGED status

FailVersion(j) == SetStatus(j, "failed")

VersionFails(w) ==
  /\ Settle(w)
  /\ FailVersion(cur[w])
  /\ UNCHANGED <<against, incumbent, promoting>>

QueueOnly(step) == step /\ UNCHANGED registryVars

-----------------------------------------------------------------------------
(* Promotion                                                               *)

\* Mutant: any version that the gate has judged may go live.
Judged(j) == status[j] \in Gated

\* Mutant: any version that is not live already.
NotYetLive(j) == status[j] \notin {Absent, "promoted"}

MayPromote(j) == status[j] = "passed"

\* promote reads the version and checks it ...
CheckPromotion(p, j) ==
  /\ promoting[p] = 0
  /\ MayPromote(j)
  /\ promoting' = [promoting EXCEPT ![p] = j]
  /\ UNCHANGED <<queueVars, status, against, incumbent>>

\* ... and then retires the live version and puts this one live, whatever its
\* status has become.
Promote(p) ==
  /\ promoting[p] # 0
  /\ status' = [j \in Job |-> IF j = promoting[p] THEN "promoted"
                              ELSE IF j \in Live THEN "retired"
                              ELSE status[j]]
  /\ promoting' = [promoting EXCEPT ![p] = 0]
  /\ UNCHANGED <<queueVars, against, incumbent>>

-----------------------------------------------------------------------------

PipelineWorker(w) ==
  \/ QueueOnly(QueueStep(w))
  \/ GateStarts(w) \/ GateEnds(w) \/ VersionFails(w)

PipelineNext ==
  \/ \E j \in Job : CreateVersion(j) \/ QueueOnly(Cancel(j))
  \/ \E s \in Submitters, j \in Job : SubmitVersion(s, j)
  \/ \E s \in Submitters : QueueOnly(SubmitterStep(s))
  \/ \E w \in Workers : PipelineWorker(w) \/ QueueOnly(Crash(w))
  \/ \E t \in trainers : QueueOnly(TrainerExit(t))
  \/ \E p \in Promoters : Promote(p) \/ \E j \in Job : CheckPromotion(p, j)

PipelineSpec == PipelineInit /\ [][PipelineNext]_vars

\* As for the queue: whoever runs keeps running, nobody has to start anything.
PipelineFairness ==
  /\ \A s \in Submitters : WF_vars(QueueOnly(SubmitterStep(s)))
  /\ \A w \in Workers : WF_vars(PipelineWorker(w))
  /\ \A t \in Trainer : WF_vars(QueueOnly(TrainerExit(t)))

PipelineFairSpec == PipelineSpec /\ PipelineFairness

-----------------------------------------------------------------------------
(* Properties                                                              *)

PipelineTypeOK ==
  /\ TypeOK
  /\ status \in [Job -> VersionStatus]
  /\ against \in [Job -> Job \cup {Base, Ungated}]
  /\ incumbent \in [Workers -> Job \cup {Base}]
  /\ promoting \in [Promoters -> Job \cup {0}]

Running(j) == \E w \in Workers : cur[w] = j

\* While no worker dies and one promotion runs at a time, versions move along the
\* edges of the documented lifecycle only, whatever the worker does meanwhile.
Edges ==
  {<<Absent, "training">>,
   <<"training", "failed">>, <<"training", "evaluating">>,
   <<"evaluating", "passed">>, <<"evaluating", "rejected">>, <<"evaluating", "failed">>,
   <<"passed", "promoted">>, <<"promoted", "retired">>}

FollowsLifecycle ==
  [][crashes = 0 =>
       \A j \in Job : status'[j] # status[j] => <<status[j], status'[j]>> \in Edges]_status

\* The two stores agree on every job that has ended, if no worker died: a job that
\* succeeded has a judged version, a job that failed a failed one.
JobAndVersionAgree ==
  crashes = 0 =>
    \A j \in Job : ~Running(j) =>
      /\ state[j] = "succeeded" => status[j] \in Gated \cup {"promoted", "retired"}
      /\ state[j] = "failed" => status[j] = "failed"

\* `training` means queued or running: no version keeps the status once its job
\* has succeeded or failed.  (A job that is cancelled in the queue does leave its
\* version there.)
TrainingMeansQueuedOrRunning ==
  crashes = 0 =>
    \A j \in Job : status[j] = "training" /\ state[j] # "cancelled" =>
      state[j] \in {"new", "filed", "queued", "running"} \/ Running(j)

\* While no worker dies: whatever a gate was run against had been put live. It is
\* the base model, or a version that is live or has been replaced since.
IncumbentWasLive ==
  crashes = 0 =>
    \A j \in Job : against[j] \in Job => status[against[j]] \in {"promoted", "retired"}

\* Once workers have stopped dying, a worker that has the queue decides every
\* version whose job is in it and is not cancelled.
VersionsAreDecided ==
  \A j \in Job :
    (/\ crashes = MaxCrashes
     /\ \E w \in Workers : Draining(w)
     /\ state[j] \in {"queued", "running"}) ~>
        status[j] \in Gated \cup {"failed", "promoted", "retired"} \/ state[j] = "cancelled"

\* No version goes live, or stays it, without a gate that ran to its end.
LiveWasGated == \A j \in Live : against[j] # Ungated

\* A version that goes live was gated against the version it replaces.
PromotedBeatTheLiveOne ==
  [][\A j \in Job : status[j] = "passed" /\ status'[j] = "promoted" => against[j] = LiveOrBase]_status

\* A live version stops being live only when another one replaces it.
LiveOnlyReplaced ==
  [][\A j \in Job : status[j] = "promoted" => status'[j] \in {"promoted", "retired"}]_status
=============================================================================
