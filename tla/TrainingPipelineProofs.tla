---------------------- MODULE TrainingPipelineProofs ----------------------
(***************************************************************************)
(* The safety properties of TrainingPipeline.tla, for every number of      *)
(* jobs, processes, promotions and deaths of workers.                      *)
(*                                                                         *)
(* The pipeline is the job queue with a registry attached: each of its     *)
(* steps is a step of the queue or leaves the queue alone, so it           *)
(* implements JobQueue!Spec and the invariant of JobQueueProofs.tla holds. *)
(* What is added relates the two stores.  While no worker has died, the    *)
(* place of a worker in run_job tells the status of the version it holds   *)
(* (HeldOK), and the status file of a job that nobody holds tells the      *)
(* status of its version (RestOK): every job is picked once, and its       *)
(* worker alone moves its version until the gate has judged it.  That a    *)
(* version goes live only after its gate ran to the end (GatedOK) needs no *)
(* such condition.                                                         *)
(***************************************************************************)
EXTENDS TrainingPipeline, JobQueueProofs

\* What a version may be once its gate has decided in its favour or against it.
Tried == Gated \cup {"promoted", "retired"}

\* The status a worker owes to the version it holds, by its place in run_job.
Owed(place) ==
  CASE place = "verdict"            -> {"evaluating"}
    [] place = "finish"             -> Tried
    [] place \in {"fail", "settle"} -> {"training", "evaluating", "failed"}
    [] OTHER                        -> {"training"}

HeldOK == \A w \in Workers : wpc[w] \in RunJob => status[cur[w]] \in Owed(wpc[w])

\* The status file of a job that no worker holds agrees with the registry.
Agrees(j) ==
  /\ state[j] = "new" => status[j] \in {Absent, "training"}
  /\ state[j] \in {"filed", "queued"} => status[j] = "training"
  /\ state[j] = "succeeded" => status[j] \in Tried
  /\ state[j] = "failed" => status[j] = "failed"

RestOK == \A j \in Job : ~Running(j) => Agrees(j)

\* The incumbents of the gates, those at work and those that have finished.
WasLive(i) == i \in Job => status[i] \in {"promoted", "retired"}
IncumbentsOK ==
  /\ \A w \in Workers : wpc[w] = "verdict" => WasLive(incumbent[w])
  /\ \A j \in Job : WasLive(against[j])

\* A promotion under way had a version that passed; only another promotion can have
\* changed that since.
PromotionsOK ==
  \A p \in Promoters : promoting[p] # 0 => status[promoting[p]] \in {"passed", "promoted", "retired"}

OnePromoter == \A p, q \in Promoters : p = q
PromotionOK == OnePromoter => \A p \in Promoters : promoting[p] # 0 => status[promoting[p]] = "passed"

\* What a gate has judged, and what is about to be put live, has the report of a gate.
GatedOK ==
  /\ \A j \in Job : status[j] \in Tried => against[j] # Ungated
  /\ \A p \in Promoters : promoting[p] # 0 => against[promoting[p]] # Ungated

RegistryTypeOK ==
  /\ status \in [Job -> VersionStatus]
  /\ against \in [Job -> Job \cup {Base, Ungated}]
  /\ incumbent \in [Workers -> Job \cup {Base}]
  /\ promoting \in [Promoters -> Job \cup {0}]

\* The two stores, while no worker has died.
StoresOK == crashes = 0 => HeldOK /\ RestOK /\ IncumbentsOK /\ PromotionsOK /\ PromotionOK

\* The inductive invariant.
PipelineInv == IInv /\ RegistryTypeOK /\ GatedOK /\ StoresOK

-----------------------------------------------------------------------------
(* The pipeline implements the queue                                       *)

\* A step of the pipeline is a step of the queue or leaves the queue as it is.
LEMMA QueueOrStutter == [PipelineNext]_vars => [Next]_queueVars
<1>. SUFFICES ASSUME [PipelineNext]_vars PROVE [Next]_queueVars
  OBVIOUS
<1>1. CASE UNCHANGED vars
  BY <1>1 DEF vars
<1>2. CASE \E j \in Job : CreateVersion(j) \/ QueueOnly(Cancel(j))
  BY <1>2 DEF CreateVersion, QueueOnly, Next
<1>3. CASE \E s \in Submitters, j \in Job : SubmitVersion(s, j)
  BY <1>3 DEF SubmitVersion, Next
<1>4. CASE \E s \in Submitters : QueueOnly(SubmitterStep(s))
  BY <1>4 DEF QueueOnly, Next
<1>5. CASE \E w \in Workers : PipelineWorker(w) \/ QueueOnly(Crash(w))
  BY <1>5 DEF PipelineWorker, QueueOnly, GateStarts, GateEnds, VersionFails, Next,
     WorkerStep, RegistryStep
<1>6. CASE \E t \in trainers : QueueOnly(TrainerExit(t))
  BY <1>6 DEF QueueOnly, Next
<1>7. CASE \E p \in Promoters : Promote(p) \/ \E j \in Job : CheckPromotion(p, j)
  BY <1>7 DEF Promote, CheckPromotion
<1>. QED
  BY <1>1, <1>2, <1>3, <1>4, <1>5, <1>6, <1>7 DEF PipelineNext

\* Whatever the registry does, the jobs behave as the queue alone promises: all the
\* safety theorems of JobQueueProofs.tla hold of the pipeline.
THEOREM PipelineImplementsQueue == PipelineSpec => Spec
<1>1. PipelineInit => Init
  BY DEF PipelineInit
<1>. QED
  BY <1>1, QueueOrStutter, PTL DEF PipelineSpec, Spec

-----------------------------------------------------------------------------
(* The steps                                                               *)

\* The version that serves is one of the jobs' versions, or the base model does.
LEMMA LiveOrBaseIsLive == LiveOrBase \in Live \cup {Base}
<1>1. Live \in SUBSET Job
  BY DEF Live
<1>. QED
  BY <1>1, LeastJob DEF LiveOrBase

\* A worker past its start moves alone: what it owes and what it leaves behind is all
\* there is to see to.
LEMMA OnlyOneMoves ==
  ASSUME IInv, NEW w \in Workers, wpc[w] \notin {"off", "start"},
         \A v \in Workers \ {w} : wpc'[v] = wpc[v] /\ cur'[v] = cur[v],
         wpc'[w] \in RunJob => status'[cur'[w]] \in Owed(wpc'[w]),
         \A j \in Job : j # cur'[w] => Agrees(j)'
  PROVE  HeldOK' /\ RestOK'
<1>1. \A v \in Workers \ {w} : wpc[v] \in {"off", "start"} /\ cur[v] = 0
  BY Owner DEF OnlyOwner
<1>2. HeldOK'
  BY <1>1 DEF HeldOK, RunJob
<1>3. RestOK'
  BY DEF RestOK, Running
<1>. QED
  BY <1>2, <1>3

\* Before the step: what no worker holds is what this one does not hold.
LEMMA OthersRest ==
  ASSUME IInv, RestOK, NEW w \in Workers, wpc[w] \notin {"off", "start"},
         NEW j \in Job, j # cur[w]
  PROVE  Agrees(j)
<1>1. \A v \in Workers \ {w} : cur[v] = 0
  BY Owner DEF OnlyOwner
<1>2. 0 \notin Job
  BY JobQueueAssumption DEF Job
<1>. QED
  BY <1>1, <1>2 DEF RestOK, Running

\* Submitters, cancel and trainers move no version and no worker that is at work.
LEMMA OutsideStep ==
  ASSUME PipelineInv, crashes = 0, UNCHANGED registryVars,
         UNCHANGED <<cur, crashes>>,
         \A w \in Workers : wpc'[w] \in RunJob => wpc'[w] = wpc[w],
         \A j \in Job : \/ state'[j] = state[j]
                        \/ state'[j] = "cancelled"
                        \/ state'[j] \in {"filed", "queued"} /\ status[j] = "training"
  PROVE  HeldOK' /\ RestOK'
<1>. USE DEF PipelineInv, StoresOK, registryVars
<1>1. HeldOK'
  BY DEF HeldOK
<1>2. \A j \in Job : Running(j)' <=> Running(j)
  BY DEF Running
<1>3. RestOK'
  BY <1>2 DEF RestOK, Agrees
<1>. QED
  BY <1>1, <1>3

\* A submission needs a version in training, and a job that is written is a job that was
\* filed for one.
LEMMA SubmitterKeeps ==
  ASSUME PipelineInv, crashes = 0, NEW s \in Submitters,
         \/ \E j \in Job : SubmitVersion(s, j)
         \/ QueueOnly(SubmitterStep(s))
  PROVE  HeldOK' /\ RestOK' /\ crashes' = crashes /\ UNCHANGED registryVars
         /\ \A w \in Workers : wpc'[w] = "verdict" => wpc[w] = "verdict"
<1>. USE DEF PipelineInv, StoresOK, IInv, Types
<1>1. CASE \E j \in Job : SubmitVersion(s, j)
  <2>1. PICK j \in Job : SubmitVersion(s, j)
    BY <1>1
  <2>2. UNCHANGED registryVars /\ UNCHANGED <<cur, crashes, wpc>> /\ status[j] = "training"
    BY <2>1 DEF SubmitVersion, Submit
  <2>3. \A i \in Job : state'[i] = state[i] \/ (state'[i] = "filed" /\ status[i] = "training")
    BY <2>1, <2>2 DEF SubmitVersion, Submit
  <2>. HIDE DEF PipelineInv, IInv, Types
  <2>4. HeldOK' /\ RestOK'
    BY <2>2, <2>3, OutsideStep
  <2>. QED
    BY <2>2, <2>4
<1>2. CASE QueueOnly(WriteQueued(s))
  <2>1. UNCHANGED registryVars /\ UNCHANGED <<cur, crashes, wpc>>
    BY <1>2 DEF QueueOnly, WriteQueued
  <2>2. filing[s] \in Job /\ state[filing[s]] = "filed"
    BY <1>2 DEF QueueOnly, WriteQueued, FilingOK, JobsIn
  <2>3. ~Running(filing[s])
    <3>1. \A w \in Workers : cur[w] = filing[s] => wpc[w] \in RunJob
      BY <2>2, JobQueueAssumption DEF CurrentOK, Job
    <3>. QED
      BY <2>2, <3>1 DEF Running, CurrentOK
  <2>4. status[filing[s]] = "training"
    BY <2>2, <2>3 DEF RestOK, Agrees
  <2>5. \A i \in Job : state'[i] = state[i] \/ (state'[i] = "queued" /\ status[i] = "training")
    BY <1>2, <2>4 DEF QueueOnly, WriteQueued
  <2>. HIDE DEF PipelineInv, IInv, Types
  <2>6. HeldOK' /\ RestOK'
    BY <2>1, <2>5, OutsideStep
  <2>. QED
    BY <2>1, <2>6
<1>3. CASE QueueOnly(Probe(s)) \/ QueueOnly(ProbeEnd(s)) \/ \E w \in Workers : QueueOnly(Spawn(s, w))
  <2>1. UNCHANGED registryVars /\ UNCHANGED <<cur, crashes, state>>
    BY <1>3 DEF QueueOnly, Probe, ProbeEnd, Spawn
  <2>2. \A w \in Workers : wpc'[w] = wpc[w] \/ wpc'[w] = "start"
    BY <1>3 DEF QueueOnly, Probe, ProbeEnd, Spawn
  <2>3. \A w \in Workers : wpc'[w] \in RunJob => wpc'[w] = wpc[w]
    BY <2>2 DEF RunJob
  <2>. HIDE DEF PipelineInv, IInv, Types
  <2>4. HeldOK' /\ RestOK'
    BY <2>1, <2>3, OutsideStep
  <2>. QED
    BY <2>1, <2>2, <2>4
<1>. QED
  BY <1>1, <1>2, <1>3 DEF QueueOnly, SubmitterStep

\* Cancel and the end of a trainer change no version, and a cancelled job is not one that
\* the stores have to agree on.
LEMMA CancelKeeps ==
  ASSUME PipelineInv, crashes = 0,
         \/ \E j \in Job : QueueOnly(Cancel(j))
         \/ \E t \in trainers : QueueOnly(TrainerExit(t))
  PROVE  HeldOK' /\ RestOK' /\ UNCHANGED <<crashes, wpc>> /\ UNCHANGED registryVars
<1>1. UNCHANGED registryVars /\ UNCHANGED <<cur, crashes, wpc>>
  BY DEF QueueOnly, Cancel, TrainerExit
<1>2. \A i \in Job : state'[i] = state[i] \/ state'[i] = "cancelled"
  BY DEF QueueOnly, Cancel, TrainerExit, PipelineInv, IInv, Types
<1>3. HeldOK' /\ RestOK'
  BY <1>1, <1>2, OutsideStep
<1>. QED
  BY <1>1, <1>3

\* The worker outside run_job: it picks a queued job, whose version is in training, and
\* finds nothing to recover.
LEMMA LoopKeeps ==
  ASSUME PipelineInv, crashes = 0, NEW w \in Workers,
         \/ TakeLock(w) \/ Scan(w) \/ Requeue(w) \/ RecoverEnd(w)
         \/ Pick(w) \/ Drained(w) \/ Close(w),
         UNCHANGED registryVars
  PROVE  HeldOK' /\ RestOK' /\ crashes' = crashes
         /\ \A v \in Workers : wpc'[v] = "verdict" => wpc[v] = "verdict"
<1>. USE DEF PipelineInv, StoresOK
<1>1. crashes' = crashes
  BY DEF TakeLock, Scan, Requeue, RecoverEnd, Pick, Drained, Close
<1>2. CASE TakeLock(w) \/ Scan(w) \/ RecoverEnd(w) \/ Drained(w) \/ Close(w)
  <2>1. UNCHANGED <<cur, state>>
    BY <1>2 DEF TakeLock, Scan, RecoverEnd, Drained, Close
  <2>2. \A v \in Workers : wpc'[v] = wpc[v] \/ wpc'[v] \in {"off", "scan", "recover", "list", "close"}
    BY <1>2 DEF TakeLock, Scan, RecoverEnd, Drained, Close, Goto, IInv, Types
  <2>3. \A v \in Workers : wpc'[v] \in RunJob => wpc'[v] = wpc[v]
    BY <2>2 DEF RunJob
  <2>4. HeldOK' /\ RestOK'
    BY <1>1, <2>1, <2>3, OutsideStep
  <2>. QED
    BY <1>1, <2>2, <2>4
<1>3. CASE Requeue(w)
  BY <1>3 DEF Requeue, IInv, TrainersOK
<1>4. CASE Pick(w)
  <2>. DEFINE j == OldestOf(JobsIn("queued"))
  <2>1. j \in Job /\ state[j] = "queued"
    <3>1. JobsIn("queued") \in SUBSET Job /\ JobsIn("queued") # {}
      BY <1>4 DEF Pick, JobsIn
    <3>2. j \in JobsIn("queued")
      BY <3>1, LeastJob DEF OldestOf
    <3>. QED
      BY <3>2 DEF JobsIn
  <2>. HIDE DEF j
  <2>2. wpc[w] = "list" /\ wpc'[w] = "launch" /\ cur'[w] = j
        /\ \A v \in Workers \ {w} : wpc'[v] = wpc[v] /\ cur'[v] = cur[v]
    BY <1>4 DEF Pick, Goto, IInv, Types, j
  <2>3. cur[w] = 0 /\ 0 \notin Job
    BY <2>2, JobQueueAssumption DEF IInv, CurrentOK, RunJob, Job
  <2>4. \A i \in Job : Agrees(i)
    BY <1>1, <2>2, <2>3, OthersRest
  <2>5. UNCHANGED <<state, status>>
    BY <1>4 DEF Pick, registryVars
  <2>6. status'[j] \in Owed("launch")
    BY <2>1, <2>4, <2>5 DEF Agrees, Owed
  <2>7. \A i \in Job : Agrees(i)'
    BY <2>4, <2>5 DEF Agrees
  <2>8. HeldOK' /\ RestOK'
    BY <2>2, <2>6, <2>7, OnlyOneMoves
  <2>. QED
    BY <1>1, <2>2, <2>8
<1>. QED
  BY <1>2, <1>3, <1>4

\* The worker in run_job: the version it holds is where the next place wants it, and a job
\* that it leaves succeeded has a version that its gate has judged.
LEMMA RunJobKeeps ==
  ASSUME PipelineInv, crashes = 0, NEW w \in Workers,
         \/ Launch(w) \/ LaunchFails(w) \/ Mark(w) \/ MarkRaises(w)
         \/ Collect(w) \/ Package(w) \/ Gate(w) \/ Finish(w) \/ WriteFailed(w),
         UNCHANGED registryVars
  PROVE  HeldOK' /\ RestOK' /\ crashes' = crashes
         /\ \A v \in Workers : wpc'[v] = "verdict" => wpc[v] = "verdict"
<1>. USE DEF PipelineInv, StoresOK
<1>1. crashes' = crashes /\ status' = status
  BY DEF Launch, LaunchFails, Mark, MarkRaises, Collect, Package, Gate, Finish, WriteFailed,
     registryVars
<1>2. wpc[w] \in {"launch", "mark", "wait", "package", "gate", "finish", "fail"}
  BY DEF Launch, LaunchFails, Mark, MarkRaises, Collect, Package, Gate, Finish, WriteFailed
<1>3. wpc[w] \in RunJob /\ wpc[w] \notin {"off", "start"} /\ cur[w] \in Job
  BY <1>2 DEF RunJob, IInv, CurrentOK
<1>4. status[cur[w]] \in Owed(wpc[w])
  BY <1>3 DEF HeldOK
<1>5. \A i \in Job : i # cur[w] => Agrees(i)
  BY <1>3, OthersRest
<1>6. \A i \in Job : i # cur[w] => state'[i] = state[i]
  BY DEF Launch, LaunchFails, Mark, MarkRaises, Collect, Package, Gate, Finish, WriteFailed,
     Write, IInv, Types
<1>7. \A i \in Job : i # cur[w] => Agrees(i)'
  BY <1>1, <1>5, <1>6 DEF Agrees
<1>8. \A v \in Workers \ {w} : wpc'[v] = wpc[v] /\ cur'[v] = cur[v]
  BY DEF Launch, LaunchFails, Mark, MarkRaises, Collect, Package, Gate, Finish, WriteFailed,
     Goto, Leave, IInv, Types
<1>9. CASE ~Finish(w)
  <2>1. cur'[w] = cur[w]
    BY <1>9 DEF Launch, LaunchFails, Mark, MarkRaises, Collect, Package, Gate, WriteFailed
  <2>2. \/ wpc[w] = "launch" /\ wpc'[w] \in {"mark", "fail"}
        \/ wpc[w] = "mark" /\ wpc'[w] \in {"wait", "fail"}
        \/ wpc[w] = "wait" /\ wpc'[w] \in {"settle", "package", "fail"}
        \/ wpc[w] = "package" /\ wpc'[w] \in {"gate", "fail"}
        \/ wpc[w] = "gate" /\ wpc'[w] = "evaluate"
        \/ wpc[w] = "fail" /\ wpc'[w] = "settle"
    BY <1>9 DEF Launch, LaunchFails, Mark, MarkRaises, Collect, Package, Gate, WriteFailed,
       Goto, IInv, Types
  <2>3. Owed(wpc[w]) \subseteq Owed(wpc'[w])
    BY <2>2 DEF Owed
  <2>4. status'[cur'[w]] \in Owed(wpc'[w])
    BY <1>1, <1>4, <2>1, <2>3
  <2>5. HeldOK' /\ RestOK'
    BY <1>3, <1>7, <1>8, <2>1, <2>4, OnlyOneMoves
  <2>. QED
    BY <1>1, <1>8, <2>2, <2>5
<1>10. CASE Finish(w)
  <2>1. wpc[w] = "finish" /\ wpc'[w] = "list" /\ cur'[w] = 0 /\ state'[cur[w]] = "succeeded"
    BY <1>3, <1>10 DEF Finish, Leave, Goto, Write, IInv, Types
  <2>2. \A i \in Job : i = cur[w] => Agrees(i)'
    BY <1>1, <1>4, <2>1 DEF Agrees, Owed
  <2>3. wpc'[w] \notin RunJob
    BY <2>1 DEF RunJob
  <2>4. HeldOK' /\ RestOK'
    BY <1>3, <1>7, <1>8, <2>2, <2>3, OnlyOneMoves
  <2>. QED
    BY <1>1, <1>8, <2>1, <2>4
<1>. QED
  BY <1>9, <1>10

\* A step that leaves the registry alone, and the place of every gate, leaves the rest of
\* the invariant as it is.
LEMMA QueueOnlyKeeps ==
  ASSUME PipelineInv, UNCHANGED registryVars,
         \/ /\ crashes' = crashes
            /\ crashes = 0 => HeldOK' /\ RestOK'
            /\ \A w \in Workers : wpc'[w] = "verdict" => wpc[w] = "verdict"
         \/ crashes' # 0
  PROVE  RegistryTypeOK' /\ GatedOK' /\ StoresOK'
<1>. USE DEF PipelineInv, registryVars
<1>1. RegistryTypeOK' /\ GatedOK'
  BY DEF RegistryTypeOK, GatedOK
<1>2. StoresOK'
  BY DEF StoresOK, IncumbentsOK, PromotionsOK, PromotionOK, WasLive
<1>. QED
  BY <1>1, <1>2

\* The gate starts: the version it holds is in training, so no incumbent is touched, and
\* the one it reads is live.
LEMMA GateStartsKeeps ==
  ASSUME PipelineInv, NEW w \in Workers, GateStarts(w)
  PROVE  RegistryTypeOK' /\ GatedOK' /\ StoresOK'
<1>. USE DEF PipelineInv
<1>1. wpc[w] = "evaluate" /\ wpc[w] \in RunJob /\ cur[w] \in Job /\ cur[w] # 0 /\ wpc[w] \notin {"off", "start"}
  BY JobQueueAssumption DEF GateStarts, Evaluate, RunJob, IInv, CurrentOK, Job
<1>2. PICK c \in Job : c = cur[w]
  BY <1>1
<1>3. status' = [status EXCEPT ![c] = "evaluating"]
      /\ incumbent' = [incumbent EXCEPT ![w] = LiveOrBase]
      /\ UNCHANGED <<against, promoting, cur, crashes, state>>
  BY <1>2 DEF GateStarts, SetStatus, GateIncumbent, Evaluate
<1>4. wpc'[w] = "verdict" /\ \A v \in Workers \ {w} : wpc'[v] = wpc[v]
  BY DEF GateStarts, Evaluate, Goto, IInv, Types
<1>5. LiveOrBase \in Live \cup {Base} /\ Live \subseteq Job
  BY LiveOrBaseIsLive DEF Live
<1>6. RegistryTypeOK'
  BY <1>3, <1>5 DEF RegistryTypeOK, VersionStatus
<1>7. GatedOK'
  BY <1>3 DEF GatedOK, RegistryTypeOK, Tried, Gated
<1>8. ASSUME crashes = 0 PROVE StoresOK'
  <2>. USE <1>8 DEF StoresOK
  <2>1. status[c] = "training"
    BY <1>1, <1>2 DEF HeldOK, Owed
  <2>2. \A i \in Job : i # c => Agrees(i)
    BY <1>1, <1>2, OthersRest
  <2>3. \A i \in Job : i # c => Agrees(i)'
    BY <1>3, <2>2 DEF Agrees, RegistryTypeOK
  <2>4. status'[c] \in Owed("verdict")
    BY <1>3 DEF Owed, RegistryTypeOK
  <2>5. HeldOK' /\ RestOK'
    BY <1>1, <1>2, <1>3, <1>4, <2>3, <2>4, OnlyOneMoves
  <2>6. \A i : WasLive(i) => WasLive(i)'
    BY <1>3, <2>1 DEF WasLive, RegistryTypeOK
  <2>7. WasLive(LiveOrBase)
    BY <1>5, JobQueueAssumption DEF WasLive, Live, Base, Job
  <2>8. \A v \in Workers : wpc'[v] = "verdict" => WasLive(incumbent'[v])
    BY <1>3, <1>4, <2>7 DEF IncumbentsOK, RegistryTypeOK
  <2>9. IncumbentsOK'
    <3>1. \A v \in Workers : wpc'[v] = "verdict" => WasLive(incumbent[v])'
      BY <1>3, <2>1, <2>8 DEF WasLive, RegistryTypeOK
    <3>2. \A j \in Job : WasLive(against[j])'
      BY <1>3, <2>1 DEF WasLive, RegistryTypeOK, IncumbentsOK
    <3>. QED
      BY <3>1, <3>2 DEF IncumbentsOK
  <2>10. PromotionsOK' /\ PromotionOK'
    BY <1>3, <2>1 DEF PromotionsOK, PromotionOK, RegistryTypeOK
  <2>. QED
    BY <2>5, <2>9, <2>10
<1>9. crashes' = 0 => crashes = 0
  BY <1>3
<1>. QED
  BY <1>6, <1>7, <1>8, <1>9 DEF StoresOK

\* The gate ends: a decision is recorded with the incumbent it was made against, which
\* has been live; or an exception leaves the version failed or evaluating.
LEMMA GateEndsKeeps ==
  ASSUME PipelineInv, NEW w \in Workers, GateEnds(w)
  PROVE  RegistryTypeOK' /\ GatedOK' /\ StoresOK'
<1>. USE DEF PipelineInv
<1>1. wpc[w] = "verdict" /\ wpc[w] \in RunJob /\ cur[w] \in Job /\ wpc[w] \notin {"off", "start"}
  BY DEF GateEnds, Verdict, RunJob, IInv, CurrentOK
<1>2. PICK c \in Job : c = cur[w]
  BY <1>1
<1>3. UNCHANGED <<incumbent, promoting, cur, crashes, state>>
  BY DEF GateEnds, Verdict
<1>4. wpc'[w] \in {"finish", "fail"} /\ \A v \in Workers \ {w} : wpc'[v] = wpc[v]
  BY DEF GateEnds, Verdict, Goto, IInv, Types
<1>5. \/ /\ wpc'[w] = "finish"
         /\ \E s \in Gated : status' = [status EXCEPT ![c] = s]
         /\ against' = [against EXCEPT ![c] = incumbent[w]]
      \/ /\ wpc'[w] = "fail"
         /\ status' = [status EXCEPT ![c] = "failed"] \/ status' = status
         /\ against' = against
  BY <1>2, <1>4 DEF GateEnds, RecordDecision, GateRaises, SetStatus
<1>6. incumbent[w] \in Job \cup {Base} /\ incumbent[w] # Ungated
  BY JobQueueAssumption DEF RegistryTypeOK, Ungated, Base, Job
<1>7. \A i \in Job : i # c => status'[i] = status[i] /\ against'[i] = against[i]
  BY <1>5 DEF RegistryTypeOK
<1>8. \/ wpc'[w] = "finish" /\ status'[c] \in Gated /\ against'[c] = incumbent[w]
      \/ wpc'[w] = "fail" /\ status'[c] \in {"failed", status[c]} /\ against'[c] = against[c]
  BY <1>5 DEF RegistryTypeOK
<1>9. RegistryTypeOK'
  BY <1>3, <1>5, <1>6 DEF RegistryTypeOK, VersionStatus
<1>10. GatedOK'
  <2>1. \A i \in Job : against[i] # Ungated => against'[i] # Ungated
    BY <1>6, <1>7, <1>8
  <2>2. \A i \in Job : status'[i] \in Tried => against'[i] # Ungated
    BY <1>6, <1>7, <1>8, <2>1 DEF GatedOK, Tried, Gated
  <2>3. \A p \in Promoters : promoting'[p] # 0 => against'[promoting'[p]] # Ungated
    BY <1>3, <2>1 DEF GatedOK, RegistryTypeOK
  <2>. QED
    BY <2>2, <2>3 DEF GatedOK
<1>11. ASSUME crashes = 0 PROVE StoresOK'
  <2>. USE <1>11 DEF StoresOK
  <2>1. status[c] = "evaluating"
    BY <1>1, <1>2 DEF HeldOK, Owed
  <2>2. \A i \in Job : i # c => Agrees(i)
    BY <1>1, <1>2, OthersRest
  <2>3. \A i \in Job : i # c => Agrees(i)'
    BY <1>3, <1>7, <2>2 DEF Agrees
  <2>4. status'[c] \in Owed(wpc'[w])
    BY <1>8, <2>1 DEF Owed, Tried
  <2>5. HeldOK' /\ RestOK'
    BY <1>1, <1>2, <1>3, <1>4, <2>3, <2>4, OnlyOneMoves
  <2>6. \A i \in Job : status[i] \in {"promoted", "retired"} => status'[i] = status[i]
    BY <1>7, <2>1
  <2>7. IncumbentsOK'
    <3>1. \A v \in Workers : wpc'[v] = "verdict" => WasLive(incumbent[v])'
      BY <1>3, <1>4, <2>6 DEF WasLive, IncumbentsOK
    <3>2. \A j \in Job : WasLive(against[j])'
      <4>1. \A j \in Job : against'[j] = against[j] \/ against'[j] = incumbent[w]
        BY <1>7, <1>8
      <4>2. WasLive(incumbent[w]) /\ \A j \in Job : WasLive(against[j])
        BY <1>1 DEF IncumbentsOK
      <4>. QED
        BY <2>6, <4>1, <4>2 DEF WasLive
    <3>. QED
      BY <3>1, <3>2 DEF IncumbentsOK
  <2>8. \A p \in Promoters : promoting[p] # 0 => promoting[p] \in Job /\ promoting[p] # c
    BY <2>1 DEF PromotionsOK, RegistryTypeOK
  <2>9. PromotionsOK' /\ PromotionOK'
    BY <1>3, <1>7, <2>8 DEF PromotionsOK, PromotionOK
  <2>. QED
    BY <2>5, <2>7, <2>9
<1>12. crashes' = 0 => crashes = 0
  BY <1>3
<1>. QED
  BY <1>9, <1>10, <1>11, <1>12 DEF StoresOK

\* A version is failed by the worker that leaves it: nothing has judged it, so no gate
\* ran against it and nobody is putting it live.
LEMMA VersionFailsKeeps ==
  ASSUME PipelineInv, NEW w \in Workers, VersionFails(w)
  PROVE  RegistryTypeOK' /\ GatedOK' /\ StoresOK'
<1>. USE DEF PipelineInv
<1>1. wpc[w] = "settle" /\ wpc[w] \in RunJob /\ cur[w] \in Job /\ wpc[w] \notin {"off", "start"}
  BY DEF VersionFails, Settle, RunJob, IInv, CurrentOK
<1>2. PICK c \in Job : c = cur[w]
  BY <1>1
<1>3. UNCHANGED <<against, incumbent, promoting, crashes, state>>
      /\ status' = [status EXCEPT ![c] = "failed"]
  BY <1>2 DEF VersionFails, Settle, FailVersion, SetStatus
<1>4. /\ wpc'[w] = "list" /\ cur'[w] = 0 /\ wpc'[w] \notin RunJob
      /\ \A v \in Workers \ {w} : wpc'[v] = wpc[v] /\ cur'[v] = cur[v]
  BY DEF VersionFails, Settle, Leave, Goto, RunJob, IInv, Types
<1>5. status'[c] = "failed" /\ \A i \in Job : i # c => status'[i] = status[i]
  BY <1>3 DEF RegistryTypeOK
<1>6. state[c] \in {"failed", "cancelled"}
  BY <1>1, <1>2 DEF IInv, CurrentOK
<1>7. RegistryTypeOK'
  BY <1>3 DEF RegistryTypeOK, VersionStatus
<1>8. GatedOK'
  BY <1>3, <1>5 DEF GatedOK, Tried, Gated
<1>9. ASSUME crashes = 0 PROVE StoresOK'
  <2>. USE <1>9 DEF StoresOK
  <2>1. status[c] \in {"training", "evaluating", "failed"}
    BY <1>1, <1>2 DEF HeldOK, Owed
  <2>2. \A i \in Job : i # c => Agrees(i)
    BY <1>1, <1>2, OthersRest
  <2>3. \A i \in Job : i # c => Agrees(i)'
    BY <1>3, <1>5, <2>2 DEF Agrees
  <2>4. \A i \in Job : i = c => Agrees(i)'
    BY <1>3, <1>5, <1>6 DEF Agrees
  <2>5. HeldOK' /\ RestOK'
    BY <1>1, <1>4, <2>3, <2>4, OnlyOneMoves
  <2>6. \A i \in Job : status[i] \in {"promoted", "retired"} => status'[i] = status[i]
    BY <1>5, <2>1
  <2>7. IncumbentsOK'
    BY <1>3, <1>4, <2>6 DEF IncumbentsOK, WasLive
  <2>8. \A p \in Promoters : promoting[p] # 0 => promoting[p] \in Job /\ promoting[p] # c
    BY <2>1 DEF PromotionsOK, RegistryTypeOK
  <2>9. PromotionsOK' /\ PromotionOK'
    BY <1>3, <1>5, <2>8 DEF PromotionsOK, PromotionOK
  <2>. QED
    BY <2>5, <2>7, <2>9
<1>10. crashes' = 0 => crashes = 0
  BY <1>3
<1>. QED
  BY <1>7, <1>8, <1>9, <1>10 DEF StoresOK

\* A new version is absent until then: no worker holds it and no file speaks of it.
LEMMA CreateVersionKeeps ==
  ASSUME PipelineInv, NEW j \in Job, CreateVersion(j)
  PROVE  RegistryTypeOK' /\ GatedOK' /\ StoresOK'
<1>. USE DEF PipelineInv
<1>1. UNCHANGED <<against, incumbent, promoting>> /\ UNCHANGED <<state, wpc, cur, crashes>>
  BY DEF CreateVersion, queueVars
<1>2. /\ status[j] = Absent /\ status'[j] = "training"
      /\ \A i \in Job : i # j => status'[i] = status[i]
      /\ status' \in [Job -> VersionStatus]
  BY DEF CreateVersion, SetStatus, RegistryTypeOK, VersionStatus
<1>3. RegistryTypeOK' /\ GatedOK'
  BY <1>1, <1>2 DEF RegistryTypeOK, GatedOK, Tried, Gated
<1>4. ASSUME crashes = 0 PROVE StoresOK'
  <2>. USE <1>4 DEF StoresOK
  <2>1. \A place \in RunJob : Absent \notin Owed(place)
    BY DEF Owed, Tried, Gated, Absent, RunJob
  <2>2. \A w \in Workers : wpc[w] \in RunJob => cur[w] \in Job /\ cur[w] # j
    BY <1>2, <2>1 DEF HeldOK, IInv, CurrentOK
  <2>3. HeldOK'
    BY <1>1, <1>2, <2>2 DEF HeldOK
  <2>4. \A i \in Job : Running(i)' <=> Running(i)
    BY <1>1 DEF Running
  <2>5. \A i \in Job : Agrees(i) => Agrees(i)'
    BY <1>1, <1>2 DEF Agrees, Tried, Gated, Absent
  <2>6. RestOK'
    BY <2>4, <2>5 DEF RestOK
  <2>7. IncumbentsOK' /\ PromotionsOK' /\ PromotionOK'
    BY <1>1, <1>2 DEF IncumbentsOK, PromotionsOK, PromotionOK, WasLive, Absent, RegistryTypeOK
  <2>. QED
    BY <2>3, <2>6, <2>7
<1>. QED
  BY <1>1, <1>3, <1>4 DEF StoresOK

\* What passes the check of a promotion has passed its gate.
LEMMA CheckPromotionKeeps ==
  ASSUME PipelineInv, NEW p \in Promoters, NEW j \in Job, CheckPromotion(p, j)
  PROVE  RegistryTypeOK' /\ GatedOK' /\ StoresOK'
<1>. USE DEF PipelineInv
<1>1. UNCHANGED <<status, against, incumbent>> /\ UNCHANGED <<state, wpc, cur, crashes>>
  BY DEF CheckPromotion, queueVars
<1>2. /\ status[j] = "passed" /\ promoting'[p] = j
      /\ \A q \in Promoters : q # p => promoting'[q] = promoting[q]
      /\ promoting' \in [Promoters -> Job \cup {0}]
  BY DEF CheckPromotion, MayPromote, RegistryTypeOK
<1>3. against[j] # Ungated
  BY <1>2 DEF GatedOK, Tried, Gated
<1>4. RegistryTypeOK' /\ GatedOK'
  BY <1>1, <1>2, <1>3 DEF RegistryTypeOK, GatedOK
<1>5. StoresOK'
  <2>1. HeldOK => HeldOK'
    BY <1>1 DEF HeldOK
  <2>2. RestOK => RestOK'
    BY <1>1 DEF RestOK, Running, Agrees
  <2>3. IncumbentsOK => IncumbentsOK'
    BY <1>1 DEF IncumbentsOK, WasLive
  <2>4. (PromotionsOK => PromotionsOK') /\ (PromotionOK => PromotionOK')
    BY <1>1, <1>2 DEF PromotionsOK, PromotionOK
  <2>. QED
    BY <1>1, <2>1, <2>2, <2>3, <2>4 DEF StoresOK
<1>. QED
  BY <1>4, <1>5

\* A promotion replaces what is live: only versions that a gate has judged move, and
\* they stay among those.
LEMMA PromoteKeeps ==
  ASSUME PipelineInv, NEW p \in Promoters, Promote(p)
  PROVE  RegistryTypeOK' /\ GatedOK' /\ StoresOK'
<1>. USE DEF PipelineInv
<1>1. UNCHANGED <<against, incumbent>> /\ UNCHANGED <<state, wpc, cur, crashes>>
  BY DEF Promote, queueVars
<1>2. PICK c \in Job : c = promoting[p]
  BY DEF Promote, RegistryTypeOK
<1>3. c # 0
  BY JobQueueAssumption DEF Job
<1>4. /\ promoting'[p] = 0
      /\ \A q \in Promoters : q # p => promoting'[q] = promoting[q]
      /\ promoting' \in [Promoters -> Job \cup {0}]
  BY DEF Promote, RegistryTypeOK
<1>5. status' = [j \in Job |-> IF j = c THEN "promoted"
                               ELSE IF j \in Live THEN "retired"
                               ELSE status[j]]
  BY <1>2 DEF Promote
<1>6. /\ status'[c] = "promoted"
      /\ \A i \in Job : i # c /\ status[i] = "promoted" => status'[i] = "retired"
      /\ \A i \in Job : i # c /\ status[i] # "promoted" => status'[i] = status[i]
  BY <1>5 DEF Live
<1>7. RegistryTypeOK'
  BY <1>1, <1>4, <1>5 DEF RegistryTypeOK, VersionStatus
<1>8. GatedOK'
  <2>1. against[c] # Ungated
    BY <1>2, <1>3 DEF GatedOK
  <2>2. \A i \in Job : i # c /\ status'[i] \in Tried => status[i] \in Tried
    BY <1>6 DEF Tried
  <2>3. \A i \in Job : status'[i] \in Tried => against'[i] # Ungated
    BY <1>1, <2>1, <2>2 DEF GatedOK
  <2>4. \A q \in Promoters : promoting'[q] # 0 => against'[promoting'[q]] # Ungated
    BY <1>1, <1>4 DEF GatedOK
  <2>. QED
    BY <2>3, <2>4 DEF GatedOK
<1>9. ASSUME crashes = 0 PROVE StoresOK'
  <2>. USE <1>9 DEF StoresOK
  <2>1. status[c] \in {"passed", "promoted", "retired"}
    BY <1>2, <1>3 DEF PromotionsOK
  <2>2. \A i \in Job : status'[i] = status[i]
          \/ (status[i] \in {"passed", "promoted", "retired"} /\ status'[i] \in {"promoted", "retired"})
    BY <1>6, <2>1
  <2>3. \A place \in RunJob : \A i \in Job : status[i] \in Owed(place) => status'[i] \in Owed(place)
    BY <2>2 DEF Owed, Tried, Gated
  <2>4. HeldOK'
    BY <1>1, <2>3 DEF HeldOK, IInv, CurrentOK
  <2>5. \A i \in Job : Running(i)' <=> Running(i)
    BY <1>1 DEF Running
  <2>6. \A i \in Job : Agrees(i) => Agrees(i)'
    BY <1>1, <2>2 DEF Agrees, Tried, Gated, Absent
  <2>7. RestOK'
    BY <2>5, <2>6 DEF RestOK
  <2>8. \A i : WasLive(i) => WasLive(i)'
    BY <2>2 DEF WasLive
  <2>9. IncumbentsOK'
    BY <1>1, <2>2 DEF IncumbentsOK, WasLive
  <2>10. PromotionsOK'
    BY <1>4, <2>2 DEF PromotionsOK, RegistryTypeOK
  <2>11. PromotionOK'
    BY <1>4 DEF PromotionOK, OnePromoter
  <2>. QED
    BY <2>4, <2>7, <2>9, <2>10, <2>11
<1>. QED
  BY <1>1, <1>7, <1>8, <1>9 DEF StoresOK

\* Nothing is in the registry at first, and no job anywhere.
LEMMA InitPipelineInv == PipelineInit => PipelineInv
<1>. SUFFICES ASSUME PipelineInit PROVE PipelineInv
  OBVIOUS
<1>1. IInv
  BY InitInvariant DEF PipelineInit
<1>2. RegistryTypeOK
  BY DEF PipelineInit, RegistryTypeOK, VersionStatus
<1>3. GatedOK
  BY DEF PipelineInit, GatedOK, Tried, Gated, Absent
<1>4. HeldOK /\ RestOK
  BY DEF PipelineInit, Init, HeldOK, RestOK, Agrees, RunJob, Absent
<1>5. IncumbentsOK /\ PromotionsOK /\ PromotionOK
  BY JobQueueAssumption DEF PipelineInit, Init, IncumbentsOK, WasLive, Ungated, Job,
     PromotionsOK, PromotionOK
<1>. QED
  BY <1>1, <1>2, <1>3, <1>4, <1>5 DEF PipelineInv, StoresOK

\* Every step of every process preserves the invariant.
LEMMA StepPipelineInv == PipelineInv /\ [PipelineNext]_vars => PipelineInv'
<1>. SUFFICES ASSUME PipelineInv, [PipelineNext]_vars PROVE RegistryTypeOK' /\ GatedOK' /\ StoresOK'
  <2>1. PipelineInv /\ [PipelineNext]_vars => IInv'
    BY QueueOrStutter, StepInvariant DEF PipelineInv
  <2>. QED
    BY <2>1 DEF PipelineInv
<1>1. CASE \E j \in Job : CreateVersion(j)
  BY <1>1, CreateVersionKeeps
<1>2. CASE (\E j \in Job : QueueOnly(Cancel(j))) \/ (\E t \in trainers : QueueOnly(TrainerExit(t)))
  <2>1. UNCHANGED registryVars /\ UNCHANGED <<crashes, wpc>>
    BY <1>2 DEF QueueOnly, Cancel, TrainerExit
  <2>. QED
    BY <1>2, <2>1, CancelKeeps, QueueOnlyKeeps
<1>3. ASSUME NEW s \in Submitters,
             (\E j \in Job : SubmitVersion(s, j)) \/ QueueOnly(SubmitterStep(s))
      PROVE  RegistryTypeOK' /\ GatedOK' /\ StoresOK'
  <2>1. UNCHANGED registryVars /\ crashes' = crashes
    BY <1>3 DEF QueueOnly, SubmitVersion, SubmitterStep, Submit, WriteQueued, Probe, ProbeEnd, Spawn
  <2>2. \A w \in Workers : wpc'[w] = "verdict" => wpc[w] = "verdict"
    BY <1>3 DEF QueueOnly, SubmitVersion, SubmitterStep, Submit, WriteQueued, Probe, ProbeEnd,
       Spawn, PipelineInv, IInv, Types
  <2>. QED
    BY <1>3, <2>1, <2>2, SubmitterKeeps, QueueOnlyKeeps
<1>4. ASSUME NEW w \in Workers, QueueOnly(QueueStep(w))
      PROVE  RegistryTypeOK' /\ GatedOK' /\ StoresOK'
  <2>1. UNCHANGED registryVars
    BY <1>4 DEF QueueOnly
  <2>2. crashes' = crashes
    BY <1>4 DEF QueueOnly, QueueStep, TakeLock, Scan, Requeue, RecoverEnd, Pick, Drained, Close,
       Launch, LaunchFails, Mark, MarkRaises, Collect, Package, Gate, Finish, WriteFailed
  <2>3. crashes = 0 => /\ HeldOK' /\ RestOK'
                       /\ \A v \in Workers : wpc'[v] = "verdict" => wpc[v] = "verdict"
    BY <1>4, <2>1, LoopKeeps, RunJobKeeps DEF QueueOnly, QueueStep
  <2>. QED
    BY <2>1, <2>2, <2>3, QueueOnlyKeeps
<1>5. ASSUME NEW w \in Workers, GateStarts(w) \/ GateEnds(w) \/ VersionFails(w)
      PROVE  RegistryTypeOK' /\ GatedOK' /\ StoresOK'
  BY <1>5, GateStartsKeeps, GateEndsKeeps, VersionFailsKeeps
<1>6. ASSUME NEW w \in Workers, QueueOnly(Crash(w))
      PROVE  RegistryTypeOK' /\ GatedOK' /\ StoresOK'
  <2>1. UNCHANGED registryVars /\ crashes' # 0
    BY <1>6 DEF QueueOnly, Crash, PipelineInv, IInv, Types
  <2>. QED
    BY <2>1, QueueOnlyKeeps
<1>7. ASSUME NEW p \in Promoters, Promote(p) \/ \E j \in Job : CheckPromotion(p, j)
      PROVE  RegistryTypeOK' /\ GatedOK' /\ StoresOK'
  BY <1>7, PromoteKeeps, CheckPromotionKeeps
<1>8. CASE UNCHANGED vars
  <2>1. UNCHANGED <<crashes, wpc, cur, state>> /\ UNCHANGED registryVars
    BY <1>8 DEF vars, queueVars
  <2>2. crashes = 0 => HeldOK' /\ RestOK'
    BY <2>1, OutsideStep
  <2>. QED
    BY <2>1, <2>2, QueueOnlyKeeps
<1>. QED
  BY <1>1, <1>2, <1>3, <1>4, <1>5, <1>6, <1>7, <1>8 DEF PipelineNext, PipelineWorker

-----------------------------------------------------------------------------
(* The theorems                                                            *)

\* The invariant holds in every state that the pipeline reaches.
THEOREM PipelineInvariant == PipelineSpec => []PipelineInv
  BY InitPipelineInv, StepPipelineInv, PTL DEF PipelineSpec

\* The variables of the queue and of the registry keep their types.
THEOREM PipelineTypeCorrect == PipelineSpec => []PipelineTypeOK
<1>1. PipelineInv => PipelineTypeOK
  BY DEF PipelineInv, IInv, TypeOK, RegistryTypeOK, PipelineTypeOK
<1>. QED
  BY <1>1, PipelineInvariant, PTL

\* Whatever workers die and however promotions interleave with gates, no version is live
\* without the report of a gate that ran to its end: the promotions that checked a
\* version before another gate took it over included.
THEOREM NothingLiveUngated == PipelineSpec => []LiveWasGated
<1>1. PipelineInv => LiveWasGated
  BY DEF PipelineInv, GatedOK, LiveWasGated, Live, Tried
<1>. QED
  BY <1>1, PipelineInvariant, PTL

\* A job that ended while no worker has died left the version its end calls for.
THEOREM StoresAgree == PipelineSpec => []JobAndVersionAgree
<1>1. PipelineInv => JobAndVersionAgree
  BY DEF PipelineInv, StoresOK, RestOK, Agrees, JobAndVersionAgree, Tried
<1>. QED
  BY <1>1, PipelineInvariant, PTL

\* No version is left in training by a job that has succeeded or failed.
THEOREM TrainingIsUnderWay == PipelineSpec => []TrainingMeansQueuedOrRunning
<1>1. ASSUME PipelineInv PROVE TrainingMeansQueuedOrRunning
  <2>. SUFFICES ASSUME crashes = 0, NEW j \in Job, status[j] = "training", ~Running(j),
                       state[j] \in {"succeeded", "failed"}
                PROVE  FALSE
    BY <1>1 DEF TrainingMeansQueuedOrRunning, PipelineInv, IInv, Types, JobState
  <2>. QED
    BY <1>1 DEF PipelineInv, StoresOK, RestOK, Agrees, Tried, Gated
<1>. QED
  BY <1>1, PipelineInvariant, PTL

\* While no worker has died, every gate ran against the base model or against a version
\* that had been put live.
THEOREM GatesFaceLiveVersions == PipelineSpec => []IncumbentWasLive
<1>1. PipelineInv => IncumbentWasLive
  BY DEF PipelineInv, StoresOK, IncumbentsOK, WasLive, IncumbentWasLive
<1>. QED
  BY <1>1, PipelineInvariant, PTL

\* With one process that promotes, and while no worker dies, every change of a version's
\* status is an edge of the documented lifecycle.  (Two promotions at a time can put a
\* retired version live again.)
THEOREM LifecycleIsFollowed == OnePromoter => (PipelineSpec => FollowsLifecycle)
<1>. SUFFICES ASSUME OnePromoter PROVE PipelineSpec => FollowsLifecycle
  OBVIOUS
<1>. DEFINE Follows(j) == status'[j] # status[j] => <<status[j], status'[j]>> \in Edges
<1>1. ASSUME PipelineInv, [PipelineNext]_vars, crashes = 0, NEW j \in Job PROVE Follows(j)
  <2>. USE <1>1 DEF PipelineInv, StoresOK
  <2>1. CASE \E i \in Job : CreateVersion(i)
    BY <2>1 DEF CreateVersion, SetStatus, RegistryTypeOK, Edges
  <2>2. ASSUME NEW w \in Workers, GateStarts(w) PROVE Follows(j)
    <3>1. status[cur[w]] = "training"
      BY <2>2 DEF GateStarts, Evaluate, RunJob, HeldOK, Owed
    <3>. QED
      BY <2>2, <3>1 DEF GateStarts, SetStatus, RegistryTypeOK, Edges
  <2>3. ASSUME NEW w \in Workers, GateEnds(w) PROVE Follows(j)
    <3>1. status[cur[w]] = "evaluating"
      BY <2>3 DEF GateEnds, Verdict, RunJob, HeldOK, Owed
    <3>2. status' = status
          \/ (\E s \in Gated \cup {"failed"} : status' = [status EXCEPT ![cur[w]] = s])
      BY <2>3 DEF GateEnds, RecordDecision, GateRaises, SetStatus
    <3>. QED
      BY <3>1, <3>2 DEF RegistryTypeOK, Edges, Gated
  <2>4. ASSUME NEW w \in Workers, VersionFails(w) PROVE Follows(j)
    <3>1. status[cur[w]] \in {"training", "evaluating", "failed"}
      BY <2>4 DEF VersionFails, Settle, RunJob, HeldOK, Owed
    <3>. QED
      BY <2>4, <3>1 DEF VersionFails, FailVersion, SetStatus, RegistryTypeOK, Edges
  <2>5. ASSUME NEW p \in Promoters, Promote(p) PROVE Follows(j)
    <3>1. status[promoting[p]] = "passed"
      BY <2>5 DEF Promote, PromotionOK
    <3>. QED
      BY <2>5, <3>1 DEF Promote, Live, Edges
  <2>6. CASE UNCHANGED status
    BY <2>6
  <2>. QED
    BY <2>1, <2>2, <2>3, <2>4, <2>5, <2>6 DEF PipelineNext, PipelineWorker, QueueOnly,
       SubmitVersion, CheckPromotion, registryVars, vars
<1>2. PipelineInv /\ [PipelineNext]_vars =>
        [crashes = 0 => \A j \in Job : Follows(j)]_status
  BY <1>1
<1>. QED
  BY <1>2, PipelineInvariant, PTL DEF PipelineSpec, FollowsLifecycle

=============================================================================
