--------------------------- MODULE JobQueueProofs ---------------------------
(***************************************************************************)
(* The safety properties of JobQueue.tla, for every number of jobs,        *)
(* submitters, workers and deaths of workers.                              *)
(*                                                                         *)
(* The argument is mutual exclusion by the lock file (Owned): past its     *)
(* start a worker holds the lock, so all others are outside the queue, and *)
(* lemma Owner gives each of its steps a queue that only submitters,       *)
(* cancel and trainers share with it.  What those can do to a job that the *)
(* worker holds (CurrentOK), found stale (StaleOK) or has yet to see       *)
(* (FilingOK) is then little: cancel may mark it cancelled.  The counts    *)
(* follow: a job has an attempt left for each time it can come back to the *)
(* queue (AttemptsOK), and a trainer is alive only while its worker waits  *)
(* for it, unless that worker died (TrainersOK).                           *)
(***************************************************************************)
EXTENDS JobQueue, FiniteSetTheorems, TLAPS

\* A submitter that has yet to write status.json has a filed job of its own.
FilingOK ==
  /\ \A s \in Submitters : spc[s] = "write" => filing[s] \in JobsIn("filed")
  /\ \A s, t \in Submitters :
       spc[s] = "write" /\ spc[t] = "write" /\ filing[s] = filing[t] => s = t

\* A worker has a job exactly while run_job is at work.  Nobody ends that job under its
\* feet, but cancel.
CurrentOK ==
  \A w \in Workers :
    /\ wpc[w] \notin RunJob => cur[w] = 0
    /\ wpc[w] \in RunJob => cur[w] \in Job
    /\ wpc[w] \in RunJob \ {"settle"} => state[cur[w]] \in {"queued", "running", "cancelled"}
    /\ wpc[w] = "settle" => state[cur[w]] \in {"failed", "cancelled"}

\* Until it is re-queued, whatever a dead worker left running is on the list of the
\* worker that recovers, and only cancel has touched it since.
StaleOK ==
  \A w \in Workers :
    /\ wpc[w] # "recover" => stale[w] = {}
    /\ wpc[w] = "recover" => JobsIn("running") \subseteq stale[w]
    /\ \A j \in stale[w] : state[j] \in {"running", "cancelled"}

\* The current worker is past the start of j's trainer.
Launched(j) == \E w \in Workers : wpc[w] \in RunJob \ {"launch"} /\ cur[w] = j

\* A job that can still be started has an attempt left: it has had no more than workers
\* have died, one more when its trainer has been started since.
AttemptsOK ==
  /\ \A j \in Job : attempt[j] <= crashes + 1
  /\ \A j \in Job : state[j] \in {"new", "filed"} => attempt[j] = 0
  /\ \A j \in Job : state[j] \in {"queued", "running"} /\ ~Launched(j) => attempt[j] <= crashes
  /\ \A w \in Workers : wpc[w] = "launch" => attempt[cur[w]] <= crashes
  /\ \A w \in Workers : \A j \in stale[w] : attempt[j] <= crashes

\* The jobs ahead of a job are older, and their status files have been written.
AheadOK ==
  \A j \in Job : \A i \in ahead[j] : i < j /\ state[i] \notin {"new", "filed"}

\* As long as no worker has died: a job is marked running only while its worker is past
\* the start of its trainer, no job that waits has a pid, so that Mark never raises, and the
\* only trainer alive is the one its worker waits for.
TrainersOK ==
  crashes = 0 =>
    /\ \A w \in Workers : stale[w] = {}
    /\ \A j \in Job : state[j] = "running" => Launched(j)
    /\ \A j \in Job : state[j] \in {"new", "filed", "queued"} /\ ~Launched(j) => ~pid[j]
    /\ \A w \in Workers : wpc[w] \in {"launch", "mark"} => ~pid[cur[w]]
    /\ trainers # {} => \E w \in Workers : wpc[w] \in {"mark", "wait"} /\ trainers = {Child(w)}

\* The inductive invariant.
IInv ==
  /\ Types /\ Owned /\ FilingOK /\ CurrentOK /\ StaleOK
  /\ RunningIsCurrent /\ AttemptsOK /\ AheadOK /\ InOrder /\ TrainersOK

\* The minimum of a set of numbers is its least element.
LEMMA LeastOf ==
  ASSUME NEW S, S \subseteq Nat, S # {}
  PROVE  Min(S) \in S /\ \A x \in S : Min(S) <= x
<1>. DEFINE T == {0..k : k \in S}
            R == StrictSubsetOrdering(Nat)
            F == FiniteSubsetsOf(Nat)
<1>1. IsWellFoundedOn(R, F)
  BY FS_StrictSubsetOrderingWellFounded
<1>2. \A k \in S : 0..k \in F
  <2>1. \A k \in S : IsFiniteSet(0..k)
    BY FS_Interval
  <2>. QED
    BY <2>1 DEF FiniteSubsetsOf
<1>3. PICK m \in T : \A y \in T : ~ (<<y, m>> \in R)
  <2>1. T \subseteq F /\ T # {}
    BY <1>2, Zenon
  <2>. HIDE DEF T, R, F
  <2>. QED BY <1>1, <2>1, WFMin
<1>4. PICK k \in S : m = 0..k
  OBVIOUS
<1>5. \A x \in S : k <= x
  <2>. SUFFICES ASSUME NEW x \in S, x < k PROVE FALSE
    OBVIOUS
  <2>1. <<0..x, 0..k>> \in R
    BY DEF StrictSubsetOrdering
  <2>. QED
    BY <1>3, <1>4, <2>1
<1>. QED
  BY <1>5 DEF Min

\* The worker's choice, and recovery's, is a job that is there, and none is older.
LEMMA LeastJob ==
  \A S \in SUBSET Job : S # {} => Min(S) \in S /\ \A x \in S : Min(S) <= x
<1>. TAKE S \in SUBSET Job
<1>1. S \subseteq Nat
  BY JobQueueAssumption DEF Job
<1>. QED
  BY <1>1, LeastOf

\* A worker past its start holds the lock, and so is the only one: no other worker
\* runs a job, and the only trainer is its own.
OnlyOwner(w) ==
  /\ lock = w
  /\ \A v \in Workers \ {w} : wpc[v] \in {"off", "start"} /\ cur[v] = 0 /\ stale[v] = {}
  /\ \A s \in Submitters : spc[s] # "probing"
  /\ \A j \in Job : Launched(j) <=> wpc[w] \in RunJob \ {"launch"} /\ cur[w] = j
  /\ crashes = 0 /\ trainers # {} => wpc[w] \in {"mark", "wait"} /\ trainers = {Child(w)}

\* It follows from the invariant.
LEMMA Owner ==
  ASSUME IInv, NEW w \in Workers, wpc[w] \notin {"off", "start"}
  PROVE  OnlyOwner(w)
<1>. USE JobQueueAssumption DEF IInv
<1>1. lock = w /\ \A s \in Submitters : spc[s] # "probing"
  BY DEF Owned
<1>2. \A v \in Workers \ {w} : wpc[v] \in {"off", "start"}
  BY <1>1 DEF Owned
<1>3. \A v \in Workers \ {w} : cur[v] = 0 /\ stale[v] = {}
  BY <1>2 DEF CurrentOK, StaleOK, RunJob
<1>4. \A j \in Job : Launched(j) <=> wpc[w] \in RunJob \ {"launch"} /\ cur[w] = j
  BY <1>2 DEF Launched, RunJob
<1>5. crashes = 0 /\ trainers # {} => wpc[w] \in {"mark", "wait"} /\ trainers = {Child(w)}
  BY <1>2 DEF TrainersOK
<1>. QED
  BY <1>1, <1>2, <1>3, <1>4, <1>5 DEF OnlyOwner

\* A new job is neither queued nor in anybody's hands; what it finds ahead of it is older
\* and past its own submission.
LEMMA SubmitStep ==
  ASSUME IInv, NEW s \in Submitters, NEW j \in Job, Submit(s, j)
  PROVE  IInv'
<1>. USE JobQueueAssumption DEF IInv, Types, Job, JobsIn, JobState, RunJob, Working,
      Submit, Submitting
<1>1. state[j] = "new" /\ JobsIn("queued")' = JobsIn("queued")
  OBVIOUS
<1>2. Types'
  BY <1>1 DEF CurrentOK, Submitting, Child
<1>3. Owned'
  BY <1>1 DEF Owned
<1>4. FilingOK'
  BY <1>1 DEF FilingOK, CurrentOK, StaleOK, Submitting
<1>5. CurrentOK'
  BY <1>1 DEF CurrentOK, FilingOK, StaleOK
<1>6. StaleOK'
  BY <1>1 DEF StaleOK, CurrentOK, RunningIsCurrent, FilingOK
<1>7. RunningIsCurrent'
  BY <1>1 DEF RunningIsCurrent, CurrentOK, StaleOK, FilingOK
<1>8. AttemptsOK'
  BY <1>1 DEF AttemptsOK, CurrentOK, StaleOK, FilingOK, Launched
<1>9. AheadOK'
  BY <1>1 DEF AheadOK, CurrentOK, StaleOK, FilingOK
<1>10. InOrder'
  <2>. SUFFICES ASSUME NEW w \in Workers, wpc[w] = "launch"
                PROVE  ahead'[cur[w]] \cap JobsIn("queued") = {}
    BY <1>1 DEF InOrder
  <2>1. cur[w] # j /\ cur[w] \in Job
    BY <1>1 DEF CurrentOK
  <2>2. ahead'[cur[w]] = ahead[cur[w]]
    BY <2>1
  <2>. QED
    BY <2>2 DEF InOrder
<1>11. TrainersOK'
  BY <1>1 DEF TrainersOK, CurrentOK, StaleOK, FilingOK, Launched, Child
<1>. QED
  BY <1>2, <1>3, <1>4, <1>5, <1>6, <1>7, <1>8, <1>9, <1>10, <1>11 DEF IInv

\* Only the submitter that filed a job queues it, once, and it has had no attempt yet.
LEMMA WriteQueuedStep ==
  ASSUME IInv, NEW s \in Submitters, WriteQueued(s)
  PROVE  IInv'
<1>. USE JobQueueAssumption DEF IInv, Types, Job, JobsIn, JobState, RunJob, Working,
      WriteQueued, Submitting
<1>1. Types'
  BY DEF CurrentOK, Submitting, Child
<1>2. Owned'
  BY DEF Owned
<1>3. FilingOK'
  BY DEF FilingOK, CurrentOK, StaleOK, Submitting
<1>4. CurrentOK'
  BY DEF CurrentOK, FilingOK, StaleOK
<1>5. StaleOK'
  BY DEF StaleOK, CurrentOK, RunningIsCurrent, FilingOK
<1>6. RunningIsCurrent'
  BY DEF RunningIsCurrent, CurrentOK, StaleOK, FilingOK
<1>7. AttemptsOK'
  BY DEF AttemptsOK, CurrentOK, StaleOK, FilingOK, Launched
<1>8. AheadOK'
  BY DEF AheadOK, CurrentOK, StaleOK, FilingOK
<1>9. InOrder'
  BY DEF InOrder, AheadOK, FilingOK, CurrentOK
<1>10. TrainersOK'
  BY DEF TrainersOK, CurrentOK, StaleOK, FilingOK, Launched, Child
<1>. QED
  BY <1>1, <1>2, <1>3, <1>4, <1>5, <1>6, <1>7, <1>8, <1>9, <1>10 DEF IInv

\* A prober holds the lock only while no worker does.
LEMMA ProbeStep ==
  ASSUME IInv, NEW s \in Submitters, Probe(s)
  PROVE  IInv'
<1>. USE JobQueueAssumption DEF IInv, Types, Job, JobsIn, JobState, RunJob, Working,
      Probe, Submitting
<1>1. Types'
  BY ZenonT(60) DEF CurrentOK, Submitting, Child
<1>2. Owned'
  BY DEF Owned
<1>3. FilingOK'
  BY SMTT(40) DEF FilingOK, CurrentOK, StaleOK, Submitting
<1>4. CurrentOK'
  BY DEF CurrentOK, FilingOK, StaleOK
<1>5. StaleOK'
  BY DEF StaleOK, CurrentOK, RunningIsCurrent, FilingOK
<1>6. RunningIsCurrent'
  BY DEF RunningIsCurrent, CurrentOK, StaleOK, FilingOK
<1>7. AttemptsOK'
  BY DEF AttemptsOK, CurrentOK, StaleOK, FilingOK, Launched
<1>8. AheadOK'
  BY DEF AheadOK, CurrentOK, StaleOK, FilingOK
<1>9. InOrder'
  BY DEF InOrder, AheadOK, FilingOK, CurrentOK
<1>10. TrainersOK'
  BY DEF TrainersOK, CurrentOK, StaleOK, FilingOK, Launched, Child
<1>. QED
  BY <1>1, <1>2, <1>3, <1>4, <1>5, <1>6, <1>7, <1>8, <1>9, <1>10 DEF IInv

\* When the prober lets the lock go nobody holds it.
LEMMA ProbeEndStep ==
  ASSUME IInv, NEW s \in Submitters, ProbeEnd(s)
  PROVE  IInv'
<1>. USE JobQueueAssumption DEF IInv, Types, Job, JobsIn, JobState, RunJob, Working,
      ProbeEnd, Submitting
<1>1. Types'
  BY DEF CurrentOK, Submitting, Child
<1>2. Owned'
  BY DEF Owned
<1>3. FilingOK'
  BY DEF FilingOK, CurrentOK, StaleOK, Submitting
<1>4. CurrentOK'
  BY DEF CurrentOK, FilingOK, StaleOK
<1>5. StaleOK'
  BY DEF StaleOK, CurrentOK, RunningIsCurrent, FilingOK
<1>6. RunningIsCurrent'
  BY DEF RunningIsCurrent, CurrentOK, StaleOK, FilingOK
<1>7. AttemptsOK'
  BY DEF AttemptsOK, CurrentOK, StaleOK, FilingOK, Launched
<1>8. AheadOK'
  BY DEF AheadOK, CurrentOK, StaleOK, FilingOK
<1>9. InOrder'
  BY DEF InOrder, AheadOK, FilingOK, CurrentOK
<1>10. TrainersOK'
  BY DEF TrainersOK, CurrentOK, StaleOK, FilingOK, Launched, Child
<1>. QED
  BY <1>1, <1>2, <1>3, <1>4, <1>5, <1>6, <1>7, <1>8, <1>9, <1>10 DEF IInv

\* A worker that starts has neither the lock nor a job.
LEMMA SpawnStep ==
  ASSUME IInv, NEW s \in Submitters, NEW w \in Workers, Spawn(s, w)
  PROVE  IInv'
<1>. USE JobQueueAssumption DEF IInv, Types, Job, JobsIn, JobState, RunJob, Working,
      Spawn, Submitting
<1>1. \A j \in Job : Launched(j)' <=> Launched(j)
  BY DEF Launched
<1>2. wpc'[w] = "start" /\ \A v \in Workers : v # w => wpc'[v] = wpc[v]
  OBVIOUS
<1>3. UNCHANGED <<state, cur, stale, pid, attempt, trainers, crashes>>
  OBVIOUS
<1>4. wpc[w] = "off"
  OBVIOUS
<1>5. Types'
  BY <1>1, <1>2, <1>3, <1>4 DEF CurrentOK, Submitting, Child
<1>6. Owned'
  BY <1>1, <1>2, <1>3, <1>4 DEF Owned
<1>7. FilingOK'
  BY <1>1, <1>2, <1>3, <1>4 DEF FilingOK, CurrentOK, StaleOK, Submitting
<1>8. CurrentOK'
  BY <1>1, <1>2, <1>3, <1>4 DEF CurrentOK, FilingOK, StaleOK
<1>9. StaleOK'
  BY <1>1, <1>2, <1>3, <1>4 DEF StaleOK, CurrentOK, RunningIsCurrent, FilingOK
<1>10. RunningIsCurrent'
  BY <1>1, <1>2, <1>3, <1>4 DEF RunningIsCurrent, CurrentOK, StaleOK, FilingOK
<1>11. AttemptsOK'
  BY <1>1, <1>2, <1>3 DEF AttemptsOK
<1>12. AheadOK'
  BY <1>1, <1>2, <1>3, <1>4 DEF AheadOK, CurrentOK, StaleOK, FilingOK
<1>13. InOrder'
  BY <1>1, <1>2, <1>3, <1>4 DEF InOrder, AheadOK, FilingOK, CurrentOK
<1>14. TrainersOK'
  <2>1. \A v \in Workers : wpc[v] \in {"launch", "mark", "wait"} => v # w
    BY <1>4
  <2>2. \A v \in Workers : wpc'[v] \in {"launch", "mark"} => wpc[v] = wpc'[v]
    BY <1>2
  <2>3. \A v \in Workers : Child(v)' = Child(v)
    BY <1>3 DEF Child
  <2>. HIDE DEF Types, IInv, Spawn, JobsIn
  <2>4. TrainersOK
    BY DEF IInv
  <2>. QED
    BY <2>1, <2>2, <2>3, <2>4, <1>1, <1>2, <1>3 DEF TrainersOK
<1>. QED
  BY <1>5, <1>6, <1>7, <1>8, <1>9, <1>10, <1>11, <1>12, <1>13, <1>14 DEF IInv

\* A worker gets the lock only when nobody has it; another one leaves.
LEMMA TakeLockStep ==
  ASSUME IInv, NEW w \in Workers, TakeLock(w)
  PROVE  IInv'
<1>. USE JobQueueAssumption DEF IInv, Types, Job, JobsIn, JobState, RunJob, Working
<1>1. \A j \in Job : Launched(j)' <=> Launched(j)
  <2>1. \A v \in Workers : wpc'[v] \in RunJob \ {"launch"} <=> wpc[v] \in RunJob \ {"launch"}
    BY DEF TakeLock, Goto
  <2>. QED
    BY <2>1 DEF Launched, TakeLock
<1>2. wpc'[w] \in {"scan", "off"} /\ \A v \in Workers : v # w => wpc'[v] = wpc[v]
  BY DEF TakeLock, Goto
<1>3. UNCHANGED <<state, spc, filing, cur, stale, pid, attempt, trainers, crashes, ahead>>
  BY DEF TakeLock
<1>4. wpc[w] = "start"
  BY DEF TakeLock
<1>5. wpc' \in [Workers -> Working]
  BY DEF TakeLock, Goto
<1>6. /\ wpc[w] = "start" /\ lock # w
     /\ \/ lock = Nobody /\ lock' = w /\ wpc'[w] = "scan"
        \/ lock' = lock /\ wpc'[w] = "off"
  BY DEF TakeLock, Goto, Owned
<1>7. Types'
  BY <1>3, <1>5, <1>6 DEF Submitting
<1>8. Owned'
  <2>1. \A v \in Workers : wpc'[v] \notin {"off", "start"} <=> lock' = v
    BY <1>2, <1>6 DEF Owned
  <2>2. \A s \in Submitters : spc'[s] = "probing" <=> lock' = s
    BY <1>3, <1>6 DEF Owned
  <2>. QED
    BY <2>1, <2>2 DEF Owned
<1>9. FilingOK'
  BY <1>1, <1>2, <1>3, <1>4, <1>5, <1>6 DEF FilingOK, CurrentOK, StaleOK, Submitting
<1>10. CurrentOK'
  BY <1>1, <1>2, <1>3, <1>4, <1>5, <1>6 DEF CurrentOK, FilingOK, StaleOK
<1>11. StaleOK'
  <2>1. \A v \in Workers : wpc'[v] = "recover" <=> wpc[v] = "recover"
    BY <1>2, <1>6
  <2>. QED
    BY <2>1, <1>3 DEF StaleOK
<1>12. RunningIsCurrent'
  BY <1>1, <1>2, <1>3, <1>4, <1>5, <1>6 DEF RunningIsCurrent, CurrentOK, StaleOK, FilingOK
<1>13. AttemptsOK'
  BY <1>1, <1>2, <1>3 DEF AttemptsOK
<1>14. AheadOK'
  BY <1>1, <1>2, <1>3, <1>4, <1>5, <1>6 DEF AheadOK, CurrentOK, StaleOK, FilingOK
<1>15. InOrder'
  BY <1>1, <1>2, <1>3, <1>4, <1>5, <1>6 DEF InOrder, AheadOK, FilingOK, CurrentOK
<1>16. TrainersOK'
  <2>1. \A v \in Workers : wpc[v] \in {"launch", "mark", "wait"} => v # w
    BY <1>4
  <2>2. \A v \in Workers : wpc'[v] \in {"launch", "mark"} => wpc[v] = wpc'[v]
    BY <1>2
  <2>3. \A v \in Workers : Child(v)' = Child(v)
    BY <1>3 DEF Child
  <2>. HIDE DEF Types, IInv, JobsIn
  <2>4. TrainersOK
    BY DEF IInv
  <2>. QED
    BY <2>1, <2>2, <2>3, <2>4, <1>1, <1>2, <1>3 DEF TrainersOK
<1>. QED
  BY <1>7, <1>8, <1>9, <1>10, <1>11, <1>12, <1>13, <1>14, <1>15, <1>16 DEF IInv

\* What is marked running when recovery starts is what the worker finds stale.
LEMMA ScanStep ==
  ASSUME IInv, NEW w \in Workers, Scan(w)
  PROVE  IInv'
<1>. USE JobQueueAssumption DEF IInv, Types, Job, JobsIn, JobState, RunJob, Working,
      Scan, Goto, Interrupted
<1>1. OnlyOwner(w)
  BY Owner
<1>2. \A j \in Job : Launched(j)' <=> wpc'[w] \in RunJob \ {"launch"} /\ cur'[w] = j
  BY <1>1 DEF OnlyOwner, Launched
<1>3. Types'
  BY <1>1, <1>2 DEF CurrentOK, Submitting, Child, OnlyOwner
<1>4. Owned'
  BY <1>1, <1>2 DEF Owned, OnlyOwner
<1>5. FilingOK'
  BY <1>1, <1>2 DEF FilingOK, CurrentOK, StaleOK, Submitting, OnlyOwner
<1>6. CurrentOK'
  BY <1>1, <1>2 DEF CurrentOK, FilingOK, StaleOK, OnlyOwner
<1>7. StaleOK'
  BY <1>1, <1>2 DEF StaleOK, CurrentOK, RunningIsCurrent, FilingOK, OnlyOwner
<1>8. RunningIsCurrent'
  BY <1>1, <1>2 DEF RunningIsCurrent, CurrentOK, StaleOK, FilingOK, OnlyOwner
<1>9. AttemptsOK'
  BY <1>1, <1>2 DEF AttemptsOK, CurrentOK, StaleOK, FilingOK, OnlyOwner
<1>10. AheadOK'
  BY <1>1, <1>2 DEF AheadOK, CurrentOK, StaleOK, FilingOK, OnlyOwner
<1>11. InOrder'
  BY <1>1, <1>2 DEF InOrder, AheadOK, FilingOK, CurrentOK, OnlyOwner
<1>12. TrainersOK'
  BY <1>1, <1>2 DEF TrainersOK, CurrentOK, StaleOK, FilingOK, Child, OnlyOwner
<1>. QED
  BY <1>3, <1>4, <1>5, <1>6, <1>7, <1>8, <1>9, <1>10, <1>11, <1>12 DEF IInv

\* Recovery turns one stale job back to queued; the others are still to come.
LEMMA RequeueStep ==
  ASSUME IInv, NEW w \in Workers, Requeue(w)
  PROVE  IInv'
<1>. USE JobQueueAssumption DEF IInv, Types, Job, JobsIn, JobState, RunJob, Working,
      Requeue, StoppedWith
<1>1. OnlyOwner(w)
  BY Owner
<1>2. \A j \in Job : Launched(j)' <=> wpc'[w] \in RunJob \ {"launch"} /\ cur'[w] = j
  BY <1>1 DEF OnlyOwner, Launched
<1>3. Min(stale[w]) \in stale[w] /\ Min(stale[w]) \in Job
  BY LeastJob
<1>4. state[Min(stale[w])] \in {"running", "cancelled"}
  BY <1>3 DEF StaleOK
<1>5. Types'
  BY <1>1, <1>2, <1>3, <1>4 DEF CurrentOK, Submitting, Child, OnlyOwner
<1>6. Owned'
  BY <1>1, <1>2, <1>3, <1>4 DEF Owned, OnlyOwner
<1>7. FilingOK'
  BY <1>3, <1>4 DEF FilingOK
<1>8. CurrentOK'
  BY <1>1, <1>2, <1>3, <1>4 DEF CurrentOK, FilingOK, StaleOK, OnlyOwner
<1>9. StaleOK'
  BY <1>1, <1>2, <1>3, <1>4 DEF StaleOK, CurrentOK, RunningIsCurrent, FilingOK, OnlyOwner
<1>10. RunningIsCurrent'
  BY <1>1, <1>2, <1>3, <1>4 DEF RunningIsCurrent, CurrentOK, StaleOK, FilingOK, OnlyOwner
<1>11. AttemptsOK'
  BY <1>1, <1>2, <1>3, <1>4 DEF AttemptsOK, CurrentOK, StaleOK, FilingOK, OnlyOwner
<1>12. AheadOK'
  BY <1>1, <1>2, <1>3, <1>4 DEF AheadOK, CurrentOK, StaleOK, FilingOK, OnlyOwner
<1>13. InOrder'
  BY <1>1, <1>2, <1>3, <1>4 DEF InOrder, AheadOK, FilingOK, CurrentOK, OnlyOwner
<1>14. TrainersOK'
  BY <1>1, <1>2, <1>3, <1>4 DEF TrainersOK, CurrentOK, StaleOK, FilingOK, Child, OnlyOwner
<1>. QED
  BY <1>5, <1>6, <1>7, <1>8, <1>9, <1>10, <1>11, <1>12, <1>13, <1>14 DEF IInv

\* Recovery ends with no job marked running.
LEMMA RecoverEndStep ==
  ASSUME IInv, NEW w \in Workers, RecoverEnd(w)
  PROVE  IInv'
<1>. USE JobQueueAssumption DEF IInv, Types, Job, JobsIn, JobState, RunJob, Working,
      RecoverEnd, Recovered, Goto
<1>1. OnlyOwner(w)
  BY Owner
<1>2. \A j \in Job : Launched(j)' <=> wpc'[w] \in RunJob \ {"launch"} /\ cur'[w] = j
  BY <1>1 DEF OnlyOwner, Launched
<1>3. Types'
  BY <1>1, <1>2 DEF CurrentOK, Submitting, Child, OnlyOwner
<1>4. Owned'
  BY <1>1, <1>2 DEF Owned, OnlyOwner
<1>5. FilingOK'
  BY <1>1, <1>2 DEF FilingOK, CurrentOK, StaleOK, Submitting, OnlyOwner
<1>6. CurrentOK'
  BY <1>1, <1>2 DEF CurrentOK, FilingOK, StaleOK, OnlyOwner
<1>7. StaleOK'
  BY <1>1, <1>2 DEF StaleOK, CurrentOK, RunningIsCurrent, FilingOK, OnlyOwner
<1>8. RunningIsCurrent'
  BY <1>1, <1>2 DEF RunningIsCurrent, CurrentOK, StaleOK, FilingOK, OnlyOwner
<1>9. AttemptsOK'
  BY <1>1, <1>2 DEF AttemptsOK, CurrentOK, StaleOK, FilingOK, OnlyOwner
<1>10. AheadOK'
  BY <1>1, <1>2 DEF AheadOK, CurrentOK, StaleOK, FilingOK, OnlyOwner
<1>11. InOrder'
  BY <1>1, <1>2 DEF InOrder, AheadOK, FilingOK, CurrentOK, OnlyOwner
<1>12. TrainersOK'
  BY <1>1, <1>2 DEF TrainersOK, CurrentOK, StaleOK, FilingOK, Child, OnlyOwner
<1>. QED
  BY <1>3, <1>4, <1>5, <1>6, <1>7, <1>8, <1>9, <1>10, <1>11, <1>12 DEF IInv

\* The worker takes the least queued job: nothing that came before it is left waiting.
LEMMA PickStep ==
  ASSUME IInv, NEW w \in Workers, Pick(w)
  PROVE  IInv'
<1>. USE JobQueueAssumption DEF IInv, Types, Job, JobsIn, JobState, RunJob, Working,
      Pick, OldestOf, Goto
<1>1. OnlyOwner(w)
  BY Owner
<1>2. \A j \in Job : Launched(j)' <=> wpc'[w] \in RunJob \ {"launch"} /\ cur'[w] = j
  BY <1>1 DEF OnlyOwner, Launched
<1>3. /\ cur'[w] \in JobsIn("queued")
     /\ \A i \in JobsIn("queued") : cur'[w] <= i
  BY LeastJob
<1>4. \A v \in Workers : v = w \/ wpc'[v] \in {"off", "start"}
  BY <1>1 DEF OnlyOwner
<1>5. \A j \in Job : ~Launched(j) /\ ~Launched(j)'
  BY <1>1, <1>2 DEF OnlyOwner
<1>6. Types'
  BY <1>1, <1>2, <1>3, <1>4, <1>5 DEF CurrentOK, Submitting, Child, OnlyOwner
<1>7. Owned'
  BY <1>1, <1>2, <1>3, <1>4, <1>5 DEF Owned, OnlyOwner
<1>8. FilingOK'
  BY <1>1, <1>2, <1>3, <1>4, <1>5 DEF FilingOK, CurrentOK, StaleOK, Submitting, OnlyOwner
<1>9. CurrentOK'
  BY <1>1, <1>2, <1>3, <1>4, <1>5 DEF CurrentOK, FilingOK, StaleOK, OnlyOwner
<1>10. StaleOK'
  BY <1>1, <1>2, <1>3, <1>4, <1>5 DEF StaleOK, CurrentOK, RunningIsCurrent, FilingOK,
     OnlyOwner
<1>11. RunningIsCurrent'
  BY <1>1, <1>2, <1>3, <1>4, <1>5 DEF RunningIsCurrent, CurrentOK, StaleOK, FilingOK,
     OnlyOwner
<1>12. AttemptsOK'
  <2>1. attempt[cur'[w]] <= crashes
    BY <1>3, <1>5 DEF AttemptsOK
  <2>. QED
    BY <2>1, <1>4, <1>5 DEF AttemptsOK
<1>13. AheadOK'
  BY <1>1, <1>2, <1>3, <1>4, <1>5 DEF AheadOK, CurrentOK, StaleOK, FilingOK, OnlyOwner
<1>14. InOrder'
  <2>1. \A i \in ahead[cur'[w]] : i < cur'[w]
    BY <1>3 DEF AheadOK
  <2>2. \A i \in JobsIn("queued") : ~ (i < cur'[w])
    <3>. HIDE DEF Pick, OldestOf
    <3>. QED
      BY <1>3
  <2>3. ahead[cur'[w]] \cap JobsIn("queued") = {}
    BY <2>1, <2>2
  <2>. QED
    BY <2>3, <1>4 DEF InOrder
<1>15. TrainersOK'
  <2>1. crashes = 0 => ~pid[cur'[w]] /\ trainers = {}
    BY <1>1, <1>3, <1>5 DEF TrainersOK, OnlyOwner
  <2>. QED
    BY <2>1, <1>4, <1>5 DEF TrainersOK
<1>. QED
  BY <1>6, <1>7, <1>8, <1>9, <1>10, <1>11, <1>12, <1>13, <1>14, <1>15 DEF IInv

\* The worker leaves its loop with no job in hand.
LEMMA DrainedStep ==
  ASSUME IInv, NEW w \in Workers, Drained(w)
  PROVE  IInv'
<1>. USE JobQueueAssumption DEF IInv, Types, Job, JobsIn, JobState, RunJob, Working,
      Drained, NoneQueued, Goto
<1>1. OnlyOwner(w)
  BY Owner
<1>2. \A j \in Job : Launched(j)' <=> wpc'[w] \in RunJob \ {"launch"} /\ cur'[w] = j
  BY <1>1 DEF OnlyOwner, Launched
<1>3. Types'
  BY <1>1, <1>2 DEF CurrentOK, Submitting, Child, OnlyOwner
<1>4. Owned'
  BY <1>1, <1>2 DEF Owned, OnlyOwner
<1>5. FilingOK'
  BY <1>1, <1>2 DEF FilingOK, CurrentOK, StaleOK, Submitting, OnlyOwner
<1>6. CurrentOK'
  BY <1>1, <1>2 DEF CurrentOK, FilingOK, StaleOK, OnlyOwner
<1>7. StaleOK'
  BY <1>1, <1>2 DEF StaleOK, CurrentOK, RunningIsCurrent, FilingOK, OnlyOwner
<1>8. RunningIsCurrent'
  BY <1>1, <1>2 DEF RunningIsCurrent, CurrentOK, StaleOK, FilingOK, OnlyOwner
<1>9. AttemptsOK'
  BY <1>1, <1>2 DEF AttemptsOK, CurrentOK, StaleOK, FilingOK, OnlyOwner
<1>10. AheadOK'
  BY <1>1, <1>2 DEF AheadOK, CurrentOK, StaleOK, FilingOK, OnlyOwner
<1>11. InOrder'
  BY <1>1, <1>2 DEF InOrder, AheadOK, FilingOK, CurrentOK, OnlyOwner
<1>12. TrainersOK'
  BY <1>1, <1>2 DEF TrainersOK, CurrentOK, StaleOK, FilingOK, Child, OnlyOwner
<1>. QED
  BY <1>3, <1>4, <1>5, <1>6, <1>7, <1>8, <1>9, <1>10, <1>11, <1>12 DEF IInv

\* The worker gives the lock back with no job in hand.
LEMMA CloseStep ==
  ASSUME IInv, NEW w \in Workers, Close(w)
  PROVE  IInv'
<1>. USE JobQueueAssumption DEF IInv, Types, Job, JobsIn, JobState, RunJob, Working,
      Close, Goto
<1>1. OnlyOwner(w)
  BY Owner
<1>2. \A j \in Job : Launched(j)' <=> wpc'[w] \in RunJob \ {"launch"} /\ cur'[w] = j
  BY <1>1 DEF OnlyOwner, Launched
<1>3. Types'
  BY <1>1, <1>2 DEF CurrentOK, Submitting, Child, OnlyOwner
<1>4. Owned'
  BY <1>1, <1>2 DEF Owned, OnlyOwner
<1>5. FilingOK'
  BY <1>1, <1>2 DEF FilingOK, CurrentOK, StaleOK, Submitting, OnlyOwner
<1>6. CurrentOK'
  BY <1>1, <1>2 DEF CurrentOK, FilingOK, StaleOK, OnlyOwner
<1>7. StaleOK'
  BY <1>1, <1>2 DEF StaleOK, CurrentOK, RunningIsCurrent, FilingOK, OnlyOwner
<1>8. RunningIsCurrent'
  BY <1>1, <1>2 DEF RunningIsCurrent, CurrentOK, StaleOK, FilingOK, OnlyOwner
<1>9. AttemptsOK'
  BY <1>1, <1>2 DEF AttemptsOK, CurrentOK, StaleOK, FilingOK, OnlyOwner
<1>10. AheadOK'
  BY <1>1, <1>2 DEF AheadOK, CurrentOK, StaleOK, FilingOK, OnlyOwner
<1>11. InOrder'
  BY <1>1, <1>2 DEF InOrder, AheadOK, FilingOK, CurrentOK, OnlyOwner
<1>12. TrainersOK'
  BY <1>1, <1>2 DEF TrainersOK, CurrentOK, StaleOK, FilingOK, Child, OnlyOwner
<1>. QED
  BY <1>3, <1>4, <1>5, <1>6, <1>7, <1>8, <1>9, <1>10, <1>11, <1>12 DEF IInv

\* A trainer starts when no other one is alive, as long as no worker has died, and uses up
\* the attempt that the job has left.
LEMMA LaunchStep ==
  ASSUME IInv, NEW w \in Workers, Launch(w)
  PROVE  IInv'
<1>. USE JobQueueAssumption DEF IInv, Types, Job, JobsIn, JobState, RunJob, Working,
      Launch, NewTrainer, Goto
<1>1. OnlyOwner(w)
  BY Owner
<1>2. \A j \in Job : Launched(j)' <=> wpc'[w] \in RunJob \ {"launch"} /\ cur'[w] = j
  BY <1>1 DEF OnlyOwner, Launched
<1>3. /\ cur[w] \in Job /\ state[cur[w]] \in {"queued", "running", "cancelled"}
     /\ \A v \in Workers : v = w \/ wpc'[v] \in {"off", "start"}
  BY <1>1 DEF OnlyOwner, CurrentOK
<1>4. Types'
  BY <1>1, <1>2, <1>3 DEF CurrentOK, Submitting, Child, OnlyOwner
<1>5. Owned'
  BY <1>1, <1>2, <1>3 DEF Owned, OnlyOwner
<1>6. FilingOK'
  BY <1>1, <1>2, <1>3 DEF FilingOK, CurrentOK, StaleOK, Submitting, OnlyOwner
<1>7. CurrentOK'
  BY <1>1, <1>2, <1>3 DEF CurrentOK, FilingOK, StaleOK, OnlyOwner
<1>8. StaleOK'
  BY <1>1, <1>2, <1>3 DEF StaleOK, CurrentOK, RunningIsCurrent, FilingOK, OnlyOwner
<1>9. RunningIsCurrent'
  BY <1>1, <1>2, <1>3 DEF RunningIsCurrent, CurrentOK, StaleOK, FilingOK, OnlyOwner
<1>10. AttemptsOK'
  <2>1. attempt[cur[w]] <= crashes /\ ~ \E v \in Workers : wpc'[v] = "launch"
    BY <1>3 DEF AttemptsOK
  <2>2. \A j \in Job : attempt'[j] = IF j = cur[w] THEN attempt[j] + 1 ELSE attempt[j]
    BY <1>3
  <2>3. \A v \in Workers : stale[v] = {}
    BY <1>1 DEF OnlyOwner, StaleOK
  <2>4. \A j \in Job : ~Launched(j)' => ~Launched(j) /\ j # cur[w]
    BY <1>1, <1>2 DEF OnlyOwner
  <2>. QED
    BY <2>1, <2>2, <2>3, <2>4, <1>3 DEF AttemptsOK
<1>11. AheadOK'
  BY <1>1, <1>2, <1>3 DEF AheadOK, CurrentOK, StaleOK, FilingOK, OnlyOwner
<1>12. InOrder'
  BY <1>1, <1>2, <1>3 DEF InOrder, AheadOK, FilingOK, CurrentOK, OnlyOwner
<1>13. TrainersOK'
  <2>1. crashes = 0 => trainers = {} /\ ~pid[cur[w]]
    BY <1>1 DEF OnlyOwner, TrainersOK
  <2>2. Child(w)' = NewTrainer(w)
    BY <1>3 DEF Child
  <2>3. \A j \in Job : ~Launched(j) /\ (Launched(j)' => j = cur[w]) /\ Launched(cur[w])'
    BY <1>1, <1>2, <1>3 DEF OnlyOwner
  <2>4. crashes = 0 => trainers' = {Child(w)'} /\ wpc'[w] = "mark"
    BY <2>1, <2>2
  <2>5. crashes = 0 => \A j \in Job : ~Launched(j)' /\ state[j] \in {"new", "filed", "queued"} => ~pid[j]
    BY <2>3 DEF TrainersOK
  <2>6. crashes = 0 => \A j \in Job : state[j] = "running" => Launched(j)'
    BY <2>3 DEF TrainersOK
  <2>7. \A v \in Workers : wpc'[v] \in {"launch", "mark"} => v = w
    BY <1>3
  <2>8. UNCHANGED <<state, cur, stale, pid, crashes>>
    OBVIOUS
  <2>9. crashes = 0 => \A v \in Workers : stale[v] = {}
    BY DEF TrainersOK
  <2>. HIDE DEF Types, IInv, Launch, NewTrainer, JobsIn
  <2>. QED
    BY <2>1, <2>4, <2>5, <2>6, <2>7, <2>8, <2>9 DEF TrainersOK
<1>. QED
  BY <1>4, <1>5, <1>6, <1>7, <1>8, <1>9, <1>10, <1>11, <1>12, <1>13 DEF IInv

\* A step of run_job that goes on to q and leaves the state x in the job's status file:
\* whatever it writes, it writes into the job the worker holds.
LEMMA RunStep ==
  ASSUME IInv, NEW w \in Workers, NEW q \in RunJob \ {"launch", "mark"}, NEW x \in JobState,
         wpc[w] \in RunJob \ {"settle"},
         wpc' = [wpc EXCEPT ![w] = q],
         state' = [state EXCEPT ![cur[w]] = x],
         q = "settle" => x \in {"failed", "cancelled"},
         q # "settle" => x \in {"queued", "running", "cancelled"},
         pid' \in [Job -> BOOLEAN], \A j \in Job \ {cur[w]} : pid'[j] = pid[j],
         crashes = 0 /\ trainers # {} => q = "wait",
         UNCHANGED <<lock, spc, filing, cur, stale, attempt, trainers, crashes, ahead>>
  PROVE  IInv'
<1>. USE JobQueueAssumption DEF IInv, Types, Job, JobsIn, JobState, RunJob, Working
<1>1. OnlyOwner(w)
  BY Owner
<1>2. \A j \in Job : Launched(j)' <=> wpc'[w] \in RunJob \ {"launch"} /\ cur'[w] = j
  BY <1>1 DEF OnlyOwner, Launched
<1>3. cur[w] \in Job /\ state[cur[w]] \in {"queued", "running", "cancelled"}
  BY DEF CurrentOK
<1>4. \A v \in Workers : stale[v] = {}
  BY <1>1 DEF OnlyOwner, StaleOK
<1>5. \A v \in Workers \ {w} : wpc'[v] = wpc[v] /\ wpc'[v] \in {"off", "start"}
  BY <1>1 DEF OnlyOwner
<1>6. Types'
  BY <1>1, <1>2, <1>3, <1>4, <1>5 DEF CurrentOK, Submitting, Child, OnlyOwner
<1>7. Owned'
  BY <1>1, <1>2, <1>3, <1>4, <1>5 DEF Owned, OnlyOwner
<1>8. FilingOK'
  BY <1>3 DEF FilingOK
<1>9. CurrentOK'
  BY <1>1, <1>2, <1>3, <1>4, <1>5 DEF CurrentOK, FilingOK, StaleOK, OnlyOwner
<1>10. StaleOK'
  <2>1. \A v \in Workers : wpc'[v] # "recover"
    BY <1>5
  <2>. QED
    BY <2>1, <1>4 DEF StaleOK
<1>11. RunningIsCurrent'
  <2>1. JobsIn("running") \subseteq {cur[w]}
    BY DEF RunningIsCurrent
  <2>2. JobsIn("running")' \subseteq {cur[w]}
    BY <2>1
  <2>. QED
    BY <2>2, <1>5 DEF RunningIsCurrent
<1>12. AttemptsOK'
  BY <1>1, <1>2, <1>3, <1>4, <1>5 DEF AttemptsOK, CurrentOK, StaleOK, FilingOK, OnlyOwner
<1>13. AheadOK'
  BY <1>1, <1>2, <1>3, <1>4, <1>5 DEF AheadOK, CurrentOK, StaleOK, FilingOK, OnlyOwner
<1>14. InOrder'
  BY <1>1, <1>2, <1>3, <1>4, <1>5 DEF InOrder, AheadOK, FilingOK, CurrentOK, OnlyOwner
<1>15. TrainersOK'
  BY <1>1, <1>2, <1>3, <1>4, <1>5 DEF TrainersOK, CurrentOK, StaleOK, FilingOK, Child,
     OnlyOwner
<1>. QED
  BY <1>6, <1>7, <1>8, <1>9, <1>10, <1>11, <1>12, <1>13, <1>14, <1>15 DEF IInv

\* A worker leaves its job in an end state.
LEMMA LeaveStep ==
  ASSUME IInv, NEW w \in Workers, NEW x \in Terminal,
         wpc[w] \in {"finish", "settle"},
         Leave(w), state' = [state EXCEPT ![cur[w]] = x],
         UNCHANGED <<lock, spc, filing, stale, pid, attempt, trainers, crashes, ahead>>
  PROVE  IInv'
<1>. USE JobQueueAssumption DEF IInv, Types, Job, JobsIn, JobState, RunJob, Working,
      Leave, Goto, Terminal
<1>1. OnlyOwner(w)
  BY Owner
<1>2. \A j \in Job : Launched(j)' <=> wpc'[w] \in RunJob \ {"launch"} /\ cur'[w] = j
  BY <1>1 DEF OnlyOwner, Launched
<1>3. Types'
  BY <1>1, <1>2 DEF CurrentOK, Submitting, Child, OnlyOwner
<1>4. Owned'
  BY <1>1, <1>2 DEF Owned, OnlyOwner
<1>5. FilingOK'
  BY <1>1, <1>2 DEF FilingOK, CurrentOK, StaleOK, Submitting, OnlyOwner
<1>6. CurrentOK'
  BY <1>1, <1>2 DEF CurrentOK, FilingOK, StaleOK, OnlyOwner
<1>7. StaleOK'
  BY <1>1, <1>2 DEF StaleOK, CurrentOK, RunningIsCurrent, FilingOK, OnlyOwner
<1>8. RunningIsCurrent'
  BY <1>1, <1>2 DEF RunningIsCurrent, CurrentOK, StaleOK, FilingOK, OnlyOwner
<1>9. AttemptsOK'
  BY <1>1, <1>2 DEF AttemptsOK, CurrentOK, StaleOK, FilingOK, OnlyOwner
<1>10. AheadOK'
  BY <1>1, <1>2 DEF AheadOK, CurrentOK, StaleOK, FilingOK, OnlyOwner
<1>11. InOrder'
  BY <1>1, <1>2 DEF InOrder, AheadOK, FilingOK, CurrentOK, OnlyOwner
<1>12. TrainersOK'
  BY <1>1, <1>2 DEF TrainersOK, CurrentOK, StaleOK, FilingOK, Child, OnlyOwner
<1>. QED
  BY <1>3, <1>4, <1>5, <1>6, <1>7, <1>8, <1>9, <1>10, <1>11, <1>12 DEF IInv

\* A trainer that ends leaves no other one behind.
LEMMA TrainerExitStep ==
  ASSUME IInv, NEW t \in trainers, TrainerExit(t)
  PROVE  IInv'
<1>. USE JobQueueAssumption DEF IInv, Types, Job, JobsIn, JobState, RunJob, Working,
      TrainerExit
<1>1. Types'
  BY DEF CurrentOK, Submitting, Child
<1>2. Owned'
  BY DEF Owned
<1>3. FilingOK'
  BY DEF FilingOK, CurrentOK, StaleOK, Submitting
<1>4. CurrentOK'
  BY DEF CurrentOK, FilingOK, StaleOK
<1>5. StaleOK'
  BY DEF StaleOK, CurrentOK, RunningIsCurrent, FilingOK
<1>6. RunningIsCurrent'
  BY DEF RunningIsCurrent, CurrentOK, StaleOK, FilingOK
<1>7. AttemptsOK'
  BY DEF AttemptsOK, CurrentOK, StaleOK, FilingOK, Launched
<1>8. AheadOK'
  BY DEF AheadOK, CurrentOK, StaleOK, FilingOK
<1>9. InOrder'
  BY DEF InOrder, AheadOK, FilingOK, CurrentOK
<1>10. TrainersOK'
  <2>1. \A j \in Job : Launched(j)' <=> Launched(j)
    BY DEF Launched
  <2>2. \A w \in Workers : Child(w)' = Child(w)
    BY DEF Child
  <2>3. \A w \in Workers : trainers = {Child(w)} => trainers' = {}
    OBVIOUS
  <2>. QED
    BY <2>1, <2>2, <2>3 DEF TrainersOK
<1>. QED
  BY <1>1, <1>2, <1>3, <1>4, <1>5, <1>6, <1>7, <1>8, <1>9, <1>10 DEF IInv

\* Cancel makes no job running or queued, and no trainer.
LEMMA CancelStep ==
  ASSUME IInv, NEW j \in Job, Cancel(j)
  PROVE  IInv'
<1>. USE JobQueueAssumption DEF IInv, Types, Job, JobsIn, JobState, RunJob, Working,
      Cancel, StoppedWith
<1>1. Types'
  BY DEF CurrentOK, Submitting, Child
<1>2. Owned'
  BY DEF Owned
<1>3. FilingOK'
  BY DEF FilingOK, CurrentOK, StaleOK, Submitting
<1>4. CurrentOK'
  BY DEF CurrentOK, FilingOK, StaleOK
<1>5. StaleOK'
  BY DEF StaleOK, CurrentOK, RunningIsCurrent, FilingOK
<1>6. RunningIsCurrent'
  BY DEF RunningIsCurrent, CurrentOK, StaleOK, FilingOK
<1>7. AttemptsOK'
  BY DEF AttemptsOK, CurrentOK, StaleOK, FilingOK, Launched
<1>8. AheadOK'
  BY DEF AheadOK, CurrentOK, StaleOK, FilingOK
<1>9. InOrder'
  BY DEF InOrder, AheadOK, FilingOK, CurrentOK
<1>10. TrainersOK'
  BY DEF TrainersOK, CurrentOK, StaleOK, FilingOK, Launched, Child
<1>. QED
  BY <1>1, <1>2, <1>3, <1>4, <1>5, <1>6, <1>7, <1>8, <1>9, <1>10 DEF IInv

\* A worker's death frees the lock and pays for one more attempt of every job.
LEMMA CrashStep ==
  ASSUME IInv, NEW w \in Workers, Crash(w)
  PROVE  IInv'
<1>. USE JobQueueAssumption DEF IInv, Types, Job, JobsIn, JobState, RunJob, Working,
      Crash, Goto
<1>1. Types'
  BY SMTT(40) DEF CurrentOK, Submitting, Child
<1>2. Owned'
  BY DEF Owned
<1>3. FilingOK'
  BY DEF FilingOK, CurrentOK, StaleOK, Submitting
<1>4. CurrentOK'
  BY DEF CurrentOK, FilingOK, StaleOK
<1>5. StaleOK'
  BY DEF StaleOK, CurrentOK, RunningIsCurrent, FilingOK
<1>6. RunningIsCurrent'
  BY DEF RunningIsCurrent, CurrentOK, StaleOK, FilingOK
<1>7. AttemptsOK'
  BY DEF AttemptsOK, CurrentOK, StaleOK, FilingOK, Launched
<1>8. AheadOK'
  BY DEF AheadOK, CurrentOK, StaleOK, FilingOK
<1>9. InOrder'
  BY DEF InOrder, AheadOK, FilingOK, CurrentOK
<1>10. TrainersOK'
  BY DEF TrainersOK, CurrentOK, StaleOK, FilingOK, Launched, Child
<1>. QED
  BY <1>1, <1>2, <1>3, <1>4, <1>5, <1>6, <1>7, <1>8, <1>9, <1>10 DEF IInv

\* Every step of run_job between the trainer's start and the job's end is a RunStep;
\* LaunchFails, which starts no trainer, is one too.
LEMMA RunJobSteps ==
  ASSUME IInv, NEW w \in Workers,
         \/ LaunchFails(w) \/ Mark(w) \/ MarkRaises(w) \/ Collect(w) \/ Package(w)
         \/ Gate(w) \/ Evaluate(w) \/ Verdict(w) \/ WriteFailed(w)
  PROVE  IInv'
<1>. DEFINE here == state[cur[w]]
<1>1. wpc[w] \in RunJob \ {"settle"}
  BY DEF LaunchFails, Mark, MarkRaises, Collect, Package, Gate, Evaluate, Verdict,
     WriteFailed, RunJob
<1>2. /\ cur[w] \in Job /\ here \in {"queued", "running", "cancelled"}
      /\ here \in JobState /\ pid \in [Job -> BOOLEAN] /\ state \in [Job -> JobState]
  BY <1>1 DEF IInv, Types, CurrentOK, JobState
<1>3. state = [state EXCEPT ![cur[w]] = here]
  BY <1>2
<1>4. crashes = 0 /\ trainers # {} =>
        wpc[w] \in {"mark", "wait"} /\ trainers = {Child(w)} /\ (wpc[w] = "mark" => ~pid[cur[w]])
  BY <1>1, Owner DEF OnlyOwner, IInv, TrainersOK, RunJob
<1>5. CASE LaunchFails(w) \/ MarkRaises(w)
  <2>1. /\ wpc' = [wpc EXCEPT ![w] = "fail"] /\ state' = state /\ pid' = pid
        /\ UNCHANGED <<lock, spc, filing, cur, stale, attempt, trainers, crashes, ahead>>
    BY <1>5 DEF LaunchFails, MarkRaises, Goto
  <2>2. ~ (crashes = 0 /\ trainers # {})
    BY <1>4, <1>5 DEF LaunchFails, MarkRaises
  <2>3. "fail" \in RunJob \ {"launch", "mark"}
    BY DEF RunJob
  <2>. QED
    BY <1>1, <1>2, <1>3, <2>1, <2>2, <2>3, RunStep
<1>6. CASE Mark(w)
  <2>1. /\ wpc' = [wpc EXCEPT ![w] = "wait"] /\ state' = [state EXCEPT ![cur[w]] = "running"]
        /\ pid' = [pid EXCEPT ![cur[w]] = TRUE]
        /\ UNCHANGED <<lock, spc, filing, cur, stale, attempt, trainers, crashes, ahead>>
    BY <1>6 DEF Mark, Goto, Write
  <2>2. "wait" \in RunJob \ {"launch", "mark"} /\ "running" \in JobState
    BY DEF RunJob, JobState
  <2>3. pid' \in [Job -> BOOLEAN] /\ \A j \in Job \ {cur[w]} : pid'[j] = pid[j]
    BY <1>2, <2>1
  <2>. QED
    BY <1>1, <2>1, <2>2, <2>3, RunStep
<1>7. CASE Collect(w) \/ Evaluate(w) \/ Verdict(w)
  <2>1. PICK q \in {"settle", "package", "fail", "verdict", "finish"} :
          wpc' = [wpc EXCEPT ![w] = q] /\ (q = "settle" => here = "cancelled")
    BY <1>7 DEF Collect, Evaluate, Verdict, Goto
  <2>2. /\ state' = state /\ pid' = pid
        /\ UNCHANGED <<lock, spc, filing, cur, stale, attempt, trainers, crashes, ahead>>
    BY <1>7 DEF Collect, Evaluate, Verdict
  <2>3. ~ (crashes = 0 /\ trainers # {})
    BY <1>4, <1>7 DEF Collect, Evaluate, Verdict, TrainerGone
  <2>4. q \in RunJob \ {"launch", "mark"}
    BY DEF RunJob
  <2>. QED
    BY <1>1, <1>2, <1>3, <2>1, <2>2, <2>3, <2>4, RunStep
<1>8. CASE Package(w) \/ Gate(w)
  <2>1. PICK q \in {"gate", "fail", "evaluate"} : wpc' = [wpc EXCEPT ![w] = q]
    BY <1>8 DEF Package, Gate, Goto
  <2>2. /\ state' = [state EXCEPT ![cur[w]] = "running"] /\ pid' = pid
        /\ UNCHANGED <<lock, spc, filing, cur, stale, attempt, trainers, crashes, ahead>>
    BY <1>8 DEF Package, Gate, Write
  <2>3. ~ (crashes = 0 /\ trainers # {})
    BY <1>4, <1>8 DEF Package, Gate
  <2>4. q \in RunJob \ {"launch", "mark"} /\ "running" \in JobState
    BY DEF RunJob, JobState
  <2>. QED
    BY <1>1, <1>2, <2>1, <2>2, <2>3, <2>4, RunStep
<1>9. CASE WriteFailed(w)
  <2>1. /\ wpc' = [wpc EXCEPT ![w] = "settle"] /\ state' = [state EXCEPT ![cur[w]] = "failed"]
        /\ pid' = pid
        /\ UNCHANGED <<lock, spc, filing, cur, stale, attempt, trainers, crashes, ahead>>
    BY <1>9 DEF WriteFailed, Goto, Write
  <2>2. ~ (crashes = 0 /\ trainers # {})
    BY <1>4, <1>9 DEF WriteFailed
  <2>3. "settle" \in RunJob \ {"launch", "mark"} /\ "failed" \in JobState
    BY DEF RunJob, JobState
  <2>. QED
    BY <1>1, <1>2, <2>1, <2>2, <2>3, RunStep
<1>. QED
  BY <1>5, <1>6, <1>7, <1>8, <1>9

\* The two steps with which a worker leaves its job are LeaveSteps.
LEMMA EndSteps ==
  ASSUME IInv, NEW w \in Workers, Finish(w) \/ Settle(w)
  PROVE  IInv'
<1>1. CASE Finish(w)
  <2>1. /\ wpc[w] = "finish" /\ Leave(w) /\ state' = [state EXCEPT ![cur[w]] = "succeeded"]
        /\ UNCHANGED <<lock, spc, filing, stale, pid, attempt, trainers, crashes, ahead>>
    BY <1>1 DEF Finish, Write
  <2>. QED
    BY <2>1, LeaveStep DEF Terminal
<1>2. CASE Settle(w)
  <2>1. /\ wpc[w] = "settle" /\ Leave(w)
        /\ UNCHANGED <<state, lock, spc, filing, stale, pid, attempt, trainers, crashes, ahead>>
    BY <1>2 DEF Settle
  <2>2. state[cur[w]] \in Terminal /\ state \in [Job -> JobState]
    BY <2>1 DEF IInv, Types, CurrentOK, Terminal
  <2>3. state' = [state EXCEPT ![cur[w]] = state[cur[w]]]
    BY <2>1, <2>2
  <2>. QED
    BY <2>1, <2>2, <2>3, LeaveStep
<1>. QED
  BY <1>1, <1>2

\* An empty queue without processes satisfies the invariant.
LEMMA InitInvariant == Init => IInv
<1>. SUFFICES ASSUME Init PROVE IInv
  OBVIOUS
<1>. USE JobQueueAssumption DEF Init
<1>1. Types
  BY DEF Types, Job, JobState, Submitting, Working, RunJob
<1>2. Owned /\ FilingOK /\ CurrentOK /\ StaleOK
  BY DEF Owned, FilingOK, CurrentOK, StaleOK, RunJob, JobsIn
<1>3. RunningIsCurrent /\ AheadOK /\ InOrder
  BY DEF RunningIsCurrent, AheadOK, InOrder, RunJob, JobsIn
<1>4. AttemptsOK /\ TrainersOK
  BY DEF AttemptsOK, TrainersOK, Launched
<1>. QED
  BY <1>1, <1>2, <1>3, <1>4 DEF IInv

\* Every step of every process preserves the invariant.
LEMMA StepInvariant == IInv /\ [Next]_queueVars => IInv'
<1>. SUFFICES ASSUME IInv, [Next]_queueVars PROVE IInv'
  OBVIOUS
<1>1. ASSUME NEW s \in Submitters, NEW j \in Job, Submit(s, j) PROVE IInv'
  BY <1>1, SubmitStep
<1>2. ASSUME NEW s \in Submitters, SubmitterStep(s) PROVE IInv'
  BY <1>2, WriteQueuedStep, ProbeStep, ProbeEndStep, SpawnStep DEF SubmitterStep
<1>3. ASSUME NEW w \in Workers, WorkerStep(w) PROVE IInv'
  <2>1. CASE TakeLock(w) \/ Scan(w) \/ Requeue(w) \/ RecoverEnd(w)
    BY <2>1, TakeLockStep, ScanStep, RequeueStep, RecoverEndStep
  <2>2. CASE Pick(w) \/ Drained(w) \/ Close(w) \/ Launch(w)
    BY <2>2, PickStep, DrainedStep, CloseStep, LaunchStep
  <2>. QED
    BY <1>3, <2>1, <2>2, RunJobSteps, EndSteps DEF WorkerStep, QueueStep, RegistryStep
<1>4. ASSUME NEW w \in Workers, Crash(w) PROVE IInv'
  BY <1>4, CrashStep
<1>5. ASSUME NEW t \in trainers, TrainerExit(t) PROVE IInv'
  BY <1>5, TrainerExitStep
<1>6. ASSUME NEW j \in Job, Cancel(j) PROVE IInv'
  BY <1>6, CancelStep
<1>7. CASE UNCHANGED queueVars
  <2>. USE <1>7 DEF queueVars
  <2>1. Types' /\ Owned' /\ FilingOK' /\ CurrentOK' /\ StaleOK'
    BY DEF IInv, Types, Owned, FilingOK, CurrentOK, StaleOK, JobsIn
  <2>2. RunningIsCurrent' /\ AttemptsOK' /\ AheadOK' /\ InOrder' /\ TrainersOK'
    BY DEF IInv, RunningIsCurrent, AttemptsOK, AheadOK, InOrder, TrainersOK, Launched,
       JobsIn, Child
  <2>. QED
    BY <2>1, <2>2 DEF IInv
<1>. QED
  BY <1>1, <1>2, <1>3, <1>4, <1>5, <1>6, <1>7 DEF Next

\* The invariant holds in every state that the queue reaches.
THEOREM Invariant == Spec => []IInv
  BY InitInvariant, StepInvariant, PTL DEF Spec

-----------------------------------------------------------------------------

\* Every variable of the queue keeps its type, and the lock is held by the one process that
\* acts as its holder, whatever processes run and die.
THEOREM TypeCorrect == Spec => []TypeOK
<1>1. IInv => TypeOK
  BY DEF IInv, TypeOK
<1>. QED
  BY <1>1, Invariant, PTL

\* A worker past its recovery never has a job marked running but its own: with any
\* number of jobs, submitters, workers and deaths of workers.
THEOREM OneJobRuns == Spec => []RunningIsCurrent
<1>1. IInv => RunningIsCurrent
  BY DEF IInv
<1>. QED
  BY <1>1, Invariant, PTL

\* The worker never starts a job while one is queued that came before it.
THEOREM FirstComeFirstServed == Spec => []InOrder
<1>1. IInv => InOrder
  BY DEF IInv
<1>. QED
  BY <1>1, Invariant, PTL

\* No job is trained more often than once, plus once for every worker that died.
THEOREM FewAttempts == Spec => []AttemptsBounded
<1>1. IInv => AttemptsBounded
  BY DEF IInv, AttemptsOK, AttemptsBounded
<1>. QED
  BY <1>1, Invariant, PTL

\* As long as no worker has died there are never two trainers, however many
\* processes submit, cancel, probe the lock and start workers.
THEOREM OneTrainerAtATime == Spec => []OneTrainerWhileNoneDies
<1>1. ASSUME IInv PROVE OneTrainerWhileNoneDies
  <2>. SUFFICES ASSUME crashes = 0 PROVE Cardinality(trainers) <= 1
    BY DEF OneTrainerWhileNoneDies, OneTrainer
  <2>1. CASE trainers = {}
    BY <2>1, FS_EmptySet
  <2>2. CASE trainers # {}
    <3>1. PICK w \in Workers : trainers = {Child(w)}
      BY <1>1, <2>2 DEF IInv, TrainersOK
    <3>2. Cardinality({Child(w)}) = 1
      BY FS_Singleton
    <3>. QED
      BY <3>1, <3>2
  <2>. QED
    BY <2>1, <2>2
<1>. QED
  BY <1>1, Invariant, PTL

\* Neither recovery, nor a second worker, nor a late submission takes a job that
\* has succeeded or failed back: only cancel writes over its state.
THEOREM EndedJobsStayEnded == Spec => EndedStaysEnded
<1>. DEFINE Kept(j) == state[j] \in {"succeeded", "failed"} =>
                         state'[j] \in {state[j], "cancelled"}
<1>1. ASSUME IInv, [Next]_queueVars, NEW j \in Job PROVE Kept(j)
  <2>. SUFFICES ASSUME state[j] \in {"succeeded", "failed"}, state'[j] # state[j]
                PROVE  state'[j] = "cancelled"
    OBVIOUS
  <2>. USE <1>1 DEF IInv, Types
  <2>1. CASE \E s \in Submitters, i \in Job : Submit(s, i)
    BY <2>1, JobQueueAssumption DEF Submit, Job
  <2>2. CASE \E s \in Submitters : SubmitterStep(s)
    <3>1. PICK s \in Submitters : WriteQueued(s)
      BY <2>2 DEF SubmitterStep, Probe, ProbeEnd, Spawn
    <3>. QED
      BY <3>1 DEF WriteQueued, FilingOK, JobsIn
  <2>3. CASE \E w \in Workers : WorkerStep(w)
    <3>1. PICK w \in Workers : WorkerStep(w)
      BY <2>3
    <3>2. CASE Requeue(w)
      <4>1. Min(stale[w]) \in stale[w]
        BY <3>2, LeastJob DEF Requeue
      <4>. QED
        BY <3>2, <4>1 DEF Requeue, StaleOK
    <3>3. CASE Mark(w) \/ Package(w) \/ Gate(w) \/ Finish(w) \/ WriteFailed(w)
      <4>1. state[cur[w]] \in {"queued", "running", "cancelled"} /\ cur[w] \in Job
        BY <3>3 DEF Mark, Package, Gate, Finish, WriteFailed, CurrentOK, RunJob
      <4>2. \A i \in Job \ {cur[w]} : state'[i] = state[i]
        BY <3>3 DEF Mark, Package, Gate, Finish, WriteFailed, Write
      <4>. QED
        BY <4>1, <4>2
    <3>. QED
      BY <3>1, <3>2, <3>3 DEF WorkerStep, QueueStep, RegistryStep, TakeLock, Scan,
         RecoverEnd, Pick, Drained, Close, Launch, LaunchFails, MarkRaises, Collect,
         Evaluate, Verdict, Settle
  <2>4. CASE \E w \in Workers : Crash(w)
    BY <2>4 DEF Crash
  <2>5. CASE \E t \in trainers : TrainerExit(t)
    BY <2>5 DEF TrainerExit
  <2>6. CASE \E i \in Job : Cancel(i)
    BY <2>6 DEF Cancel
  <2>7. CASE UNCHANGED queueVars
    BY <2>7 DEF queueVars
  <2>. QED
    BY <2>1, <2>2, <2>3, <2>4, <2>5, <2>6, <2>7 DEF Next
<1>2. IInv /\ [Next]_queueVars => [\A j \in Job : Kept(j)]_state
  BY <1>1
<1>. QED
  BY <1>2, Invariant, PTL DEF Spec, EndedStaysEnded

=============================================================================
