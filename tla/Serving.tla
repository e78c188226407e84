------------------------------- MODULE Serving -------------------------------
(***************************************************************************)
(* The local backend: the commands that start, stop and restart the        *)
(* platform's services on one machine, and the gate, which serves two      *)
(* versions of a model for the time of an evaluation.                      *)
(*                                                                         *)
(* Commands are processes of their own that share the service processes,   *)
(* the ports, the file run/state.json and the engine_runs table, and hold  *)
(* no lock.  What they read they read once: a command works on its own     *)
(* list of services, which it writes over the file, in place.              *)
(***************************************************************************)
EXTENDS Naturals, Sequences, SequencesExt, FiniteSets

CONSTANTS
  Models,       \* sequence: the Model documents that need an engine, as in the file
  Before,       \* sequence: services up starts before the engines ("tracing")
  After,        \* sequence: services up starts after them ("gateway", "console")
  GateRuns,     \* sequence: processes of a gate, <<"candidate", "incumbent">> or,
                \* for an engine that serves both adapters at once, <<"pair">>
  EnginePorts,  \* the range that pick_port searches
  FixedPort,    \* [service |-> port]: the ports that the configuration gives
  GatewayPort,  \* the gateway's port, which no engine is to pick
  Cmds,         \* processes that run a command
  MaxCommands, MaxVersion, MaxTrouble   \* bounds; see Trouble for the last

Distinct(names) == \A i, j \in DOMAIN names : names[i] = names[j] => i = j

\* No two services have one name, and up has something to start.  A gate's processes
\* have no port of their own in the configuration.
ASSUME ServingAssumption ==
  /\ \A names \in {Models, Before, After, GateRuns} : names \in Seq(STRING) /\ Distinct(names)
  /\ ToSet(Before) \cap ToSet(Models) = {} /\ (ToSet(Before) \cup ToSet(Models)) \cap ToSet(After) = {}
  /\ ToSet(GateRuns) \cap (ToSet(Before) \cup ToSet(Models) \cup ToSet(After)) = {}
  /\ Models \o After # << >> /\ GateRuns # << >>
  /\ EnginePorts \subseteq Nat /\ GatewayPort \in Nat
  /\ FixedPort \in [DOMAIN FixedPort -> Nat] /\ DOMAIN FixedPort \cap ToSet(GateRuns) = {}
  /\ MaxCommands \in Nat /\ MaxVersion \in Nat /\ MaxTrouble \in Nat

VARIABLES
  procs,      \* sequence of the service processes ever started; a pid is an index
  stateFile,  \* the services last written to <storage>/run/state.json, << >> for no file
  file,       \* what that file is now: its text, and the commands that have it open
  openRuns,   \* [model -> number of rows of engine_runs that are not stopped]
  live,       \* [model -> live version in the registry, 0 for none]
  cmd,        \* [Cmds -> what the process does]
  past,       \* what went wrong so far: a set of the faults below
  overlaps,   \* the pairs of kinds of commands that ran at the same time so far
  commands, kills, exits   \* counters for the bounds

vars == <<procs, stateFile, file, openRuns, live, cmd, past, overlaps, commands, kills, exits>>

Model   == ToSet(Models)
Kind    == {"none", "up", "down", "restart", "gate"}
Faults  == {"killed", "upFailed", "restartFailed"}
Process == [svc : STRING, port : Nat, adapter : Nat, st : {"starting", "ready", "exited"}]
Service == [svc : STRING, port : Nat, pid : Nat]
\* "mixed" is one text over the longer rest of another.  Only a whole one can be parsed.
File    == [text : {"whole", "empty", "mixed"}, open : SUBSET Cmds]

\* A command in progress: the step it is at, the index of its plan, its list of
\* services, the ports it takes for taken, and the port and adapter of the next engine.
Idle == [kind |-> "none", pc |-> "idle", at |-> 0, mine |-> << >>, taken |-> {},
         port |-> 0, adapter |-> 0]

Readable        == file.text = "whole"
\* What a command that reads the file gets; of another text it gets an exception.
Recorded        == IF Readable THEN ToSet(stateFile) ELSE {}
Alive(pid)      == procs[pid].st # "exited"
Answering(port) == {pid \in DOMAIN procs : procs[pid].st = "ready" /\ procs[pid].port = port}
\* A service is asked at its URL, whichever process answers there.
Healthy(s)      == Answering(s.port) # {}
PortFree(port)  == Answering(port) = {}

\* What `ookami status` says of a service.
StatusOf(s) == IF ~Alive(s.pid) THEN "exited" ELSE IF Healthy(s) THEN "ready" ELSE "starting"

Stopped(pids) == [p \in DOMAIN procs |->
                    IF p \in pids THEN [procs[p] EXCEPT !.st = "exited"] ELSE procs[p]]

-----------------------------------------------------------------------------
(* The plan of a command: which service it starts or waits for, in order.  *)

StartAndWait(names) ==
  [i \in 1..2 * Len(names) |-> [do |-> IF i % 2 = 1 THEN "pick" ELSE "wait", svc |-> names[(i + 1) \div 2]]]

StartThenWait(names) ==
  [i \in 1..2 * Len(names) |-> IF i <= Len(names) THEN [do |-> "pick", svc |-> names[i]]
                               ELSE [do |-> "wait", svc |-> names[i - Len(names)]]]

UpPlan   == StartAndWait(Before) \o (StartThenWait(Models) \o StartAndWait(After))
GatePlan == StartThenWait(GateRuns)
Plan(c)  == IF cmd[c].kind = "gate" THEN GatePlan ELSE UpPlan

Current(c) == Plan(c)[cmd[c].at].svc
Mine(c)    == CHOOSE s \in ToSet(cmd[c].mine) : s.svc = Current(c)

\* The command after item i of its plan: up is done, a gate evaluates.
Following(c, i) ==
  IF i < Len(Plan(c)) THEN [cmd[c] EXCEPT !.at = i + 1, !.pc = Plan(c)[i + 1].do]
  ELSE IF cmd[c].kind = "gate" THEN [cmd[c] EXCEPT !.pc = "evaluating"] ELSE Idle

Step(c, to)  == cmd' = [cmd EXCEPT ![c].pc = to]
Busy         == {c \in Cmds : cmd[c].kind # "none"}
Fault(fs)    == past' = past \cup fs

\* Kills, exits and overlaps so far, which are bounded together.
Trouble == kills + exits + Cardinality(overlaps)

\* A command of kind k starts, beside those that run.
Begin(c, k) ==
  /\ cmd[c] = Idle /\ commands < MaxCommands
  /\ Busy # {} => Trouble < MaxTrouble
  /\ commands' = commands + 1
  /\ overlaps' = overlaps \cup {{k, cmd[d].kind} : d \in Busy}
  /\ UNCHANGED <<past, kills, exits>>

-----------------------------------------------------------------------------
(* Service processes.                                                      *)

\* The server binds its port, or exits because another one has it.
Bind(pid) ==
  /\ procs[pid].st = "starting"
  /\ procs' = [procs EXCEPT ![pid].st = IF PortFree(procs[pid].port) THEN "ready" ELSE "exited"]
  /\ UNCHANGED <<stateFile, file, openRuns, live, cmd, past, overlaps, commands, kills, exits>>

\* A service ends by itself.
Exit(pid) ==
  /\ Alive(pid) /\ Trouble < MaxTrouble
  /\ procs' = Stopped({pid})
  /\ exits' = exits + 1
  /\ UNCHANGED <<stateFile, file, openRuns, live, cmd, past, overlaps, commands, kills>>

-----------------------------------------------------------------------------
(* up, and the engines of a gate.                                          *)

\* "already up" is all that up says while a recorded service runs.  It, down and a gate
\* raise before they change anything where the file cannot be parsed.
Up(c) ==
  /\ Readable
  /\ \A s \in ToSet(stateFile) : ~Alive(s.pid)
  /\ Begin(c, "up")
  /\ cmd' = [cmd EXCEPT ![c] = [Idle EXCEPT !.kind = "up", !.at = 1, !.pc = "pick",
                                            !.taken = {GatewayPort}]]
  /\ UNCHANGED <<procs, stateFile, file, openRuns, live>>

\* Only the worker gates versions, one at a time.
ServePair(c) ==
  /\ Readable
  /\ \A d \in Busy : cmd[d].kind # "gate"
  /\ Begin(c, "gate")
  /\ cmd' = [cmd EXCEPT ![c] = [Idle EXCEPT !.kind = "gate", !.at = 1, !.pc = "pick",
                                            !.taken = {s.port : s \in ToSet(stateFile)}]]
  /\ UNCHANGED <<procs, stateFile, file, openRuns, live>>

\* Mutant: a port that the command has given away and nobody has bound yet is free.
AnyFreePort(taken) == {p \in EnginePorts : PortFree(p) /\ \A q \in EnginePorts : q < p => ~PortFree(q)}

\* The first free port of the range that the command has not given away.
PickPort(taken) ==
  {p \in EnginePorts \ taken : PortFree(p) /\ \A q \in EnginePorts \ taken : q < p => ~PortFree(q)}

\* A service with a port of its own takes it; up looks whether the gateway's and
\* the console's are free, and leaves the tracing collector's and the engines' to them.
PortFor(c) ==
  LET s == Current(c) IN
  IF s \notin DOMAIN FixedPort THEN PickPort(cmd[c].taken)
  ELSE {p \in {FixedPort[s]} : s \in ToSet(After) => PortFree(p)}

\* The port and, for an engine, the live version are read; the command line is built.
Pick(c) ==
  /\ cmd[c].pc = "pick"
  /\ \E p \in PortFor(c) :
       cmd' = [cmd EXCEPT ![c] = [cmd[c] EXCEPT !.pc = "start", !.port = p, !.taken = @ \cup {p},
                 !.adapter = IF Current(c) \in Model THEN live[Current(c)] ELSE 0]]
  /\ UNCHANGED <<procs, stateFile, file, openRuns, live, past, overlaps, commands, kills, exits>>

Launched(c, name) == [svc |-> name, port |-> cmd[c].port, adapter |-> cmd[c].adapter,
                      st |-> "starting"]

Start(c) ==
  /\ cmd[c].pc = "start" /\ cmd[c].kind # "restart"
  /\ procs' = Append(procs, Launched(c, Current(c)))
  /\ LET s == [svc |-> Current(c), port |-> cmd[c].port, pid |-> Len(procs) + 1]
         new == [cmd[c] EXCEPT !.mine = Append(@, s)]
     IN cmd' = [cmd EXCEPT ![c] = IF new.kind = "up" THEN [new EXCEPT !.pc = "write"]
                                  ELSE [Following(c, new.at) EXCEPT !.mine = new.mine]]
  /\ UNCHANGED <<stateFile, file, openRuns, live, past, overlaps, commands, kills, exits>>

\* write_text opens the file, which empties it.
Truncate(c) ==
  /\ cmd[c].pc = "write"
  /\ file' = [text |-> "empty", open |-> file.open \cup {c}]
  /\ Step(c, "rewrite")
  /\ UNCHANGED <<procs, stateFile, openRuns, live, past, overlaps, commands, kills, exits>>

\* up and restart_engine write the list they hold, whatever the file says by now; into
\* nothing, if it was removed since they opened it.  Over a text that another command has
\* written meanwhile, what is longer of that text stays behind the new one.
Write(c) ==
  /\ cmd[c].pc = "rewrite"
  /\ IF c \in file.open
     THEN /\ stateFile' = cmd[c].mine
          /\ \E text \in IF file.text = "empty" THEN {"whole"} ELSE {"whole", "mixed"} :
               file' = [text |-> text, open |-> file.open \ {c}]
     ELSE UNCHANGED <<stateFile, file>>
  /\ cmd' = [cmd EXCEPT ![c] = IF @.kind = "up" THEN Following(c, @.at) ELSE [@ EXCEPT !.pc = "wait"]]
  /\ UNCHANGED <<procs, openRuns, live, past, overlaps, commands, kills, exits>>

\* Mutant: a service that runs is waited for no longer.
WaitAlive(c) ==
  /\ cmd[c].pc = "wait"
  /\ Alive(Mine(c).pid)
  /\ cmd' = [cmd EXCEPT ![c] =
               IF @.kind = "restart" THEN Idle
               ELSE IF @.kind = "up" /\ Current(c) \in Model THEN [@ EXCEPT !.pc = "closeRuns"]
               ELSE Following(c, @.at)]
  /\ UNCHANGED <<procs, stateFile, file, openRuns, live, past, overlaps, commands, kills, exits>>

\* The service answers.  up opens a run for an engine; restart_engine is done.
WaitReady(c) ==
  /\ cmd[c].pc = "wait"
  /\ Healthy(Mine(c))
  /\ cmd' = [cmd EXCEPT ![c] =
               IF @.kind = "restart" THEN Idle
               ELSE IF @.kind = "up" /\ Current(c) \in Model THEN [@ EXCEPT !.pc = "closeRuns"]
               ELSE Following(c, @.at)]
  /\ UNCHANGED <<procs, stateFile, file, openRuns, live, past, overlaps, commands, kills, exits>>

\* Mutant: engine_started leaves an open run open.
KeepRuns(c) ==
  /\ cmd[c].pc = "closeRuns"
  /\ Step(c, "openRun")
  /\ UNCHANGED <<procs, stateFile, file, openRuns, live, past, overlaps, commands, kills, exits>>

\* engine_started: two statements, each a transaction of its own.
CloseRuns(c) ==
  /\ cmd[c].pc = "closeRuns"
  /\ openRuns' = [openRuns EXCEPT ![Current(c)] = 0]
  /\ Step(c, "openRun")
  /\ UNCHANGED <<procs, stateFile, file, live, past, overlaps, commands, kills, exits>>

OpenRun(c) ==
  /\ cmd[c].pc = "openRun"
  /\ openRuns' = [openRuns EXCEPT ![Current(c)] = @ + 1]
  /\ cmd' = [cmd EXCEPT ![c] = Following(c, @.at)]
  /\ UNCHANGED <<procs, stateFile, file, live, past, overlaps, commands, kills, exits>>

\* A command that ends has the file open no longer.
Close(c) == file' = [file EXCEPT !.open = @ \ {c}]

\* Mutant: what had been started runs on.
FailAndLeave(c) ==
  /\ cmd[c].kind \in {"up", "gate"} /\ cmd[c].pc # "stop"
  /\ cmd' = [cmd EXCEPT ![c].pc = "stop", ![c].mine = << >>]
  /\ Close(c)
  /\ Fault(IF cmd[c].kind = "up" THEN {"upFailed"} ELSE {})
  /\ UNCHANGED <<procs, stateFile, openRuns, live, overlaps, commands, kills, exits>>

\* Anything raised in up or in a gate, the interrupt of its terminal included: a port
\* is busy, no launch command, the service exited or is not ready in time.  (An interrupt
\* between Popen and the append of its service to the list is left out.)
Fail(c) ==
  /\ cmd[c].kind \in {"up", "gate"} /\ cmd[c].pc # "stop"
  /\ Step(c, "stop")
  /\ Close(c)
  /\ Fault(IF cmd[c].kind = "up" THEN {"upFailed"} ELSE {})
  /\ UNCHANGED <<procs, stateFile, openRuns, live, overlaps, commands, kills, exits>>

\* The evaluation is over: a gate stops what it started, as after a failure.
Evaluated(c) ==
  /\ cmd[c].pc = "evaluating"
  /\ Step(c, "stop")
  /\ UNCHANGED <<procs, stateFile, file, openRuns, live, past, overlaps, commands, kills, exits>>

-----------------------------------------------------------------------------
(* down, and the end of a failed up or of a gate.                          *)

Down(c) ==
  /\ Readable
  /\ Begin(c, "down")
  /\ cmd' = [cmd EXCEPT ![c] = [Idle EXCEPT !.kind = "down", !.pc = "stop", !.mine = stateFile]]
  /\ UNCHANGED <<procs, stateFile, file, openRuns, live>>

\* Mutant: the run of an engine stays open.
StopUncounted(c) ==
  /\ cmd[c].pc = "stop" /\ cmd[c].mine # << >>
  /\ procs' = Stopped({Last(cmd[c].mine).pid})
  /\ cmd' = [cmd EXCEPT ![c].mine = Front(@)]
  /\ UNCHANGED <<stateFile, file, openRuns, live, past, overlaps, commands, kills, exits>>

\* The last service of the list stops; down closes the run of an engine.
StopLast(c) ==
  /\ cmd[c].pc = "stop" /\ cmd[c].mine # << >>
  /\ LET s == Last(cmd[c].mine) IN
       /\ procs' = Stopped({s.pid})
       /\ openRuns' = [m \in Model |-> IF cmd[c].kind = "down" /\ m = s.svc THEN 0 ELSE openRuns[m]]
  /\ cmd' = [cmd EXCEPT ![c].mine = Front(@)]
  /\ UNCHANGED <<stateFile, file, live, past, overlaps, commands, kills, exits>>

\* up and down remove the file, whoever wrote it.
Unlink(c) ==
  /\ cmd[c].pc = "stop" /\ cmd[c].mine = << >>
  /\ IF cmd[c].kind = "gate" THEN UNCHANGED <<stateFile, file>>
     ELSE stateFile' = << >> /\ file' = [text |-> "whole", open |-> {}]
  /\ cmd' = [cmd EXCEPT ![c] = Idle]
  /\ UNCHANGED <<procs, openRuns, live, past, overlaps, commands, kills, exits>>

-----------------------------------------------------------------------------
(* promote, from the command line or the console: the registry's change,   *)
(* then restart_engine.                                                    *)

Promote(c) ==
  /\ Begin(c, "restart")
  /\ \E i \in DOMAIN Models : \E v \in 1..MaxVersion :
       /\ v # live[Models[i]]
       /\ live' = [live EXCEPT ![Models[i]] = v]
       /\ cmd' = [cmd EXCEPT ![c] = [Idle EXCEPT !.kind = "restart", !.pc = "read",
                    !.at = CHOOSE k \in DOMAIN UpPlan : UpPlan[k] = [do |-> "wait", svc |-> Models[i]]]]
  /\ UNCHANGED <<procs, stateFile, file, openRuns>>

\* The engine's entry in the file, if its process runs: else up will serve the version.
ReadState(c) ==
  /\ cmd[c].pc = "read" /\ Readable
  /\ cmd' = [cmd EXCEPT ![c] =
               IF \E s \in ToSet(stateFile) : s.svc = Current(c) /\ Alive(s.pid)
               THEN [@ EXCEPT !.pc = "launch", !.mine = stateFile] ELSE Idle]
  /\ UNCHANGED <<procs, stateFile, file, openRuns, live, past, overlaps, commands, kills, exits>>

\* Mutant: the new engine gets a port of its own, as in up.
LaunchElsewhere(c) ==
  /\ cmd[c].pc = "launch"
  /\ \E p \in PickPort({GatewayPort}) :
       cmd' = [cmd EXCEPT ![c] = [@ EXCEPT !.pc = "swap", !.port = p, !.adapter = live[Current(c)]]]
  /\ UNCHANGED <<procs, stateFile, file, openRuns, live, past, overlaps, commands, kills, exits>>

\* Mutant: the engine is restarted with the base model.
LaunchBase(c) ==
  /\ cmd[c].pc = "launch"
  /\ cmd' = [cmd EXCEPT ![c] = [@ EXCEPT !.pc = "swap", !.port = Mine(c).port]]
  /\ UNCHANGED <<procs, stateFile, file, openRuns, live, past, overlaps, commands, kills, exits>>

\* The live version is read and the command line built on the engine's port.
Launch(c) ==
  /\ cmd[c].pc = "launch"
  /\ cmd' = [cmd EXCEPT ![c] = [@ EXCEPT !.pc = "swap", !.port = Mine(c).port,
                                         !.adapter = live[Current(c)]]]
  /\ UNCHANGED <<procs, stateFile, file, openRuns, live, past, overlaps, commands, kills, exits>>

StopOld(c) ==
  /\ cmd[c].pc = "swap"
  /\ procs' = Stopped({Mine(c).pid})
  /\ Step(c, "start")
  /\ UNCHANGED <<stateFile, file, openRuns, live, past, overlaps, commands, kills, exits>>

StartNew(c) ==
  /\ cmd[c].pc = "start" /\ cmd[c].kind = "restart"
  /\ procs' = Append(procs, Launched(c, Current(c)))
  /\ cmd' = [cmd EXCEPT ![c] = [cmd[c] EXCEPT !.pc = "write", !.mine =
               [i \in DOMAIN @ |-> IF @[i] = Mine(c) THEN [@[i] EXCEPT !.pid = Len(procs) + 1] ELSE @[i]]]]
  /\ UNCHANGED <<stateFile, file, openRuns, live, past, overlaps, commands, kills, exits>>

\* The file cannot be parsed, the engine can't serve the version, or its new process is
\* not ready: the command ends and the version stays live.
RestartFails(c) ==
  /\ cmd[c].kind = "restart"
  /\ \/ cmd[c].pc \in {"launch", "wait"}
     \/ cmd[c].pc = "read" /\ ~Readable
  /\ cmd' = [cmd EXCEPT ![c] = Idle]
  /\ Fault({"restartFailed"})
  /\ UNCHANGED <<procs, stateFile, file, openRuns, live, overlaps, commands, kills, exits>>

-----------------------------------------------------------------------------
\* The command's process dies on the spot.
Kill(c) ==
  /\ c \in Busy /\ Trouble < MaxTrouble
  /\ cmd' = [cmd EXCEPT ![c] = Idle]
  /\ Close(c)
  /\ kills' = kills + 1
  /\ Fault({"killed"})
  /\ UNCHANGED <<procs, stateFile, openRuns, live, overlaps, commands, exits>>

Init ==
  /\ procs = << >> /\ stateFile = << >> /\ file = [text |-> "whole", open |-> {}]
  /\ openRuns = [m \in Model |-> 0] /\ live = [m \in Model |-> 0]
  /\ cmd = [c \in Cmds |-> Idle]
  /\ past = {} /\ overlaps = {} /\ commands = 0 /\ kills = 0 /\ exits = 0

Run(c) ==
  \/ Pick(c) \/ Start(c) \/ Truncate(c) \/ Write(c) \/ WaitReady(c) \/ CloseRuns(c) \/ OpenRun(c)
  \/ Fail(c) \/ Evaluated(c) \/ StopLast(c) \/ Unlink(c)
  \/ ReadState(c) \/ Launch(c) \/ StopOld(c) \/ StartNew(c) \/ RestartFails(c)

Next ==
  \/ \E c \in Cmds : Up(c) \/ ServePair(c) \/ Down(c) \/ Promote(c) \/ Run(c) \/ Kill(c)
  \/ \E pid \in DOMAIN procs : Bind(pid) \/ Exit(pid)

Spec == Init /\ [][Next]_vars

-----------------------------------------------------------------------------
\* The process that an entry names is of its service and was started on its port.
Entry(s) ==
  s \in Service /\ s.pid \in DOMAIN procs /\ procs[s.pid].svc = s.svc /\ procs[s.pid].port = s.port

\* Type invariant; whatever commands overlap, fail or are killed, an entry of the file or of
\* a command's list speaks of the process that it names.  (runtime.py Service)
ServingTypeOK ==
  /\ \A pid \in DOMAIN procs : procs[pid] \in Process
  /\ \A s \in ToSet(stateFile) \cup UNION {ToSet(cmd[c].mine) : c \in Cmds} : Entry(s)
  /\ file \in File
  /\ openRuns \in [Model -> Nat] /\ live \in [Model -> 0..MaxVersion]
  /\ \A c \in Cmds : cmd[c].kind \in Kind /\ cmd[c].at \in {0} \cup DOMAIN Plan(c)
  /\ past \subseteq Faults

Quiet       == Busy = {}
Never(fs)   == past \cap fs = {}
\* No two commands of kinds from ks ran at the same time.
Apart(ks)   == \A o \in overlaps : ~(o \subseteq ks)
Lost        == {pid \in DOMAIN procs : Alive(pid) /\ \A c \in Cmds :
                  \A s \in Recorded \cup ToSet(cmd[c].mine) : s.pid # pid}
OfGate(pid) == procs[pid].svc \in ToSet(GateRuns)
Platform    == {"up", "down", "restart"}
\* c is going to write the file, or to remove it.
Renews(c)   == cmd[c].pc = "rewrite" \/ (cmd[c].kind # "gate" /\ cmd[c].pc = "stop")
\* The file cannot be parsed and nobody under way renews it.
Torn        == ~Readable /\ \A c \in Cmds : ~Renews(c)

\* "Stops everything `ookami up` started": while up, down and promote run one at a time,
\* every running service is in state.json or in the list of a command still under way,
\* whatever failed or was interrupted.  A command that is killed loses one process at
\* most, the one it had started and not written down; a killed gate loses its pair.  But
\* one that is killed between emptying state.json and writing it loses all the services
\* there are, and nothing else leaves a file that cannot be parsed.
\* (runtime.py write_state, up, down, restart_engine; gate.py serve_pair)
LostProcesses ==
  /\ Apart(Platform) =>
       /\ Torn => kills > 0
       /\ Cardinality({pid \in Lost : ~OfGate(pid)})
            <= kills + (IF Torn THEN Len(Before) + Len(Models) + Len(After) ELSE 0)
  /\ Cardinality({pid \in Lost : OfGate(pid)}) <= kills * Len(GateRuns)

\* When nothing is under way, state.json can be read and the services in it are ready: the
\* process that up or restart_engine recorded runs, and a server answers at its port.
UpMeansReady ==
  Quiet /\ exits = 0 /\ Never({"killed", "restartFailed"}) /\ overlaps = {} =>
    Readable /\ \A s \in ToSet(stateFile) : StatusOf(s) = "ready"

\* "Restart a running Model's engine so it serves the current live version": when
\* nothing is under way, a running engine serves the registry's live version, if every
\* promotion ran apart from other commands, to its end, and could start its engine.
EngineServesLive ==
  Quiet /\ Never({"killed", "restartFailed"}) /\ (\A o \in overlaps : "restart" \notin o) =>
    \A s \in Recorded :
      s.svc \in Model /\ Alive(s.pid) => procs[s.pid].adapter = live[s.svc]

\* Engine time is counted once: a model never has two open runs, whatever fails, is
\* killed or overlaps, except two ups.  (keys.py engine_started)
OneOpenRun == Apart({"up"}) => \A m \in Model : openRuns[m] <= 1

\* A model's time counts exactly from a successful up to the next down.
RunsMatchServices ==
  Quiet /\ Never({"killed", "upFailed"}) /\ Apart(Platform) =>
    \A m \in Model : openRuns[m] = Cardinality({s \in Recorded : s.svc = m})

\* What a gate evaluates is what it started: nobody else answers at its ports, unless
\* a command that starts engines ran at the same time, or earlier ones lost an engine
\* that was still starting.
GateMeasuresItsOwn ==
  Never({"killed"}) /\ Apart(Platform) /\ Apart({"gate", "up"}) =>
    \A c \in Cmds : cmd[c].pc = "evaluating" =>
      \A s \in ToSet(cmd[c].mine) : Answering(s.port) \subseteq {s.pid}
=============================================================================
