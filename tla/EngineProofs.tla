---------------------------- MODULE EngineProofs ----------------------------
(***************************************************************************)
(* More theorems about Serving: the promises about engines.  Their time is *)
(* counted from up to down, they serve the live version, a gate measures   *)
(* the engines it started, and what is recorded as up is ready.            *)
(*                                                                         *)
(* Each has an invariant of its own, which says what holds while commands  *)
(* are under way and rests on the invariant of ServingProofs.              *)
(***************************************************************************)
EXTENDS ServingProofs

-----------------------------------------------------------------------------
(* What each action does to its command, field by field                    *)

Same5(k, l) == l.kind = k.kind /\ l.mine = k.mine /\ l.taken = k.taken /\ l.port = k.port /\ l.adapter = k.adapter

\* A command goes on to the next item of its plan, or up is done.
LEMMA Advances ==
  ASSUME NEW k \in Command, k.kind \in {"up", "gate"}, k.at \in DOMAIN PlanFor(k.kind)
  PROVE  LET l == FollowingOf(k)
         IN  \/ l = Idle /\ k.kind = "up" /\ k.at = Len(UpPlan)
             \/ /\ Same5(k, l)
                /\ \/ l.at = k.at + 1 /\ l.pc \in {"pick", "wait"}
                   \/ l.at = k.at /\ l.pc = "evaluating" /\ k.kind = "gate" /\ k.at = Len(GatePlan)
<1>. DEFINE l == FollowingOf(k)
            n == Len(PlanFor(k.kind))
<1>1. n \in Nat /\ DOMAIN PlanFor(k.kind) = 1..n /\ k.at \in Nat /\ k.at <= n
  BY PlanFacts DEF Command
<1>2. l.pc \in {"pick", "wait", "evaluating", "idle"}
  BY FollowingPlace
<1>3. CASE k.at < n
  <2>. DEFINE a == k.at + 1
              b == PlanFor(k.kind)[k.at + 1].do
  <2>1. l = [k EXCEPT !.at = a, !.pc = b]
    BY <1>3 DEF FollowingOf
  <2>. HIDE DEF l, a, b
  <2>2. Same5(k, l) /\ l.at = a /\ l.pc = b
    BY <2>1 DEF Command, Same5
  <2>3. Same5(k, l) /\ l.at = k.at + 1 /\ l.pc = PlanFor(k.kind)[l.at].do
    BY <2>2 DEF a, b
  <2>4. l.at \in DOMAIN PlanFor(l.kind) /\ ItemOf(l) = PlanFor(k.kind)[l.at]
    BY <1>1, <1>3, <2>3 DEF ItemOf, Same5
  <2>5. ItemOf(l).do \in {"pick", "wait"}
    BY <2>4, ItemFacts
  <2>. QED
    BY <2>3, <2>4, <2>5 DEF l
<1>4. CASE ~(k.at < n) /\ k.kind = "up"
  BY <1>1, <1>4 DEF FollowingOf, PlanFor
<1>5. CASE ~(k.at < n) /\ k.kind = "gate"
  <2>1. l = [k EXCEPT !.pc = "evaluating"]
    BY <1>5 DEF FollowingOf
  <2>2. Same5(k, l) /\ l.at = k.at /\ l.pc = "evaluating"
    BY <2>1 DEF Command, Same5
  <2>. QED
    BY <1>1, <1>5, <2>2 DEF PlanFor
<1>. QED
  BY <1>3, <1>4, <1>5

\* A port is picked, and for an engine the live version is read.
LEMMA PickFields ==
  ASSUME Shape, NEW c \in Cmds, Pick(c), NEW k, k = cmd[c], NEW l, l = cmd'[c]
  PROVE  /\ k.kind \in {"up", "gate"} /\ l.kind = k.kind /\ l.at = k.at /\ l.mine = k.mine /\ l.pc = "start"
         /\ l.adapter = IF ServiceOf(k) \in Model THEN live[ServiceOf(k)] ELSE 0
         /\ l.port \in PortFor(c) /\ l.taken = k.taken \cup {l.port}
<1>1. k \in Command /\ PlaceOK(k) /\ k.pc = "pick"
  BY DEF Shape, CommandOK, Pick
<1>. DEFINE a == IF ServiceOf(k) \in Model THEN live[ServiceOf(k)] ELSE 0
<1>2. PICK p \in PortFor(c) : l = [k EXCEPT !.pc = "start", !.port = p, !.taken = @ \cup {p}, !.adapter = a]
  BY PickMoves
<1>. HIDE DEF a
<1>3. l.kind = k.kind /\ l.at = k.at /\ l.mine = k.mine /\ l.pc = "start" /\ l.adapter = a
      /\ l.port = p /\ l.taken = k.taken \cup {p}
  BY <1>1, <1>2 DEF Command
<1>. QED
  BY <1>1, <1>3, Steps DEF a

\* The process of the item starts and joins the list.
LEMMA StartFields ==
  ASSUME Shape, NEW c \in Cmds, Start(c), NEW k, k = cmd[c], NEW l, l = cmd'[c]
  PROVE  /\ k.kind \in {"up", "gate"} /\ l.kind = k.kind /\ l.taken = k.taken /\ l.port = k.port /\ l.adapter = k.adapter
         /\ ToSet(l.mine) = ToSet(k.mine) \cup {NewService(c)}
         /\ k.kind = "up" => l.at = k.at /\ l.pc = "write"
         /\ k.kind = "gate" => l.at = k.at + 1 /\ l.pc \in {"pick", "wait"}
         /\ procs' = Append(procs, Launched(c, Current(c))) /\ ServiceOf(k) \in NamesOf(k.kind) /\ ServiceOf(k) \in STRING
<1>1. k \in Command /\ PlaceOK(k) /\ k.pc = "start" /\ k.kind # "restart" /\ ListOK(k.mine)
  BY DEF Shape, CommandOK, MineOK, Start
<1>2. k.kind \in {"up", "gate"} /\ k.at \in DOMAIN PlanFor(k.kind) /\ ItemOf(k).do = "pick"
  BY <1>1, Steps
<1>3. k.at < Len(PlanFor(k.kind)) /\ ServiceOf(k) \in NamesOf(k.kind) /\ ServiceOf(k) \in STRING
  BY <1>2, ItemFacts
<1>. DEFINE mine == Append(k.mine, NewService(c))
            K == [k EXCEPT !.mine = Append(@, NewService(c))]
<1>4. ToSet(mine) = ToSet(k.mine) \cup {NewService(c)} /\ mine \in Seq(Service)
  BY <1>1, StartMoves, Appended DEF ListOK
<1>5. K = [k EXCEPT !.mine = mine]
  BY <1>1 DEF Command
<1>6. k.kind = "up" => l = [k EXCEPT !.mine = mine, !.pc = "write"]
  BY <1>1, StartMoves DEF Command
<1>7. k.kind = "gate" => l = FollowingOf(K)
  BY StartMoves
<1>. HIDE DEF mine, K
<1>8. K \in Command /\ K.kind = k.kind /\ K.at = k.at /\ K.mine = mine /\ K.taken = k.taken /\ K.port = k.port
      /\ K.adapter = k.adapter
  BY <1>1, <1>4, <1>5 DEF Command
<1>11. procs' = Append(procs, Launched(c, Current(c)))
  BY DEF Start
<1>9. CASE k.kind = "up"
  <2>1. l.kind = k.kind /\ l.taken = k.taken /\ l.port = k.port /\ l.adapter = k.adapter /\ l.mine = mine
        /\ l.at = k.at /\ l.pc = "write"
    BY <1>1, <1>6, <1>9 DEF Command
  <2>. QED
    BY <1>3, <1>4, <1>9, <1>11, <2>1
<1>10. CASE k.kind = "gate"
  <2>1. K.at < Len(PlanFor(K.kind)) /\ K.at \in DOMAIN PlanFor(K.kind) /\ K.kind = "gate" /\ K.at \in Nat
        /\ Len(PlanFor(K.kind)) \in Nat
    BY <1>2, <1>3, <1>8, <1>10, PlanFacts DEF Command
  <2>2. K.at # Len(GatePlan)
    BY <2>1 DEF PlanFor
  <2>3. Same5(K, l) /\ l.at = K.at + 1 /\ l.pc \in {"pick", "wait"}
    BY <1>7, <1>8, <1>10, <2>1, <2>2, Advances
  <2>. QED
    BY <1>3, <1>4, <1>8, <1>10, <1>11, <2>3 DEF Same5
<1>. QED
  BY <1>2, <1>9, <1>10

\* The new process of an engine takes the place of the old one in the list.
LEMMA StartNewFields ==
  ASSUME Shape, NEW c \in Cmds, StartNew(c), NEW k, k = cmd[c], NEW l, l = cmd'[c]
  PROVE  /\ k.kind = "restart" /\ k.pc = "start" /\ ServiceOf(k) \in Model /\ ServiceOf(k) \in STRING
         /\ l.kind = k.kind /\ l.at = k.at /\ l.pc = "write" /\ l.port = k.port
         /\ EntryOf(k) \in ToSet(k.mine) /\ EntryOf(k).svc = ServiceOf(k) /\ EntryOf(k).port = k.port
         /\ ToSet(l.mine) = (ToSet(k.mine) \ {EntryOf(k)}) \cup {NewService(c)}
         /\ procs' = Append(procs, Launched(c, Current(c)))
<1>1. k \in Command /\ PlaceOK(k) /\ k.pc = "start"
  BY DEF Shape, CommandOK, StartNew
<1>. DEFINE e == EntryOf(cmd[c])
            new == [e EXCEPT !.pid = Len(procs) + 1]
            mine == [i \in DOMAIN cmd[c].mine |-> IF cmd[c].mine[i] = e THEN new ELSE cmd[c].mine[i]]
<1>2. /\ l = [cmd[c] EXCEPT !.pc = "write", !.mine = mine] /\ k.kind = "restart" /\ ServiceOf(k) \in Model
      /\ e \in ToSet(k.mine) /\ e.svc = ServiceOf(k) /\ e.port = k.port
      /\ new = NewService(c) /\ ToSet(mine) = (ToSet(cmd[c].mine) \ {e}) \cup {new}
  BY StartNewMoves
<1>. HIDE DEF mine, new
<1>3. l.kind = k.kind /\ l.at = k.at /\ l.pc = "write" /\ l.port = k.port /\ l.mine = mine
  BY <1>1, <1>2 DEF Command
<1>4. ServiceOf(k) \in STRING
  BY <1>1, <1>2, ItemFacts DEF PlaceOK
<1>. QED
  BY <1>1, <1>2, <1>3, <1>4 DEF StartNew

\* The list is written over the file.
LEMMA WriteFields ==
  ASSUME Shape, NEW c \in Cmds, Write(c), NEW k, k = cmd[c], NEW l, l = cmd'[c]
  PROVE  /\ k.kind \in {"up", "restart"} /\ Same5(k, l) /\ stateFile' \in {k.mine, stateFile}
         /\ OpenOK /\ NoneBeside(k.kind) => stateFile' = k.mine
         /\ k.kind = "up" => l.at = k.at + 1 /\ l.pc \in {"pick", "wait"} /\ ItemOf(k).do = "pick"
         /\ k.kind = "restart" => l.at = k.at /\ l.pc = "wait"
<1>1. k \in Command /\ PlaceOK(k) /\ k.pc = "rewrite"
  BY DEF Shape, CommandOK, Write
<1>2. k.kind \in {"up", "restart"} /\ l = IF k.kind = "up" THEN FollowingOf(k) ELSE [k EXCEPT !.pc = "wait"]
  BY WriteMoves
<1>5. stateFile' \in {k.mine, stateFile} /\ (OpenOK /\ NoneBeside(k.kind) => stateFile' = k.mine)
  BY <1>1 DEF Write, OpenOK
<1>3. CASE k.kind = "up"
  <2>1. ItemOf(k).do = "pick" /\ k.at \in DOMAIN PlanFor(k.kind)
    BY <1>1, <1>3, Steps
  <2>2. k.at < Len(PlanFor(k.kind)) /\ Len(PlanFor(k.kind)) \in Nat /\ k.at \in Nat
    BY <2>1, ItemFacts, PlanFacts
  <2>3. k.at # Len(UpPlan)
    BY <1>3, <2>2 DEF PlanFor
  <2>4. Same5(k, l) /\ l.at = k.at + 1 /\ l.pc \in {"pick", "wait"}
    BY <1>1, <1>2, <1>3, <2>1, <2>3, Advances
  <2>. QED
    BY <1>2, <1>3, <1>5, <2>1, <2>4
<1>4. CASE k.kind = "restart"
  <2>1. Same5(k, l) /\ l.at = k.at /\ l.pc = "wait"
    BY <1>1, <1>2, <1>4 DEF Command, Same5
  <2>. QED
    BY <1>2, <1>4, <1>5, <2>1
<1>. QED
  BY <1>2, <1>3, <1>4

\* The service answers: a run is opened for an engine, or the command goes on.
LEMMA WaitReadyFields ==
  ASSUME Shape, NEW c \in Cmds, WaitReady(c), NEW k, k = cmd[c], NEW l, l = cmd'[c]
  PROVE  /\ k.kind \in {"up", "gate", "restart"} /\ ItemOf(k).do = "wait"
         /\ k.kind = "restart" => l = Idle
         /\ k.kind = "up" /\ ServiceOf(k) \in Model => Same5(k, l) /\ l.at = k.at /\ l.pc = "closeRuns"
         /\ k.kind = "up" /\ ServiceOf(k) \notin Model =>
              \/ l = Idle /\ k.at = Len(UpPlan)
              \/ Same5(k, l) /\ l.at = k.at + 1 /\ l.pc \in {"pick", "wait"}
         /\ k.kind = "gate" =>
              /\ Same5(k, l)
              /\ \/ l.at = k.at + 1 /\ l.pc \in {"pick", "wait"}
                 \/ l.at = k.at /\ l.pc = "evaluating"
<1>1. k \in Command /\ PlaceOK(k) /\ k.pc = "wait"
  BY DEF Shape, CommandOK, WaitReady
<1>2. /\ k.kind \in {"up", "gate", "restart"} /\ (k.kind = "restart" => l = Idle)
      /\ k.kind = "up" /\ ServiceOf(k) \in Model => l = [k EXCEPT !.pc = "closeRuns"]
      /\ k.kind = "gate" \/ (k.kind = "up" /\ ServiceOf(k) \notin Model) => l = FollowingOf(k)
  BY WaitReadyMoves
<1>3. ItemOf(k).do = "wait" /\ k.at \in DOMAIN PlanFor(k.kind)
  BY <1>1, <1>2, Steps
<1>4. k.kind = "up" /\ ServiceOf(k) \in Model => Same5(k, l) /\ l.at = k.at /\ l.pc = "closeRuns"
  BY <1>1, <1>2 DEF Command, Same5
<1>. QED
  BY <1>1, <1>2, <1>3, <1>4, Advances

\* The run of an engine is opened, and up goes on or is done.
LEMMA OpenRunFields ==
  ASSUME Shape, NEW c \in Cmds, OpenRun(c), NEW k, k = cmd[c], NEW l, l = cmd'[c]
  PROVE  /\ k.kind = "up" /\ ServiceOf(k) \in Model /\ ItemOf(k).do = "wait"
         /\ \/ l = Idle /\ k.at = Len(UpPlan)
            \/ Same5(k, l) /\ l.at = k.at + 1 /\ l.pc \in {"pick", "wait"}
<1>1. k \in Command /\ PlaceOK(k) /\ k.pc = "openRun" /\ k.kind = "up" /\ ServiceOf(k) \in Model /\ l = FollowingOf(k)
  BY OpenRunMoves DEF Shape, CommandOK, OpenRun
<1>2. ItemOf(k).do = "wait" /\ k.at \in DOMAIN PlanFor(k.kind)
  BY <1>1, Steps
<1>. QED
  BY <1>1, <1>2, Advances

\* A step that changes the place alone.
LEMMA StepFields ==
  ASSUME Shape, NEW c \in Cmds, NEW k, k = cmd[c], NEW l, l = cmd'[c]
  PROVE  /\ CloseRuns(c) => Same5(k, l) /\ l.at = k.at /\ l.pc = "openRun" /\ k.kind = "up" /\ ServiceOf(k) \in Model
         /\ Fail(c) \/ Evaluated(c) => Same5(k, l) /\ l.at = k.at /\ l.pc = "stop" /\ k.kind \in {"up", "gate"}
         /\ Truncate(c) => Same5(k, l) /\ l.at = k.at /\ l.pc = "rewrite" /\ k.pc = "write" /\ k.kind \in {"up", "restart"}
         /\ StopOld(c) => Same5(k, l) /\ l.at = k.at /\ l.pc = "start" /\ k.kind = "restart"
         /\ Launch(c) => l.kind = k.kind /\ l.mine = k.mine /\ l.at = k.at /\ l.pc = "swap" /\ k.kind = "restart"
              /\ l.port = EntryOf(k).port /\ l.adapter = live[ServiceOf(k)]
         /\ StopLast(c) => l.kind = k.kind /\ l.at = k.at /\ l.mine = Front(k.mine) /\ l.pc = "stop" /\ l.taken = k.taken
              /\ ToSet(l.mine) = ToSet(k.mine) \ {Last(k.mine)} /\ Last(k.mine) \in ToSet(k.mine)
              /\ Names(l.mine) = Names(k.mine) \ {Last(k.mine).svc}
         /\ Unlink(c) \/ RestartFails(c) \/ Kill(c) => l = Idle
         /\ ReadState(c) => k.kind = "restart" /\ k.pc = "read" /\ ServiceOf(k) \in Model
              /\ \/ l = Idle /\ \A s \in ToSet(stateFile) : s.svc = ServiceOf(k) => ~Alive(s.pid)
                 \/ l.kind = k.kind /\ l.at = k.at /\ l.pc = "launch" /\ l.mine = stateFile
<1>1. k \in Command /\ PlaceOK(k) /\ MineOK(k)
  BY DEF Shape, CommandOK
<1>2. CloseRuns(c) => Same5(k, l) /\ l.at = k.at /\ l.pc = "openRun" /\ k.kind = "up" /\ ServiceOf(k) \in Model
  BY <1>1, CloseRunsMoves, ZenonT(60) DEF Command, Same5
<1>3. ASSUME Fail(c) \/ Evaluated(c)
      PROVE  Same5(k, l) /\ l.at = k.at /\ l.pc = "stop" /\ k.kind \in {"up", "gate"}
  <2>1. k.kind \in {"up", "gate"} /\ k.pc # "stop" /\ Step(c, "stop")
    BY <1>1, <1>3, Steps DEF Evaluated, Fail
  <2>. QED
    BY <1>1, <2>1, StopMoves DEF Command, Same5
<1>4. StopOld(c) => Same5(k, l) /\ l.at = k.at /\ l.pc = "start" /\ k.kind = "restart"
  BY <1>1, StopOldMoves DEF Command, Same5
<1>5. ASSUME Launch(c)
      PROVE  l.kind = k.kind /\ l.mine = k.mine /\ l.at = k.at /\ l.pc = "swap" /\ k.kind = "restart"
              /\ l.port = EntryOf(k).port /\ l.adapter = live[ServiceOf(k)]
  <2>. DEFINE p == EntryOf(k).port
              a == live[ServiceOf(k)]
  <2>1. l = [k EXCEPT !.pc = "swap", !.port = p, !.adapter = a] /\ k.kind = "restart"
    BY <1>5, LaunchMoves
  <2>. HIDE DEF p, a
  <2>2. l.kind = k.kind /\ l.mine = k.mine /\ l.at = k.at /\ l.pc = "swap" /\ l.port = p /\ l.adapter = a
    BY <1>1, <2>1 DEF Command
  <2>. QED
    BY <2>1, <2>2 DEF p, a
<1>6. ASSUME StopLast(c)
      PROVE  l.kind = k.kind /\ l.at = k.at /\ l.mine = Front(k.mine) /\ l.pc = "stop" /\ l.taken = k.taken
              /\ ToSet(l.mine) = ToSet(k.mine) \ {Last(k.mine)} /\ Last(k.mine) \in ToSet(k.mine)
              /\ Names(l.mine) = Names(k.mine) \ {Last(k.mine).svc}
  <2>1. l = [k EXCEPT !.mine = Front(k.mine)] /\ k.pc = "stop" /\ k.mine # << >>
    BY <1>1, <1>6, StopLastMoves DEF StopLast, Command
  <2>2. l.kind = k.kind /\ l.at = k.at /\ l.mine = Front(k.mine) /\ l.pc = "stop" /\ l.taken = k.taken
    BY <1>1, <2>1 DEF Command
  <2>. QED
    BY <1>1, <2>1, <2>2, Shortened DEF MineOK
<1>7. ASSUME Unlink(c) \/ RestartFails(c) \/ Kill(c) PROVE l = Idle
  BY <1>7, Ends DEF Unlink, RestartFails, Kill
<1>8. ASSUME ReadState(c)
      PROVE  k.kind = "restart" /\ k.pc = "read" /\ ServiceOf(k) \in Model
              /\ \/ l = Idle /\ \A s \in ToSet(stateFile) : s.svc = ServiceOf(k) => ~Alive(s.pid)
                 \/ l.kind = k.kind /\ l.at = k.at /\ l.pc = "launch" /\ l.mine = stateFile
  <2>1. k.kind = "restart" /\ k.pc = "read" /\ ServiceOf(k) \in Model
    BY <1>8, ReadStateMoves DEF ReadState
  <2>2. CASE l = [k EXCEPT !.pc = "launch", !.mine = stateFile]
    BY <1>1, <2>1, <2>2 DEF Command
  <2>. QED
    BY <1>8, <2>1, <2>2, ReadStateMoves
<1>9. Truncate(c) => Same5(k, l) /\ l.at = k.at /\ l.pc = "rewrite" /\ k.pc = "write" /\ k.kind \in {"up", "restart"}
  BY <1>1, TruncateMoves DEF Command, Same5
<1>. QED
  BY <1>2, <1>3, <1>4, <1>5, <1>6, <1>7, <1>8, <1>9

\* How a command begins.
LEMMA BeginFields ==
  ASSUME Shape, NEW c \in Cmds, NEW l, l = cmd'[c]
  PROVE  /\ Up(c) => l.kind = "up" /\ l.pc = "pick" /\ l.at = 1 /\ l.mine = << >> /\ l.taken = {GatewayPort}
              /\ live' = live
         /\ ServePair(c) => l.kind = "gate" /\ l.pc = "pick" /\ l.at = 1 /\ l.mine = << >>
              /\ l.taken = {s.port : s \in ToSet(stateFile)} /\ live' = live
         /\ Down(c) => l.kind = "down" /\ l.pc = "stop" /\ l.mine = stateFile /\ live' = live
         /\ Promote(c) => l.kind = "restart" /\ l.pc = "read" /\ l.mine = << >>
              /\ \E m \in Model, v \in 1..MaxVersion : live' = [live EXCEPT ![m] = v] /\ ServiceOf(l) = m
<1>1. Idle \in Command /\ Idle.mine = << >>
  BY IdleIsOK DEF CommandOK, Idle
<1>2. Up(c) => l.kind = "up" /\ l.pc = "pick" /\ l.at = 1 /\ l.mine = << >> /\ l.taken = {GatewayPort}
  BY <1>1, UpMoves, ZenonT(60) DEF Command
<1>3. ASSUME ServePair(c)
      PROVE  l.kind = "gate" /\ l.pc = "pick" /\ l.at = 1 /\ l.mine = << >> /\ l.taken = {s.port : s \in ToSet(stateFile)}
  <2>. DEFINE ports == {s.port : s \in ToSet(stateFile)}
  <2>1. l = [Idle EXCEPT !.kind = "gate", !.at = 1, !.pc = "pick", !.taken = ports]
    BY <1>3, ServePairMoves
  <2>. HIDE DEF ports
  <2>2. l.kind = "gate" /\ l.pc = "pick" /\ l.at = 1 /\ l.mine = << >> /\ l.taken = ports
    BY <1>1, <2>1 DEF Command
  <2>. QED
    BY <2>2 DEF ports
<1>4. Down(c) => l.kind = "down" /\ l.pc = "stop" /\ l.mine = stateFile
  BY <1>1, DownMoves DEF Command
<1>5. Up(c) \/ ServePair(c) \/ Down(c) => live' = live
  BY DEF Up, ServePair, Down
<1>. QED
  BY <1>2, <1>3, <1>4, <1>5, PromoteMoves

\* What a step of a command leaves alone.
LEMMA RunLeaves ==
  ASSUME NEW c \in Cmds, Run(c)
  PROVE  /\ live' = live /\ overlaps' = overlaps /\ commands' = commands /\ kills' = kills /\ exits' = exits
         /\ ~Write(c) /\ ~Unlink(c) => stateFile' = stateFile
         /\ ~Start(c) /\ ~StartNew(c) /\ ~StopLast(c) /\ ~StopOld(c) => procs' = procs
         /\ ~CloseRuns(c) /\ ~OpenRun(c) /\ ~StopLast(c) => openRuns' = openRuns
         /\ ~Fail(c) /\ ~RestartFails(c) => past' = past
BY DEF Run, Pick, Start, Truncate, Write, WaitReady, CloseRuns, OpenRun, Fail, Evaluated, StopLast, Unlink,
      ReadState, Launch, StopOld, StartNew, RestartFails

\* When nothing is under way, the file can be parsed, if no command of the platform
\* was killed or overlapped another.
LEMMA ReadableAtRest ==
  ASSUME Inductive, Quiet, Apart(Platform), Never({"killed"})
  PROVE  Readable /\ Recorded = ToSet(stateFile)
<1>1. ~(kills > 0)
  BY DEF Inductive, OverlapsOK, Never
<1>2. \A c \in Cmds : ~Renews(c)
  <2>. SUFFICES ASSUME NEW c \in Cmds PROVE ~Renews(c)
    OBVIOUS
  <2>1. cmd[c] = Idle
    BY DEF Quiet, Busy, Inductive, Shape, CommandOK, PlaceOK
  <2>. QED
    BY <2>1 DEF Renews, Idle
<1>3. Readable
  BY <1>1, <1>2 DEF Inductive, FileOK
<1>. QED
  BY <1>3 DEF Recorded

-----------------------------------------------------------------------------
(* Engines serve the live version                                          *)

NoRestartBeside == \A o \in overlaps : "restart" \notin o

\* A promotion is about to replace the engine of m.
Replacing(m) == \E r \in Cmds : /\ cmd[r].kind = "restart" /\ cmd[r].pc \in {"read", "launch", "swap"}
                                /\ ServiceOf(cmd[r]) = m

Serves(s) == s.svc \in Model /\ Alive(s.pid) => procs[s.pid].adapter = live[s.svc] \/ Replacing(s.svc)

\* A command holds the command line of an engine that it has not started yet.
AboutToStart(k) == /\ (k.kind = "up" /\ k.pc = "start") \/ (k.kind = "restart" /\ k.pc \in {"swap", "start"})
                   /\ ServiceOf(k) \in Model

\* Every engine that a list names serves the live version or is about to be replaced;
\* so does the one that a command is about to start.
ServesOK ==
  Never({"killed", "restartFailed"}) /\ NoRestartBeside =>
    /\ \A s \in ToSet(stateFile) : Serves(s)
    /\ \A c \in Cmds : \A s \in ToSet(cmd[c].mine) : Serves(s)
    /\ \A c \in Cmds : AboutToStart(cmd[c]) => cmd[c].adapter = live[ServiceOf(cmd[c])]

\* A promotion that overlaps nothing runs alone.
LEMMA RestartAlone ==
  ASSUME Shape, OverlapsOK, NoRestartBeside, NEW c \in Cmds, cmd[c].kind = "restart"
  PROVE  \A d \in Cmds \ {c} : cmd[d].kind = "none" /\ ToSet(cmd[d].mine) = {}
<1>. SUFFICES ASSUME NEW d \in Cmds \ {c} PROVE cmd[d].kind = "none" /\ ToSet(cmd[d].mine) = {}
  OBVIOUS
<1>1. ASSUME cmd[d].kind # "none" PROVE FALSE
  <2>1. {cmd[c].kind, cmd[d].kind} \in overlaps
    BY <1>1 DEF OverlapsOK, Busy
  <2>. QED
    BY <2>1 DEF NoRestartBeside
<1>2. cmd[d] = Idle
  BY <1>1 DEF Shape, CommandOK, PlaceOK
<1>. QED
  BY <1>1, <1>2, EmptyList DEF Idle

\* What an engine serves does not change.
LEMMA ServesStays ==
  ASSUME Grows, live' = live, NEW s, Entry(s), Serves(s), Replacing(s.svc) => Replacing(s.svc)' \/ ~Alive(s.pid)'
  PROVE  Serves(s)'
<1>1. procs'[s.pid].adapter = procs[s.pid].adapter /\ (Alive(s.pid)' => Alive(s.pid))
  BY DEF Grows, Entry, Alive
<1>. QED
  BY <1>1 DEF Serves

\* Every step keeps ServesOK: only Launch and Pick choose an adapter, and both read the live version.
LEMMA ServesStep ==
  ASSUME Inductive, Inductive', Grows, overlaps \subseteq overlaps', past \subseteq past', ServesOK, [Next]_vars
  PROVE  ServesOK'
<1>. SUFFICES ASSUME Never({"killed", "restartFailed"})', NoRestartBeside'
              PROVE  /\ \A s \in ToSet(stateFile') : Serves(s)'
                     /\ \A d \in Cmds : \A s : s \in ToSet(cmd'[d].mine) => Serves(s)'
                     /\ \A d \in Cmds : \A l : l = cmd'[d] /\ AboutToStart(l) => l.adapter = live'[ServiceOf(l)]
  <2>1. \A d \in Cmds : \A l : l = cmd'[d] => cmd'[d] = l
    OBVIOUS
  <2>. QED
    BY DEF ServesOK
<1>. DEFINE Wanted == /\ \A s \in ToSet(stateFile') : Serves(s)'
                      /\ \A d \in Cmds : \A s : s \in ToSet(cmd'[d].mine) => Serves(s)'
                      /\ \A d \in Cmds : \A l : l = cmd'[d] /\ AboutToStart(l) => l.adapter = live'[ServiceOf(l)]
<1>1. Never({"killed", "restartFailed"}) /\ NoRestartBeside
  BY DEF Never, NoRestartBeside
<1>2. /\ \A s \in ToSet(stateFile) : Serves(s) /\ Entry(s)
      /\ \A d \in Cmds : \A s \in ToSet(cmd[d].mine) : Serves(s) /\ Entry(s)
      /\ \A d \in Cmds : AboutToStart(cmd[d]) => cmd[d].adapter = live[ServiceOf(cmd[d])]
  BY <1>1 DEF ServesOK, Inductive, Shape
<1>3. Shape /\ Shape' /\ OverlapsOK /\ OverlapsOK' /\ TrackedOK
  BY DEF Inductive
<1>4. ASSUME live' = live, \A m \in Model : Replacing(m) => Replacing(m)'
      PROVE  /\ \A s \in ToSet(stateFile) : Serves(s)'
             /\ \A d \in Cmds : \A s \in ToSet(cmd[d].mine) : Serves(s)'
  <2>1. ASSUME NEW s, Entry(s), Serves(s) PROVE Serves(s)'
    <3>1. CASE s.svc \in Model
      BY <1>4, <2>1, <3>1, ServesStays
    <3>2. CASE s.svc \notin Model
      BY <3>2 DEF Serves
    <3>. QED
      BY <3>1, <3>2
  <2>. QED
    BY <1>2, <2>1
<1>5. ASSUME NEW c \in Cmds, Up(c) \/ ServePair(c) \/ Down(c) PROVE Wanted
  <2>1. Moves(c) /\ stateFile' = stateFile /\ cmd[c].kind = "none"
    BY <1>3, <1>5, BeginsKind
  <2>2. live' = live /\ (cmd'[c].mine = << >> \/ cmd'[c].mine = stateFile) /\ cmd'[c].pc \in {"pick", "stop"}
    BY <1>3, <1>5, BeginFields
  <2>3. \A m \in Model : Replacing(m) => Replacing(m)'
    BY <2>1 DEF Replacing, Moves
  <2>4. \A s \in ToSet(cmd'[c].mine) : s \in ToSet(stateFile)
    BY <2>2, EmptyList
  <2>5. \A d \in Cmds \ {c} : cmd'[d] = cmd[d]
    BY <2>1 DEF Moves
  <2>. QED
    BY <1>2, <1>4, <2>1, <2>2, <2>3, <2>4, <2>5 DEF AboutToStart
<1>6. ASSUME NEW c \in Cmds, Promote(c) PROVE Wanted
  <2>1. /\ Moves(c) /\ stateFile' = stateFile /\ procs' = procs /\ cmd[c].kind = "none"
    BY <1>3, <1>6, BeginsKind
  <2>2. PICK m \in Model, v \in 1..MaxVersion : live' = [live EXCEPT ![m] = v] /\ ServiceOf(cmd'[c]) = m
    BY <1>3, <1>6, BeginFields
  <2>3. cmd'[c].kind = "restart" /\ cmd'[c].pc = "read" /\ ToSet(cmd'[c].mine) = {}
    BY <1>3, <1>6, BeginFields, EmptyList
  <2>4. \A d \in Cmds \ {c} : cmd'[d].kind = "none" /\ ToSet(cmd'[d].mine) = {}
    <3>1. \A d \in Cmds \ {c} : cmd'[d] = cmd[d]
      BY <2>1 DEF Moves
    <3>2. \A d \in Cmds \ {c} : cmd'[d].kind # "none" => {cmd'[c].kind, cmd'[d].kind} \in overlaps'
      BY <1>3, <2>3 DEF OverlapsOK, Busy
    <3>3. \A d \in Cmds \ {c} : cmd[d].kind = "none"
      BY <2>3, <3>1, <3>2 DEF NoRestartBeside
    <3>4. \A d \in Cmds \ {c} : cmd[d] = Idle
      BY <1>3, <3>3 DEF Shape, CommandOK, PlaceOK
    <3>. QED
      BY <3>1, <3>3, <3>4, EmptyList DEF Idle
  <2>5. ASSUME NEW s \in ToSet(stateFile) PROVE Serves(s)'
    <3>1. CASE s.svc = m
      BY <2>2, <2>3, <3>1 DEF Serves, Replacing
    <3>2. CASE s.svc # m
      <4>1. ~Replacing(s.svc)
        <5>1. \A d \in Cmds : cmd[d].kind # "restart"
          BY <2>1, <2>4 DEF Moves
        <5>. QED
          BY <5>1 DEF Replacing
      <4>2. s.svc \in Model => live'[s.svc] = live[s.svc]
        BY <1>3, <2>2, <3>2 DEF Shape, CountsOK
      <4>. QED
        BY <1>2, <2>1, <4>1, <4>2 DEF Serves, Alive
    <3>. QED
      BY <3>1, <3>2
  <2>. QED
    BY <2>1, <2>3, <2>4, <2>5 DEF AboutToStart
<1>7. ASSUME NEW c \in Cmds, Run(c) PROVE Wanted
  <2>. DEFINE k == cmd[c]
              l == cmd'[c]
  <2>1. /\ Moves(c) /\ live' = live /\ k \in Command /\ PlaceOK(k) /\ MineOK(k)
        /\ \A d \in Cmds \ {c} : cmd'[d] = cmd[d]
    BY <1>3, <1>7, RunShape, RunLeaves DEF Shape, CommandOK, Moves
  <2>2. ~RestartFails(c)
    BY DEF RestartFails, Fault, Never
  \* It is enough to look at the command itself.
  <2>3. ASSUME \A m \in Model : Replacing(m) => Replacing(m)',
               \A s \in ToSet(stateFile') \cup ToSet(l.mine) : s \in ToSet(stateFile) \cup ToSet(k.mine) \/ Serves(s)',
               AboutToStart(l) => l.adapter = live[ServiceOf(l)]
        PROVE  Wanted
    BY <1>2, <1>4, <2>1, <2>3
  <2>4. CASE ReadState(c) /\ l = Idle
    <3>1. k.kind = "restart" /\ ServiceOf(k) \in Model /\ \A s \in ToSet(stateFile) : s.svc = ServiceOf(k) => ~Alive(s.pid)
      BY <1>3, <2>4, StepFields DEF Idle
    <3>2. procs' = procs /\ stateFile' = stateFile
      BY <2>4 DEF ReadState
    <3>3. \A d \in Cmds \ {c} : cmd[d].kind = "none" /\ ToSet(cmd[d].mine) = {}
      BY <1>1, <1>3, <3>1, RestartAlone
    <3>4. \A s \in ToSet(stateFile) : Serves(s)'
      <4>. SUFFICES ASSUME NEW s \in ToSet(stateFile) PROVE Serves(s)'
        OBVIOUS
      <4>1. Replacing(s.svc) => ~Alive(s.pid)'
        <5>1. Replacing(s.svc) => s.svc = ServiceOf(k)
          BY <3>3 DEF Replacing
        <5>. QED
          BY <3>1, <3>2, <5>1 DEF Alive
      <4>. QED
        BY <1>2, <2>1, <4>1, ServesStays
    <3>5. Idle.kind = "none" /\ ToSet(Idle.mine) = {}
      BY EmptyList DEF Idle
    <3>6. \A d \in Cmds : cmd'[d].kind = "none" /\ ToSet(cmd'[d].mine) = {}
      BY <2>1, <2>4, <3>3, <3>5
    <3>. QED
      BY <3>2, <3>4, <3>6 DEF AboutToStart
  <2>5. CASE ReadState(c) /\ l # Idle
    <3>1. k.kind = "restart" /\ k.pc = "read" /\ l.kind = k.kind /\ l.at = k.at /\ l.pc = "launch" /\ l.mine = stateFile
      BY <1>3, <2>5, StepFields
    <3>2. ServiceOf(l) = ServiceOf(k)
      BY <3>1, SamePlace
    <3>3. \A m \in Model : Replacing(m) => Replacing(m)'
      BY <2>1, <3>1, <3>2 DEF Replacing
    <3>. QED
      BY <2>3, <2>5, <3>1, <3>3 DEF AboutToStart, ReadState
  <2>6. CASE Launch(c)
    <3>1. k.kind = "restart" /\ k.pc = "launch" /\ l.kind = k.kind /\ l.at = k.at /\ l.pc = "swap" /\ l.mine = k.mine
          /\ l.adapter = live[ServiceOf(k)]
      BY <1>3, <2>6, StepFields, ZenonT(60) DEF Launch
    <3>2. ServiceOf(l) = ServiceOf(k)
      BY <3>1, SamePlace
    <3>3. \A m \in Model : Replacing(m) => Replacing(m)'
      BY <2>1, <3>1, <3>2 DEF Replacing
    <3>. QED
      BY <2>3, <2>6, <3>1, <3>2, <3>3 DEF AboutToStart, Launch
  <2>7. CASE StopOld(c)
    <3>1. k.kind = "restart" /\ k.pc = "swap" /\ Same5(k, l) /\ l.at = k.at /\ l.pc = "start" /\ stateFile' = stateFile
          /\ EntryOf(k) \in ToSet(k.mine) /\ EntryOf(k).svc = ServiceOf(k) /\ procs' = Stopped({EntryOf(k).pid})
          /\ ServiceOf(k) \in Model
      <4>1. stateFile' = stateFile /\ k.pc = "swap"
        BY <2>7 DEF StopOld
      <4>2. k.kind = "restart" /\ Same5(k, l) /\ l.at = k.at /\ l.pc = "start"
        BY <1>3, <2>7, StepFields
      <4>3. EntryOf(k) \in ToSet(k.mine) /\ EntryOf(k).svc = ServiceOf(k) /\ procs' = Stopped({EntryOf(k).pid})
        BY <1>3, <2>7, StopOldMoves
      <4>. QED
        BY <2>1, <4>1, <4>2, <4>3 DEF PlaceOK
    <3>2. \A d \in Cmds \ {c} : cmd[d].kind = "none" /\ ToSet(cmd[d].mine) = {}
      BY <1>1, <1>3, <3>1, RestartAlone
    <3>3. ServiceOf(l) = ServiceOf(k)
      BY <3>1, SamePlace DEF Same5
    <3>4. k.mine = stateFile
      <4>1. Tracked(k)
        BY <1>1, <1>3, <3>1 DEF TrackedOK, NoneBeside, NoRestartBeside, Platform
      <4>. QED
        BY <3>1, <4>1 DEF Tracked
    <3>5. \A s \in ToSet(k.mine) : Serves(s)'
      <4>. SUFFICES ASSUME NEW s \in ToSet(k.mine) PROVE Serves(s)'
        OBVIOUS
      <4>1. CASE s.svc = ServiceOf(k)
        <5>1. s = EntryOf(k)
          BY <2>1, <3>1, <4>1 DEF MineOK, ListOK, OneEach
        <5>2. ~Alive(s.pid)'
          BY <1>2, <1>3, <3>1, <5>1, StoppedGrows DEF Alive, Entry
        <5>. QED
          BY <5>2 DEF Serves
      <4>2. CASE s.svc # ServiceOf(k)
        <5>1. ~Replacing(s.svc)
          BY <3>2, <4>2 DEF Replacing
        <5>. QED
          BY <1>2, <2>1, <5>1, ServesStays
      <4>. QED
        BY <4>1, <4>2
    <3>6. AboutToStart(k) /\ l.adapter = k.adapter
      BY <3>1 DEF AboutToStart, Same5
    <3>7. \A d \in Cmds \ {c} : cmd'[d].kind = "none" /\ ToSet(cmd'[d].mine) = {}
      BY <2>1, <3>2
    <3>. QED
      BY <1>2, <2>1, <3>1, <3>3, <3>4, <3>5, <3>6, <3>7 DEF Same5, AboutToStart
  <2>8. CASE StartNew(c)
    <3>1. /\ k.kind = "restart" /\ k.pc = "start" /\ ServiceOf(k) \in Model /\ ServiceOf(k) \in STRING
          /\ l.pc = "write" /\ ToSet(l.mine) = (ToSet(k.mine) \ {EntryOf(k)}) \cup {NewService(c)}
          /\ procs' = Append(procs, Launched(c, Current(c))) /\ stateFile' = stateFile
      <4>1. stateFile' = stateFile
        BY <2>8 DEF StartNew
      <4>. QED
        BY <1>3, <2>8, <4>1, StartNewFields
    <3>2. \A s : s = NewService(c) => Serves(s)'
      <4>. DEFINE n == Len(procs) + 1
      <4>1. procs'[n] = [svc |-> ServiceOf(k), port |-> k.port, adapter |-> k.adapter, st |-> "starting"]
        BY <1>3, <3>1, LaunchedGrows
      <4>2. procs'[n].adapter = k.adapter
        <5>. HIDE DEF n
        <5>. QED
          BY <4>1
      <4>3. k.adapter = live[ServiceOf(k)]
        BY <1>2, <3>1 DEF AboutToStart
      <4>4. NewService(c).pid = n /\ NewService(c).svc = ServiceOf(k)
        BY DEF NewService
      <4>. SUFFICES ASSUME NEW s, s = NewService(c) PROVE Serves(s)'
        OBVIOUS
      <4>. QED
        BY <2>1, <4>2, <4>3, <4>4 DEF Serves
    <3>3. \A m \in Model : Replacing(m) => Replacing(m)'
      BY <2>1, <3>1 DEF Replacing
    <3>. QED
      BY <2>3, <3>1, <3>2, <3>3 DEF AboutToStart
  <2>9. CASE Start(c)
    <3>1. /\ k.kind \in {"up", "gate"} /\ l.kind = k.kind /\ ToSet(l.mine) = ToSet(k.mine) \cup {NewService(c)}
          /\ l.pc # "start" /\ k.pc = "start" /\ stateFile' = stateFile /\ procs' = Append(procs, Launched(c, Current(c)))
          /\ ServiceOf(k) \in NamesOf(k.kind) /\ ServiceOf(k) \in STRING
      <4>1. stateFile' = stateFile /\ k.pc = "start"
        BY <2>9 DEF Start
      <4>. QED
        BY <1>3, <2>9, <4>1, StartFields
    <3>2. \A s : s = NewService(c) => Serves(s)'
      <4>. DEFINE n == Len(procs) + 1
      <4>1. procs'[n] = [svc |-> ServiceOf(k), port |-> k.port, adapter |-> k.adapter, st |-> "starting"]
        BY <1>3, <3>1, LaunchedGrows
      <4>2. procs'[n].adapter = k.adapter
        <5>. HIDE DEF n
        <5>. QED
          BY <4>1
      <4>3. ServiceOf(k) \in Model => k.adapter = live[ServiceOf(k)]
        <5>1. k.kind = "gate" => ServiceOf(k) \notin Model
          BY <3>1, Plans DEF NamesOf, UpNames
        <5>. QED
          BY <1>2, <3>1, <5>1 DEF AboutToStart
      <4>4. NewService(c).pid = n /\ NewService(c).svc = ServiceOf(k)
        BY DEF NewService
      <4>. SUFFICES ASSUME NEW s, s = NewService(c) PROVE Serves(s)'
        OBVIOUS
      <4>. QED
        BY <2>1, <4>2, <4>3, <4>4 DEF Serves
    <3>3. \A m \in Model : Replacing(m) => Replacing(m)'
      BY <2>1, <3>1 DEF Replacing
    <3>. QED
      BY <2>3, <3>1, <3>2, <3>3 DEF AboutToStart
  <2>10. CASE Pick(c)
    <3>1. /\ k.kind \in {"up", "gate"} /\ l.kind = k.kind /\ l.at = k.at /\ l.mine = k.mine
          /\ l.adapter = IF ServiceOf(k) \in Model THEN live[ServiceOf(k)] ELSE 0
          /\ stateFile' = stateFile
      <4>1. stateFile' = stateFile
        BY <2>10 DEF Pick
      <4>. QED
        BY <1>3, <2>10, <4>1, PickFields
    <3>2. ServiceOf(l) = ServiceOf(k)
      BY <3>1, SamePlace
    <3>3. \A m \in Model : Replacing(m) => Replacing(m)'
      BY <2>1, <3>1 DEF Replacing
    <3>. QED
      BY <2>3, <3>1, <3>2, <3>3 DEF AboutToStart
  <2>11. CASE Truncate(c) \/ Write(c) \/ WaitReady(c) \/ CloseRuns(c) \/ OpenRun(c) \/ Fail(c) \/ Evaluated(c) \/ StopLast(c) \/ Unlink(c)
    <3>1. ToSet(stateFile') \subseteq ToSet(stateFile) \cup ToSet(k.mine)
      <4>1. CASE Write(c)
        BY <4>1 DEF Write
      <4>2. CASE Unlink(c)
        BY <4>2, EmptyList DEF Unlink
      <4>3. CASE ~Write(c) /\ ~Unlink(c)
        BY <1>7, <4>3, RunLeaves
      <4>. QED
        BY <4>1, <4>2, <4>3
    <3>2. ToSet(Idle.mine) = {} /\ Idle.kind = "none" /\ Idle.pc = "idle"
      BY EmptyList DEF Idle
    <3>3. ToSet(l.mine) \subseteq ToSet(k.mine) /\ l.pc \notin {"start", "swap"} /\ k.pc \notin {"read", "launch", "swap"}
      <4>8. CASE Truncate(c)
        BY <1>3, <4>8, StepFields DEF Same5
      <4>1. CASE Write(c)
        <5>1. Same5(k, l) /\ l.pc \in {"pick", "wait"}
          BY <1>3, <4>1, WriteFields
        <5>. QED
          BY <4>1, <5>1 DEF Same5, Write
      <4>2. CASE WaitReady(c)
        <5>1. l = Idle \/ (Same5(k, l) /\ l.pc \in {"pick", "wait", "closeRuns", "evaluating"})
          BY <1>3, <4>2, WaitReadyFields
        <5>. QED
          BY <3>2, <4>2, <5>1 DEF Same5, WaitReady
      <4>3. CASE OpenRun(c)
        <5>1. l = Idle \/ (Same5(k, l) /\ l.pc \in {"pick", "wait"})
          BY <1>3, <4>3, OpenRunFields
        <5>. QED
          BY <3>2, <4>3, <5>1 DEF Same5, OpenRun
      <4>4. CASE CloseRuns(c)
        BY <1>3, <4>4, StepFields DEF Same5, CloseRuns
      <4>5. CASE Fail(c) \/ Evaluated(c)
        <5>1. Same5(k, l) /\ l.pc = "stop" /\ k.kind \in {"up", "gate"}
          BY <1>3, <4>5, StepFields
        <5>. QED
          BY <2>1, <5>1 DEF Same5, PlaceOK
      <4>6. CASE StopLast(c)
        <5>1. ToSet(l.mine) = ToSet(k.mine) \ {Last(k.mine)} /\ l.pc = "stop"
          BY <1>3, <4>6, StepFields
        <5>. QED
          BY <4>6, <5>1 DEF StopLast
      <4>7. CASE Unlink(c)
        <5>1. l = Idle
          BY <1>3, <4>7, StepFields
        <5>. QED
          BY <3>2, <4>7, <5>1 DEF Unlink
      <4>. QED
        BY <2>11, <4>1, <4>2, <4>3, <4>4, <4>5, <4>6, <4>7, <4>8
    <3>4. \A m \in Model : Replacing(m) => Replacing(m)'
      BY <2>1, <3>3 DEF Replacing
    <3>. QED
      BY <2>3, <3>1, <3>3, <3>4 DEF AboutToStart
  <2>. QED
    BY <1>7, <2>2, <2>4, <2>5, <2>6, <2>7, <2>8, <2>9, <2>10, <2>11 DEF Run
<1>8. ASSUME NEW c \in Cmds, Kill(c) PROVE Wanted
  BY <1>8 DEF Kill, Fault, Never
<1>9. ASSUME NEW pid \in DOMAIN procs, Bind(pid) \/ Exit(pid) PROVE Wanted
  <2>1. cmd' = cmd /\ stateFile' = stateFile /\ live' = live
    BY <1>9 DEF Bind, Exit
  <2>2. \A m \in Model : Replacing(m) => Replacing(m)'
    BY <2>1 DEF Replacing
  <2>. QED
    BY <1>2, <1>4, <2>1, <2>2
<1>10. ASSUME UNCHANGED vars PROVE Wanted
  <2>1. cmd' = cmd /\ stateFile' = stateFile /\ live' = live
    BY <1>10 DEF vars
  <2>2. \A m \in Model : Replacing(m) => Replacing(m)'
    BY <2>1 DEF Replacing
  <2>. QED
    BY <1>2, <1>4, <2>1, <2>2
<1>. QED
  BY <1>5, <1>6, <1>7, <1>8, <1>9, <1>10 DEF Next

\* When nothing is under way, a running engine serves the live version, if every
\* promotion ran apart from other commands, to its end, and could start its engine.
THEOREM EnginesServeTheLiveVersion == Spec => []EngineServesLive
<1>1. Init => ServesOK
  <2>. SUFFICES ASSUME Init PROVE ServesOK
    OBVIOUS
  <2>1. stateFile = << >> /\ \A c \in Cmds : cmd[c].mine = << >> /\ cmd[c].kind = "none"
    BY DEF Init, Idle
  <2>. QED
    BY <2>1, EmptyList DEF ServesOK, AboutToStart
<1>2. Inductive /\ Inductive' /\ ServesOK /\ [Next]_vars => ServesOK'
  BY InductiveStep, ServesStep
<1>3. ServesOK => EngineServesLive
  <2>. SUFFICES ASSUME ServesOK, Quiet, Never({"killed", "restartFailed"}), NoRestartBeside,
                       NEW s \in ToSet(stateFile), s.svc \in Model, Alive(s.pid)
                PROVE  procs[s.pid].adapter = live[s.svc]
    BY DEF EngineServesLive, NoRestartBeside, Recorded
  <2>1. ~Replacing(s.svc)
    BY DEF Replacing, Quiet, Busy
  <2>. QED
    BY <2>1 DEF ServesOK, Serves
<1>. QED
  BY <1>1, <1>2, <1>3, ServingInvariant, PTL DEF Spec

-----------------------------------------------------------------------------
(* Engine time is counted from up to down                                  *)

One(b) == IF b THEN 1 ELSE 0

\* up is past the item that waits for the engine of m.
Ran(k, m) == \E i \in DOMAIN UpPlan : UpPlan[i] = Item("wait", m) /\ i < k.at

\* While up runs, the engines it is past have an open run; while down runs, those it has
\* yet to stop; else those in the file.
CountOK ==
  Never({"killed", "upFailed"}) /\ Apart(Platform) =>
    /\ \A c \in Cmds : cmd[c].kind = "up" => \A m \in Model : Ran(cmd[c], m) => openRuns[m] = 1
    /\ \A c \in Cmds : cmd[c].kind = "down" => \A m \in Model : openRuns[m] = One(m \in Names(cmd[c].mine))
    /\ (\A c \in Cmds : cmd[c].kind \notin {"up", "down"}) => \A m \in Model : openRuns[m] = One(m \in Names(stateFile))

\* What up is past after one more item.
LEMMA RanNext ==
  ASSUME NEW k, k.kind = "up", k.at \in DOMAIN UpPlan, NEW l, l.at = k.at + 1, NEW m, Ran(l, m)
  PROVE  Ran(k, m) \/ (ItemOf(k).do = "wait" /\ ServiceOf(k) = m)
<1>1. PICK i \in DOMAIN UpPlan : UpPlan[i] = Item("wait", m) /\ i < k.at + 1
  BY DEF Ran
<1>2. DOMAIN UpPlan = 1..Len(UpPlan) /\ Len(UpPlan) \in Nat
  BY PlanFacts DEF PlanFor
<1>3. CASE i < k.at
  BY <1>1, <1>3 DEF Ran
<1>4. CASE ~(i < k.at)
  <2>1. i = k.at
    BY <1>1, <1>2, <1>4
  <2>. QED
    BY <1>1, <2>1 DEF ItemOf, ServiceOf, PlanFor, Item
<1>. QED
  BY <1>3, <1>4

\* Before the last item up is past every other engine, and it has started them all.
LEMMA RanAll ==
  ASSUME NEW k, k.kind = "up", k.at = Len(UpPlan), ItemOf(k).do = "wait", MineOK(k),
         k.pc \notin {"write", "rewrite", "stop"},
         NEW m \in Model
  PROVE  (Ran(k, m) \/ ServiceOf(k) = m) /\ m \in Names(k.mine)
<1>1. /\ DOMAIN UpPlan = 1..Len(UpPlan) /\ Len(UpPlan) \in Nat /\ 1 \in DOMAIN UpPlan /\ PlanOf(UpPlan, UpNames)
  BY PlanFacts DEF PlanFor, NamesOf
<1>2. m \in UpNames
  BY DEF UpNames
<1>3. PICK i, j \in DOMAIN UpPlan : i < j /\ UpPlan[i] = Item("pick", m) /\ UpPlan[j] = Item("wait", m)
  BY <1>1, <1>2 DEF PlanOf
<1>4. i < k.at /\ (j < k.at \/ j = k.at)
  BY <1>1, <1>3
<1>5. Ran(k, m) \/ ServiceOf(k) = m
  <2>1. CASE j < k.at
    BY <1>3, <2>1 DEF Ran
  <2>2. CASE j = k.at
    BY <1>3, <2>2 DEF ItemOf, ServiceOf, PlanFor, Item
  <2>. QED
    BY <1>4, <2>1, <2>2
<1>6. m \in StartedBy(k)
  BY <1>2, <1>3, <1>4 DEF StartedBy, NamesOf, PlanFor
<1>. QED
  BY <1>5, <1>6 DEF MineOK

\* A step of up: what it is past has an open run, and in the end that is all.
LEMMA UpCounts ==
  ASSUME Inductive, Inductive', NEW c \in Cmds, Run(c), cmd[c].kind = "up", Apart(Platform), ~Fail(c), cmd[c].pc # "stop",
         \A m \in Model : Ran(cmd[c], m) => openRuns[m] = 1,
         NEW l, l = cmd'[c]
  PROVE  /\ l.kind = "up" => \A m \in Model : Ran(l, m) => openRuns'[m] = 1
         /\ l.kind # "up" => l.kind = "none" /\ \A m \in Model : openRuns'[m] = One(m \in Names(stateFile'))
<1>. DEFINE k == cmd[c]
<1>1. Shape /\ k \in Command /\ PlaceOK(k) /\ MineOK(k) /\ openRuns \in [Model -> Nat]
  BY DEF Inductive, Shape, CommandOK, CountsOK
<1>2. k.at \in DOMAIN UpPlan
  BY <1>1 DEF PlaceOK, PlanFor
<1>3. Idle.kind = "none"
  BY DEF Idle
<1>4. ASSUME l = Idle, k.at = Len(UpPlan), ItemOf(k).do = "wait", k.pc \notin {"write", "rewrite"}, stateFile' = stateFile,
             NEW m \in Model
      PROVE  One(m \in Names(stateFile')) = 1 /\ (Ran(k, m) \/ ServiceOf(k) = m)
  <2>1. m \in Names(k.mine) /\ (Ran(k, m) \/ ServiceOf(k) = m)
    BY <1>1, <1>4, RanAll
  <2>2. Tracked(k)
    BY DEF Inductive, TrackedOK, NoneBeside, Apart, Platform
  <2>3. k.mine = stateFile
    <3>1. k.mine \in {stateFile, << >>}
      BY <1>4, <2>2 DEF Tracked
    <3>. QED
      BY <2>1, <3>1, EmptyList
  <2>. QED
    BY <1>4, <2>1, <2>3 DEF One
<1>5. ASSUME l.kind = k.kind, l.at = k.at, NEW m, Ran(l, m) PROVE Ran(k, m)
  BY <1>5 DEF Ran
<1>6. CASE Pick(c)
  <2>1. l.kind = k.kind /\ l.at = k.at /\ openRuns' = openRuns
    <3>1. openRuns' = openRuns
      BY <1>6 DEF Pick
    <3>. QED
      BY <1>1, <1>6, <3>1, PickFields
  <2>. QED
    BY <1>5, <2>1
<1>7. CASE Start(c)
  <2>1. l.kind = k.kind /\ l.at = k.at /\ openRuns' = openRuns
    <3>1. openRuns' = openRuns
      BY <1>7 DEF Start
    <3>. QED
      BY <1>1, <1>7, <3>1, StartFields
  <2>. QED
    BY <1>5, <2>1
<1>8. CASE Write(c)
  <2>1. l.kind = k.kind /\ l.at = k.at + 1 /\ ItemOf(k).do = "pick"
    BY <1>1, <1>8, WriteFields DEF Same5
  <2>2. openRuns' = openRuns
    BY <1>8 DEF Write
  <2>. QED
    BY <1>2, <2>1, <2>2, RanNext
<1>13. CASE Truncate(c)
  <2>1. l.kind = k.kind /\ l.at = k.at
    BY <1>1, <1>13, StepFields DEF Same5
  <2>2. openRuns' = openRuns
    BY <1>13 DEF Truncate
  <2>. QED
    BY <1>5, <2>1, <2>2
<1>9. CASE WaitReady(c) /\ ServiceOf(k) \in Model
  <2>1. l.kind = k.kind /\ l.at = k.at
    BY <1>1, <1>9, WaitReadyFields DEF Same5
  <2>2. openRuns' = openRuns
    BY <1>9 DEF WaitReady
  <2>. QED
    BY <1>5, <2>1, <2>2
<1>10. CASE WaitReady(c) /\ ServiceOf(k) \notin Model
  <2>1. (l = Idle /\ k.at = Len(UpPlan)) \/ (l.kind = k.kind /\ l.at = k.at + 1)
    BY <1>1, <1>10, WaitReadyFields DEF Same5
  <2>2. openRuns' = openRuns /\ stateFile' = stateFile /\ k.pc = "wait"
    BY <1>10 DEF WaitReady
  <2>3. ItemOf(k).do = "wait"
    BY <1>1, <1>10, WaitReadyFields
  <2>4. CASE l = Idle /\ k.at = Len(UpPlan)
    BY <1>3, <1>4, <1>10, <2>2, <2>3, <2>4
  <2>5. CASE l.kind = k.kind /\ l.at = k.at + 1
    BY <1>2, <1>10, <2>2, <2>5, RanNext
  <2>. QED
    BY <2>1, <2>4, <2>5
<1>11. CASE CloseRuns(c)
  <2>1. l.kind = k.kind /\ l.at = k.at /\ ServiceOf(k) \in Model
    BY <1>1, <1>11, StepFields DEF Same5
  <2>2. openRuns' = [openRuns EXCEPT ![ServiceOf(k)] = 0] /\ k.pc = "closeRuns"
    BY <1>11, Same DEF CloseRuns
  <2>3. ASSUME NEW m \in Model, Ran(k, m) PROVE m # ServiceOf(k)
    <3>1. PICK i \in DOMAIN UpPlan : UpPlan[i] = Item("wait", m) /\ i < k.at
      BY <2>3 DEF Ran
    <3>2. ItemOf(k) = Item("wait", ServiceOf(k)) /\ ItemOf(k) = UpPlan[k.at]
      <4>1. ItemOf(k).do = "wait" /\ k.at \in DOMAIN PlanFor(k.kind)
        BY <1>1, <2>2, Steps
      <4>2. ItemOf(k) = Item(ItemOf(k).do, ServiceOf(k))
        BY <4>1, ItemFacts
      <4>. QED
        BY <4>1, <4>2 DEF ItemOf, PlanFor
    <3>3. \A p, q \in DOMAIN UpPlan : UpPlan[p] = UpPlan[q] => p = q
      BY Plans DEF PlanOf
    <3>4. i # k.at
      <4>1. DOMAIN UpPlan = 1..Len(UpPlan) /\ Len(UpPlan) \in Nat
        BY PlanFacts DEF PlanFor
      <4>. QED
        BY <1>2, <3>1, <4>1
    <3>. QED
      BY <1>2, <3>1, <3>2, <3>3, <3>4
  <2>. QED
    BY <1>1, <1>5, <2>1, <2>2, <2>3
<1>12. CASE OpenRun(c)
  <2>1. (l = Idle /\ k.at = Len(UpPlan)) \/ (l.kind = k.kind /\ l.at = k.at + 1)
    BY <1>1, <1>12, OpenRunFields DEF Same5
  <2>2. ItemOf(k).do = "wait" /\ ServiceOf(k) \in Model
    BY <1>1, <1>12, OpenRunFields
  <2>3. openRuns' = [openRuns EXCEPT ![ServiceOf(k)] = @ + 1] /\ stateFile' = stateFile /\ k.pc = "openRun"
    BY <1>12, Same DEF OpenRun
  <2>4. openRuns[ServiceOf(k)] = 0 /\ \A m \in Model : openRuns'[m] <= 1 /\ openRuns'[m] \in Nat
    <3>1. Apart({"up"})
      BY DEF Apart, Platform
    <3>2. overlaps' = overlaps
      BY RunLeaves
    <3>. QED
      BY <1>1, <2>3, <3>1, <3>2 DEF Inductive, RunsOK, Apart, Shape, CountsOK
  <2>5. \A m \in Model : Ran(k, m) \/ ServiceOf(k) = m => openRuns'[m] = 1
    BY <1>1, <2>2, <2>3, <2>4
  <2>6. CASE l = Idle /\ k.at = Len(UpPlan)
    BY <1>3, <1>4, <2>2, <2>3, <2>5, <2>6
  <2>7. CASE l.kind = k.kind /\ l.at = k.at + 1
    BY <1>2, <2>5, <2>7, RanNext
  <2>. QED
    BY <2>1, <2>6, <2>7
<1>. QED
  <2>1. k.pc = "stop" \/ k.kind \in {"gate", "restart"} \/ Pick(c) \/ Start(c) \/ Truncate(c)
        \/ Write(c) \/ WaitReady(c) \/ CloseRuns(c) \/ OpenRun(c)
    <3>1. Evaluated(c) => k.kind = "gate"
      BY <1>1, Steps DEF Evaluated
    <3>2. ReadState(c) \/ Launch(c) \/ StopOld(c) => k.kind = "restart"
      BY <1>1, Steps DEF ReadState, Launch, StopOld
    <3>. QED
      BY <3>1, <3>2 DEF Run, StopLast, Unlink, StartNew, RestartFails
  <2>. QED
    BY <1>6, <1>7, <1>8, <1>9, <1>10, <1>11, <1>12, <1>13, <2>1

\* A step of down: the runs of what it has yet to stop are open.
LEMMA DownCounts ==
  ASSUME Shape, NEW c \in Cmds, Run(c), cmd[c].kind = "down",
         \A m \in Model : openRuns[m] = One(m \in Names(cmd[c].mine)),
         NEW l, l = cmd'[c]
  PROVE  /\ l.kind = "down" => \A m \in Model : openRuns'[m] = One(m \in Names(l.mine))
         /\ l.kind # "down" => l.kind = "none" /\ \A m \in Model : openRuns'[m] = One(m \in Names(stateFile'))
<1>. DEFINE k == cmd[c]
<1>1. k \in Command /\ PlaceOK(k) /\ MineOK(k) /\ k.pc = "stop"
  BY DEF Shape, CommandOK, PlaceOK
<1>2. CASE StopLast(c)
  <2>1. l.kind = "down" /\ Names(l.mine) = Names(k.mine) \ {Last(k.mine).svc}
    BY <1>2, StepFields
  <2>2. \A m \in Model : openRuns'[m] = IF m = Last(k.mine).svc THEN 0 ELSE openRuns[m]
    BY <1>2 DEF StopLast
  <2>. QED
    BY <2>1, <2>2 DEF One
<1>3. CASE Unlink(c)
  <2>1. l = Idle
    BY <1>3, StepFields
  <2>2. k.mine = << >> /\ stateFile' = << >> /\ openRuns' = openRuns
    BY <1>3 DEF Unlink
  <2>. QED
    BY <2>1, <2>2 DEF Idle
<1>. QED
  <2>1. StopLast(c) \/ Unlink(c)
    BY <1>1 DEF Run, Pick, Start, Truncate, Write, WaitReady, CloseRuns, OpenRun, Fail, Evaluated,
      ReadState, Launch, StopOld, StartNew, RestartFails
  <2>. QED
    BY <1>2, <1>3, <2>1

\* A step of a gate or of a promotion counts nothing and keeps the services of the file.
LEMMA OthersCount ==
  ASSUME Inductive, NEW c \in Cmds, Run(c), cmd[c].kind \in {"gate", "restart"}, Apart(Platform)
  PROVE  (\A m \in Model : openRuns'[m] = openRuns[m]) /\ Names(stateFile') = Names(stateFile)
<1>. DEFINE k == cmd[c]
<1>1. Shape /\ k \in Command /\ PlaceOK(k)
  BY DEF Inductive, Shape, CommandOK
<1>2. ~CloseRuns(c) /\ ~OpenRun(c)
  BY <1>1, Steps DEF CloseRuns, OpenRun
<1>3. \A m \in Model : openRuns'[m] = openRuns[m]
  <2>1. CASE StopLast(c)
    BY <2>1 DEF StopLast
  <2>2. CASE ~StopLast(c)
    BY <1>2, <2>2, RunLeaves
  <2>. QED
    BY <2>1, <2>2
<1>4. Names(stateFile') = Names(stateFile)
  <2>1. CASE Write(c)
    <3>1. k.kind = "restart" /\ k.pc = "rewrite" /\ stateFile' \in {k.mine, stateFile}
      BY <1>1, <2>1, Steps DEF Write
    <3>2. Tracked(k)
      BY <3>1 DEF Inductive, TrackedOK, NoneBeside, Apart, Platform
    <3>. QED
      BY <3>1, <3>2 DEF Tracked
  <2>2. CASE Unlink(c)
    <3>1. k.kind = "gate"
      BY <1>1, <2>2, Steps DEF Unlink
    <3>. QED
      BY <2>2, <3>1 DEF Unlink
  <2>3. CASE ~Write(c) /\ ~Unlink(c)
    BY <2>3, RunLeaves
  <2>. QED
    BY <2>1, <2>2, <2>3
<1>. QED
  BY <1>3, <1>4

\* Every step keeps CountOK: an engine run is opened after its service is recorded, and closed when down stops it.
LEMMA CountStep ==
  ASSUME Inductive, Inductive', overlaps \subseteq overlaps', past \subseteq past', CountOK, [Next]_vars
  PROVE  CountOK'
<1>. DEFINE Wanted == /\ \A d \in Cmds : \A l : l = cmd'[d] /\ l.kind = "up" => \A m \in Model : Ran(l, m) => openRuns'[m] = 1
                      /\ \A d \in Cmds : \A l : l = cmd'[d] /\ l.kind = "down" =>
                           \A m \in Model : openRuns'[m] = One(m \in Names(l.mine))
                      /\ (\A d \in Cmds : cmd'[d].kind \notin {"up", "down"}) =>
                           \A m \in Model : openRuns'[m] = One(m \in Names(stateFile'))
<1>. SUFFICES ASSUME Never({"killed", "upFailed"})', Apart(Platform)' PROVE Wanted
  <2>1. \A m, m2, s, s2 : m = m2 /\ s = s2 => One(m \in Names(s)) = One(m2 \in Names(s2))
    OBVIOUS
  <2>2. ASSUME Never({"killed", "upFailed"})', Apart(Platform)', Wanted PROVE CountOK'
    <3>1. \A d \in Cmds : cmd'[d].kind = "up" => \A m \in Model : Ran(cmd[d], m)' => openRuns'[m] = 1
      BY <2>2 DEF Ran
    <3>2. \A d \in Cmds : cmd'[d].kind = "down" => \A m \in Model : openRuns'[m] = One(m \in Names(cmd[d].mine))'
      BY <2>2 DEF One, Names
    <3>3. (\A d \in Cmds : cmd'[d].kind \notin {"up", "down"}) => \A m \in Model : openRuns'[m] = One(m \in Names(stateFile))'
      BY <2>2 DEF One, Names
    <3>. QED
      BY <3>1, <3>2, <3>3 DEF CountOK
  <2>. QED
    BY <2>2 DEF CountOK
<1>1. Never({"killed", "upFailed"}) /\ Apart(Platform)
  BY DEF Never, Apart
<1>2. /\ Shape /\ OverlapsOK /\ OverlapsOK'
      /\ \A d \in Cmds : cmd[d].kind = "up" => cmd[d].pc # "stop" /\ \A m \in Model : Ran(cmd[d], m) => openRuns[m] = 1
      /\ \A d \in Cmds : cmd[d].kind = "down" => \A m \in Model : openRuns[m] = One(m \in Names(cmd[d].mine))
      /\ (\A d \in Cmds : cmd[d].kind \notin {"up", "down"}) => \A m \in Model : openRuns[m] = One(m \in Names(stateFile))
  BY <1>1 DEF CountOK, Inductive, OverlapsOK, Never
<1>3. ASSUME NEW c \in Cmds, Up(c) \/ ServePair(c) \/ Down(c) \/ Promote(c) PROVE Wanted
  <2>. DEFINE l == cmd'[c]
  <2>1. /\ Moves(c) /\ cmd[c].kind = "none" /\ openRuns' = openRuns /\ stateFile' = stateFile
        /\ \A d \in Cmds \ {c} : cmd'[d] = cmd[d]
    BY <1>2, <1>3, BeginsKind DEF Moves
  <2>2. l.kind \in Platform => \A d \in Cmds \ {c} : cmd[d].kind \notin Platform
    <3>. SUFFICES ASSUME l.kind \in Platform, NEW d \in Cmds \ {c}, cmd[d].kind \in Platform PROVE FALSE
      OBVIOUS
    <3>1. cmd'[d] = cmd[d] /\ {l.kind, cmd'[d].kind} \in overlaps'
      BY <1>2, <2>1 DEF OverlapsOK, Busy, Platform
    <3>2. {l.kind, cmd'[d].kind} \subseteq Platform
      BY <3>1
    <3>. QED
      BY <3>1, <3>2 DEF Apart
  <2>3. CASE l.kind = "up"
    <3>1. l.at = 1
      <4>1. Up(c)
        BY <1>2, <1>3, <2>3, BeginsKind
      <4>. QED
        BY <1>2, <4>1, BeginFields
    <3>2. \A m \in Model : ~Ran(l, m)
      <4>1. DOMAIN UpPlan = 1..Len(UpPlan) /\ Len(UpPlan) \in Nat
        BY PlanFacts DEF PlanFor
      <4>. QED
        BY <3>1, <4>1 DEF Ran
    <3>3. \A d \in Cmds \ {c} : cmd[d].kind \notin {"up", "down"}
      BY <2>2, <2>3 DEF Platform
    <3>. QED
      BY <2>1, <2>3, <3>2, <3>3
  <2>4. CASE l.kind = "down"
    <3>1. l.mine = stateFile
      <4>1. Down(c)
        BY <1>2, <1>3, <2>4, BeginsKind
      <4>. QED
        BY <1>2, <4>1, BeginFields
    <3>2. \A d \in Cmds : cmd[d].kind \notin {"up", "down"}
      BY <2>1, <2>2, <2>4 DEF Platform
    <3>. QED
      BY <1>2, <2>1, <2>4, <3>1, <3>2
  <2>5. CASE l.kind \notin {"up", "down"}
    BY <1>2, <2>1, <2>5
  <2>. QED
    BY <2>3, <2>4, <2>5
<1>4. ASSUME NEW c \in Cmds, Run(c) PROVE Wanted
  <2>. DEFINE l == cmd'[c]
  <2>1. /\ Moves(c) /\ l.kind \in {cmd[c].kind, "none"} /\ \A d \in Cmds \ {c} : cmd'[d] = cmd[d]
    BY <1>2, <1>4, RunShape, Places DEF Moves
  <2>2. cmd[c].kind \in Platform => \A d \in Cmds \ {c} : cmd[d].kind \notin Platform
    BY <1>1, <1>2, Alone DEF Platform
  <2>3. cmd[c].kind \in Platform \cup {"gate"}
    <3>1. cmd[c] \in Command /\ PlaceOK(cmd[c]) /\ (cmd[c].kind = "none" => cmd[c].pc = "idle" )
      BY <1>2 DEF Shape, CommandOK, PlaceOK, Idle
    <3>2. cmd[c].pc # "idle"
      <4>1. CASE Fail(c) \/ RestartFails(c)
        <5>1. cmd[c].kind # "none"
          BY <4>1 DEF Fail, RestartFails
        <5>. QED
          BY <3>1, <5>1 DEF PlaceOK, Command, Kind
      <4>. QED
        BY <1>4, <4>1 DEF Run, Pick, Start, Truncate, Write, WaitReady, CloseRuns, OpenRun, Evaluated, StopLast, Unlink,
          ReadState, Launch, StopOld, StartNew
    <3>. QED
      BY <3>1, <3>2 DEF Command, Kind, Platform
  <2>4. CASE cmd[c].kind = "up"
    <3>1. ~Fail(c)
      BY <2>4 DEF Fail, Fault, Never
    <3>2. /\ l.kind = "up" => \A m \in Model : Ran(l, m) => openRuns'[m] = 1
          /\ l.kind # "up" => l.kind = "none" /\ \A m \in Model : openRuns'[m] = One(m \in Names(stateFile'))
      BY <1>1, <1>2, <1>4, <2>4, <3>1, UpCounts
    <3>3. \A d \in Cmds \ {c} : cmd'[d].kind \notin {"up", "down"}
      BY <2>1, <2>2, <2>4 DEF Platform
    <3>. QED
      BY <2>1, <2>4, <3>2, <3>3
  <2>5. CASE cmd[c].kind = "down"
    <3>1. /\ l.kind = "down" => \A m \in Model : openRuns'[m] = One(m \in Names(l.mine))
          /\ l.kind # "down" => l.kind = "none" /\ \A m \in Model : openRuns'[m] = One(m \in Names(stateFile'))
      BY <1>2, <1>4, <2>5, DownCounts
    <3>2. \A d \in Cmds \ {c} : cmd'[d].kind \notin {"up", "down"}
      BY <2>1, <2>2, <2>5 DEF Platform
    <3>. QED
      BY <2>1, <2>5, <3>1, <3>2
  <2>6. CASE cmd[c].kind \in {"gate", "restart"}
    <3>1. (\A m \in Model : openRuns'[m] = openRuns[m]) /\ Names(stateFile') = Names(stateFile)
      BY <1>1, <1>4, <2>6, OthersCount
    <3>. QED
      BY <1>2, <2>1, <2>6, <3>1
  <2>. QED
    BY <2>3, <2>4, <2>5, <2>6 DEF Platform
<1>5. ASSUME NEW c \in Cmds, Kill(c) PROVE Wanted
  BY <1>5 DEF Kill, Fault, Never
<1>6. ASSUME NEW pid \in DOMAIN procs, Bind(pid) \/ Exit(pid) PROVE Wanted
  <2>1. cmd' = cmd /\ stateFile' = stateFile /\ openRuns' = openRuns
    BY <1>6 DEF Bind, Exit
  <2>. QED
    BY <1>2, <2>1
<1>7. ASSUME UNCHANGED vars PROVE Wanted
  BY <1>2, <1>7 DEF vars
<1>. QED
  BY <1>3, <1>4, <1>5, <1>6, <1>7 DEF Next

\* A model's time counts exactly from a successful up to the next down.
THEOREM RunsAreCounted == Spec => []RunsMatchServices
<1>1. Init => CountOK
  <2>. SUFFICES ASSUME Init PROVE CountOK
    OBVIOUS
  <2>1. stateFile = << >> /\ openRuns = [m \in Model |-> 0] /\ \A c \in Cmds : cmd[c].kind = "none"
    BY DEF Init, Idle
  <2>. QED
    BY <2>1, EmptyList DEF CountOK, One
<1>2. Inductive /\ Inductive' /\ CountOK /\ [Next]_vars => CountOK'
  BY InductiveStep, CountStep
<1>3. Inductive /\ CountOK => RunsMatchServices
  <2>. SUFFICES ASSUME Inductive, CountOK, Quiet, Never({"killed", "upFailed"}), Apart(Platform), NEW m \in Model
                PROVE  openRuns[m] = Cardinality({s \in ToSet(stateFile) : s.svc = m})
    BY ReadableAtRest DEF RunsMatchServices, Never
  <2>1. openRuns[m] = One(m \in Names(stateFile))
    BY DEF CountOK, Quiet, Busy
  <2>. DEFINE S == {s \in ToSet(stateFile) : s.svc = m}
  <2>2. CASE m \in Names(stateFile)
    <3>1. PICK s \in ToSet(stateFile) : s.svc = m
      BY <2>2 DEF Names
    <3>2. S = {s}
      BY <3>1 DEF Inductive, Shape, ListOK, OneEach
    <3>. QED
      BY <2>1, <2>2, <3>2, FS_Singleton DEF One
  <2>3. CASE m \notin Names(stateFile)
    <3>1. S = {}
      BY <2>3 DEF Names
    <3>. QED
      BY <2>1, <2>3, <3>1, FS_EmptySet DEF One
  <2>. QED
    BY <2>2, <2>3
<1>. QED
  BY <1>1, <1>2, <1>3, ServingInvariant, PTL DEF Spec

-----------------------------------------------------------------------------
(* A gate measures the engines it started                                  *)

\* The port of an entry is the port of an entry of the file.
PortInFile(s) == \E t \in ToSet(stateFile) : t.port = s.port

\* restart_engine keeps the port of the engine that it replaces.
SwapKeepsPorts ==
  Apart(Platform) => \A c \in Cmds : cmd[c].kind = "restart" => \A s \in ToSet(cmd[c].mine) : PortInFile(s)

Own(k) == {s.port : s \in ToSet(k.mine)}

\* The ports of a gate's own engines, of those of the file and the one that the gate is
\* about to take are apart from each other, and the gate knows of every port in use.
GateHolds(k) ==
  /\ Own(k) \subseteq k.taken
  /\ \A s, t \in ToSet(k.mine) : s.port = t.port => s = t
  /\ \A s \in ToSet(stateFile) : s.port \in k.taken /\ s.port \notin Own(k)
  /\ \A pid \in DOMAIN procs : Alive(pid) => procs[pid].port \in k.taken
  /\ \A pid \in DOMAIN procs : Alive(pid) /\ procs[pid].port \in Own(k) => \E s \in ToSet(k.mine) : s.pid = pid
  /\ k.pc = "start" => /\ k.port \in k.taken /\ k.port \notin Own(k)
                       /\ \A s \in ToSet(stateFile) : s.port # k.port
                       /\ \A pid \in DOMAIN procs : Alive(pid) => procs[pid].port # k.port

Undisturbed == Never({"killed"}) /\ Apart(Platform) /\ Apart({"gate", "up"})

GateOK == Undisturbed => \A c \in Cmds : cmd[c].kind = "gate" /\ cmd[c].pc # "stop" => GateHolds(cmd[c])

\* A restart keeps the ports of the list that it writes back.
LEMMA SwapStep ==
  ASSUME Inductive, Inductive', overlaps \subseteq overlaps', SwapKeepsPorts, [Next]_vars
  PROVE  SwapKeepsPorts'
<1>. SUFFICES ASSUME Apart(Platform)', NEW d \in Cmds, NEW l, l = cmd'[d], l.kind = "restart", NEW s \in ToSet(l.mine)
              PROVE  PortInFile(s)'
  <2>1. ASSUME \A d \in Cmds : \A l : Apart(Platform)' /\ l = cmd'[d] /\ l.kind = "restart" =>
                 \A s \in ToSet(l.mine) : PortInFile(s)'
        PROVE  SwapKeepsPorts'
    BY <2>1 DEF SwapKeepsPorts
  <2>. QED
    BY <2>1
<1>1. Apart(Platform) /\ Shape /\ OverlapsOK /\ OverlapsOK'
  BY DEF Apart, Inductive
<1>2. ASSUME cmd[d] = l, stateFile' = stateFile PROVE PortInFile(s)'
  BY <1>1, <1>2 DEF SwapKeepsPorts, PortInFile
<1>3. ASSUME NEW c \in Cmds, Up(c) \/ ServePair(c) \/ Down(c) \/ Promote(c) PROVE PortInFile(s)'
  <2>1. Moves(c) /\ stateFile' = stateFile /\ (cmd'[c].kind = "restart" <=> Promote(c))
    BY <1>1, <1>3, BeginsKind
  <2>2. Promote(c) => cmd'[c].mine = << >>
    BY <1>1, BeginFields
  <2>3. d # c
    BY <2>1, <2>2, EmptyList
  <2>. QED
    BY <1>2, <2>1, <2>3 DEF Moves
<1>4. ASSUME NEW c \in Cmds, Run(c) \/ Kill(c) PROVE PortInFile(s)'
  <2>. DEFINE k == cmd[c]
  <2>1. Moves(c) /\ cmd'[c].kind \in {k.kind, "none"} /\ k \in Command /\ PlaceOK(k) /\ MineOK(k)
    BY <1>1, <1>4, RunShape, Places DEF Shape, CommandOK
  <2>2. CASE d = c
    <3>1. k.kind = "restart" /\ \A t \in ToSet(k.mine) : PortInFile(t)
      BY <1>1, <2>1, <2>2 DEF SwapKeepsPorts
    <3>2. Idle.kind = "none"
      BY DEF Idle
    <3>3. CASE ReadState(c)
      <4>1. l.mine = stateFile /\ stateFile' = stateFile
        <5>1. stateFile' = stateFile
          BY <3>3 DEF ReadState
        <5>. QED
          BY <1>1, <2>2, <3>2, <3>3, <5>1, StepFields
      <4>. QED
        BY <4>1 DEF PortInFile
    <3>4. CASE Launch(c) \/ StopOld(c) \/ Truncate(c)
      <4>1. l.mine = k.mine
        BY <1>1, <2>2, <3>4, StepFields DEF Same5
      <4>2. stateFile' = stateFile
        BY <3>4 DEF Launch, StopOld, Truncate
      <4>. QED
        BY <3>1, <4>1, <4>2 DEF PortInFile
    <3>5. CASE StartNew(c)
      <4>1. /\ EntryOf(k) \in ToSet(k.mine) /\ EntryOf(k).port = k.port
            /\ ToSet(l.mine) = (ToSet(k.mine) \ {EntryOf(k)}) \cup {NewService(c)}
        BY <1>1, <2>2, <3>5, StartNewFields
      <4>2. stateFile' = stateFile
        BY <3>5 DEF StartNew
      <4>3. NewService(c).port = EntryOf(k).port
        BY <4>1 DEF NewService
      <4>. QED
        BY <3>1, <4>1, <4>2, <4>3 DEF PortInFile
    <3>6. CASE Write(c)
      <4>1. l.mine = k.mine /\ (stateFile' = k.mine \/ stateFile' = stateFile)
        BY <1>1, <2>2, <3>6, WriteFields DEF Same5
      <4>. QED
        BY <3>1, <4>1 DEF PortInFile
    <3>7. CASE WaitReady(c) \/ RestartFails(c) \/ Unlink(c) \/ Kill(c)
      <4>1. l = Idle
        BY <1>1, <2>2, <3>1, <3>7, WaitReadyFields, StepFields
      <4>. QED
        BY <3>2, <4>1
    <3>8. ~(Pick(c) \/ Start(c) \/ CloseRuns(c) \/ OpenRun(c) \/ Fail(c) \/ Evaluated(c) \/ StopLast(c))
      BY <1>1, <3>1, PickFields, StartFields, OpenRunFields, StepFields, StopLastMoves, ZenonT(60)
    <3>. QED
      BY <1>4, <3>3, <3>4, <3>5, <3>6, <3>7, <3>8 DEF Run
  <2>3. CASE d # c
    <3>1. cmd[d] = l
      BY <2>1, <2>3 DEF Moves
    <3>2. k.kind \notin Platform
      <4>1. ASSUME k.kind \in Platform PROVE FALSE
        BY <1>1, <2>3, <3>1, <4>1, Alone DEF Platform
      <4>. QED
        BY <4>1
    <3>3. stateFile' = stateFile
      <4>1. CASE Write(c)
        BY <1>1, <3>2, <4>1, WriteFields DEF Platform
      <4>2. CASE Unlink(c)
        <5>1. k.kind = "gate"
          BY <2>1, <3>2, <4>2, Steps DEF Platform, Unlink
        <5>. QED
          BY <4>2, <5>1 DEF Unlink
      <4>3. CASE Kill(c)
        BY <4>3 DEF Kill
      <4>. QED
        BY <1>4, <4>1, <4>2, <4>3, RunLeaves
    <3>. QED
      BY <1>2, <3>1, <3>3
  <2>. QED
    BY <2>2, <2>3
<1>5. ASSUME NEW pid \in DOMAIN procs, Bind(pid) \/ Exit(pid) PROVE PortInFile(s)'
  <2>1. cmd' = cmd /\ stateFile' = stateFile
    BY <1>5 DEF Bind, Exit
  <2>. QED
    BY <1>2, <2>1
<1>6. ASSUME UNCHANGED vars PROVE PortInFile(s)'
  BY <1>2, <1>6 DEF vars
<1>. QED
  BY <1>3, <1>4, <1>5, <1>6 DEF Next

\* Somebody else's step: nobody takes a port that the file did not have already.
LEMMA GateHoldsOn ==
  ASSUME Grows, NEW k, GateHolds(k), \A s \in ToSet(stateFile') : PortInFile(s),
         \A s \in ToSet(k.mine) : Entry(s),
         \A pid \in DOMAIN procs' : pid \notin DOMAIN procs => \E s \in ToSet(stateFile) : s.port = procs'[pid].port
  PROVE  GateHolds(k)'
<1>1. ASSUME NEW pid \in DOMAIN procs', Alive(pid)'
      PROVE  \/ pid \in DOMAIN procs /\ Alive(pid) /\ procs'[pid].port = procs[pid].port
             \/ \E s \in ToSet(stateFile) : s.port = procs'[pid].port
  BY <1>1 DEF Grows, Alive
<1>2. Own(k)' = Own(k)
  BY DEF Own
<1>3. \A s \in ToSet(stateFile') : s.port \in k.taken /\ s.port \notin Own(k)
  BY DEF GateHolds, PortInFile
<1>4. \A pid \in DOMAIN procs' : Alive(pid)' => procs'[pid].port \in k.taken
  BY <1>1 DEF GateHolds
<1>5. \A pid \in DOMAIN procs' : Alive(pid)' /\ procs'[pid].port \in Own(k) => \E s \in ToSet(k.mine) : s.pid = pid
  BY <1>1 DEF GateHolds
<1>6. k.pc = "start" => /\ \A s \in ToSet(stateFile') : s.port # k.port
                        /\ \A pid \in DOMAIN procs' : Alive(pid)' => procs'[pid].port # k.port
  BY <1>1 DEF GateHolds, PortInFile
<1>. QED
  BY <1>2, <1>3, <1>4, <1>5, <1>6 DEF GateHolds

\* A gate begins: every running service is in the file, whose ports it takes for taken.
LEMMA GateBegins ==
  ASSUME Inductive, Inductive', SwapKeepsPorts, Undisturbed', overlaps \subseteq overlaps', past \subseteq past',
         NEW c \in Cmds, ServePair(c), NEW l, l = cmd'[c]
  PROVE  GateHolds(l)'
<1>1. /\ Shape /\ OverlapsOK /\ OverlapsOK' /\ TrackedOK /\ FewGone /\ Apart(Platform) /\ Apart(Platform)'
      /\ Apart({"gate", "up"})' /\ "killed" \notin past
  BY DEF Inductive, Undisturbed, Apart, Never
<1>2. /\ Moves(c) /\ cmd[c] = Idle /\ procs' = procs /\ stateFile' = stateFile
  BY <1>1, BeginsKind
<1>3. /\ l.kind = "gate" /\ l.pc = "pick" /\ ToSet(l.mine) = {} /\ l.taken = {s.port : s \in ToSet(stateFile)}
  BY <1>1, BeginFields, EmptyList
<1>4. Gone = {}
  <2>1. kills = 0 /\ Len(GateRuns) \in Nat /\ kills * Len(GateRuns) = 0
    BY <1>1, ServingAssumption DEF OverlapsOK
  <2>2. /\ IsFiniteSet(PlatformGone) /\ Cardinality(PlatformGone) \in Nat
        /\ IsFiniteSet(GateGone) /\ Cardinality(GateGone) \in Nat
    BY <1>1, FewProcesses DEF PlatformGone, GateGone, Gone, Shape
  <2>3. Cardinality(PlatformGone) <= 0 /\ Cardinality(GateGone) <= 0
    BY <1>1, <2>1 DEF FewGone
  <2>4. Cardinality(PlatformGone) = 0 /\ Cardinality(GateGone) = 0
    BY <2>2, <2>3
  <2>5. PlatformGone = {} /\ GateGone = {}
    BY <2>2, <2>4, FS_EmptySet
  <2>. QED
    BY <2>5 DEF PlatformGone, GateGone
<1>5. ASSUME NEW d \in Cmds, NEW s \in ToSet(cmd[d].mine) PROVE PortInFile(s)
  <2>1. d # c
    BY <1>2, <1>5, EmptyList DEF Idle
  <2>2. cmd'[d] = cmd[d]
    BY <1>2, <2>1 DEF Moves
  <2>3. cmd[d].kind # "none"
    <3>1. cmd[d].kind = "none" => cmd[d] = Idle
      BY <1>1 DEF Shape, CommandOK, PlaceOK
    <3>. QED
      BY <1>5, <3>1, EmptyList DEF Idle
  <2>4. cmd[d].kind # "gate"
    BY <1>1, <1>3, <2>1, <2>2 DEF OverlapsOK
  <2>5. cmd[d].kind # "up"
    <3>1. {l.kind, cmd'[d].kind} \in overlaps'
      BY <1>1, <1>3, <2>1, <2>2, <2>3 DEF OverlapsOK, Busy
    <3>. QED
      BY <1>1, <1>3, <2>2, <3>1 DEF Apart
  <2>6. CASE cmd[d].kind = "down"
    <3>1. Tracked(cmd[d])
      BY <1>1, <2>6 DEF TrackedOK, NoneBeside, Apart, Platform
    <3>. QED
      BY <1>5, <2>6, <3>1 DEF Tracked, PortInFile
  <2>7. CASE cmd[d].kind = "restart"
    BY <1>1, <1>5, <2>7 DEF SwapKeepsPorts
  <2>. QED
    BY <1>1, <2>3, <2>4, <2>5, <2>6, <2>7 DEF Shape, Command, Kind
<1>6. ASSUME NEW pid \in DOMAIN procs, Alive(pid) PROVE procs[pid].port \in l.taken
  <2>1. PICK d \in Cmds : \E s \in ToSet(stateFile) \cup ToSet(cmd[d].mine) : s.pid = pid
    BY <1>4, <1>6 DEF Gone
  <2>. PICK s \in ToSet(stateFile) \cup ToSet(cmd[d].mine) : s.pid = pid
    BY <2>1
  <2>2. procs[pid].port = s.port
    BY <1>1 DEF Shape, Entry
  <2>3. PortInFile(s)
    BY <1>5 DEF PortInFile
  <2>. QED
    BY <1>3, <2>2, <2>3 DEF PortInFile
<1>7. Own(l) = {} /\ Own(l)' = {}
  BY <1>3 DEF Own
<1>8. \A pid \in DOMAIN procs' : Alive(pid)' => procs'[pid].port \in l.taken
  BY <1>2, <1>6 DEF Alive
<1>. QED
  BY <1>2, <1>3, <1>7, <1>8 DEF GateHolds

\* A step of the gate itself.
LEMMA GateGoesOn ==
  ASSUME Shape, NEW c \in Cmds, Run(c), cmd[c].kind = "gate", cmd[c].pc # "stop", GateHolds(cmd[c]),
         NEW l, l = cmd'[c], l.kind = "gate", l.pc # "stop"
  PROVE  GateHolds(l)'
<1>. DEFINE k == cmd[c]
<1>1. k \in Command /\ PlaceOK(k) /\ \A s \in ToSet(k.mine) : Entry(s)
  BY DEF Shape, CommandOK
<1>2. CASE Pick(c)
  <2>1. /\ l.mine = k.mine /\ l.port \in PortFor(c) /\ l.taken = k.taken \cup {l.port}
    BY <1>2, PickFields
  <2>2. procs' = procs /\ stateFile' = stateFile /\ k.pc = "pick"
    BY <1>2 DEF Pick
  <2>3. l.port \notin k.taken
    <3>1. ServiceOf(k) \in GateNames
      <4>1. ServiceOf(k) \in NamesOf(k.kind)
        BY <1>1, Steps
      <4>. QED
        BY <4>1 DEF NamesOf
    <3>2. ServiceOf(k) \notin DOMAIN FixedPort
      BY <3>1, ServingAssumption DEF GateNames
    <3>3. PortFor(c) = PickPort(k.taken)
      BY <3>2, Same DEF PortFor
    <3>. QED
      BY <2>1, <3>3 DEF PickPort
  <2>4. Own(l) = Own(k) /\ Own(l)' = Own(l)
    BY <2>1 DEF Own
  <2>5. \A pid : Alive(pid)' <=> Alive(pid)
    BY <2>2 DEF Alive
  <2>. QED
    BY <2>1, <2>2, <2>3, <2>4, <2>5 DEF GateHolds
<1>3. CASE Start(c)
  <2>. DEFINE s == NewService(c)
              n == Len(procs) + 1
  <2>1. /\ l.taken = k.taken /\ ToSet(l.mine) = ToSet(k.mine) \cup {s} /\ l.pc # "start"
        /\ procs' = Append(procs, Launched(c, Current(c))) /\ ServiceOf(k) \in STRING
    BY <1>3, StartFields
  <2>2. stateFile' = stateFile /\ k.pc = "start"
    BY <1>3 DEF Start
  <2>3. /\ Len(procs) + 1 \notin DOMAIN procs /\ DOMAIN procs' = DOMAIN procs \cup {Len(procs) + 1}
        /\ procs'[Len(procs) + 1] = [svc |-> ServiceOf(k), port |-> k.port, adapter |-> k.adapter, st |-> "starting"]
        /\ \A pid \in DOMAIN procs : procs'[pid] = procs[pid]
    BY <2>1, LaunchedGrows
  <2>4. s.port = k.port /\ s.pid = n
    BY DEF NewService
  <2>. HIDE DEF s, n
  <2>5. n \notin DOMAIN procs /\ DOMAIN procs' = DOMAIN procs \cup {n} /\ procs'[n].port = k.port
    BY <2>3 DEF n
  <2>6. \A pid \in DOMAIN procs : (Alive(pid)' <=> Alive(pid)) /\ procs'[pid].port = procs[pid].port
    BY <2>3 DEF Alive
  <2>7. Own(l) = Own(k) \cup {k.port} /\ Own(l)' = Own(l)
    BY <2>1, <2>4 DEF Own
  <2>8. k.port \in k.taken /\ k.port \notin Own(k) /\ (\A t \in ToSet(stateFile) : t.port # k.port)
        /\ \A pid \in DOMAIN procs : Alive(pid) => procs[pid].port # k.port
    BY <2>2 DEF GateHolds
  <2>9. \A t, u \in ToSet(l.mine) : t.port = u.port => t = u
    <3>1. \A t \in ToSet(k.mine) : t.port # s.port
      BY <2>4, <2>8 DEF Own
    <3>. QED
      BY <2>1, <3>1 DEF GateHolds
  <2>10. \A t \in ToSet(stateFile') : t.port \in l.taken /\ t.port \notin Own(l)
    BY <2>1, <2>2, <2>7, <2>8 DEF GateHolds
  <2>11. \A pid \in DOMAIN procs' : Alive(pid)' => procs'[pid].port \in l.taken
    BY <2>1, <2>5, <2>6, <2>8 DEF GateHolds
  <2>12. \A pid \in DOMAIN procs' : Alive(pid)' /\ procs'[pid].port \in Own(l) => \E t \in ToSet(l.mine) : t.pid = pid
    <3>. SUFFICES ASSUME NEW pid \in DOMAIN procs', Alive(pid)', procs'[pid].port \in Own(l)
                  PROVE  \E t \in ToSet(l.mine) : t.pid = pid
      OBVIOUS
    <3>1. CASE pid = n
      BY <2>1, <2>4, <3>1
    <3>2. CASE pid # n
      <4>1. pid \in DOMAIN procs /\ Alive(pid) /\ procs[pid].port \in Own(k)
        BY <2>5, <2>6, <2>7, <2>8, <3>2
      <4>. QED
        BY <2>1, <4>1 DEF GateHolds
    <3>. QED
      BY <3>1, <3>2
  <2>13. Own(l) \subseteq l.taken
    BY <2>1, <2>7, <2>8 DEF GateHolds
  <2>. QED
    BY <2>1, <2>7, <2>9, <2>10, <2>11, <2>12, <2>13 DEF GateHolds
<1>4. CASE WaitReady(c)
  <2>1. l.mine = k.mine /\ l.taken = k.taken /\ l.pc # "start"
    BY <1>4, WaitReadyFields DEF Same5
  <2>2. procs' = procs /\ stateFile' = stateFile
    BY <1>4 DEF WaitReady
  <2>3. Own(l) = Own(k) /\ Own(l)' = Own(l)
    BY <2>1 DEF Own
  <2>4. \A pid : Alive(pid)' <=> Alive(pid)
    BY <2>2 DEF Alive
  <2>. QED
    BY <2>1, <2>2, <2>3, <2>4 DEF GateHolds
<1>5. CASE Fail(c) \/ Evaluated(c)
  BY <1>5, StepFields
<1>. QED
  <2>1. ~(Truncate(c) \/ Write(c) \/ CloseRuns(c) \/ OpenRun(c) \/ ReadState(c) \/ Launch(c) \/ StopOld(c) \/ StartNew(c))
    BY WriteFields, OpenRunFields, StartNewFields, StepFields
  <2>2. ~(StopLast(c) \/ Unlink(c) \/ RestartFails(c))
    BY DEF StopLast, Unlink, RestartFails
  <2>. QED
    BY <1>2, <1>3, <1>4, <1>5, <2>1, <2>2 DEF Run

\* Every step keeps GateOK: nobody else can take a port that a gate has picked.
LEMMA GateStep ==
  ASSUME Inductive, Inductive', SwapKeepsPorts, Grows, overlaps \subseteq overlaps', past \subseteq past', GateOK, [Next]_vars
  PROVE  GateOK'
<1>. SUFFICES ASSUME Undisturbed', NEW d \in Cmds, NEW l, l = cmd'[d], l.kind = "gate", l.pc # "stop"
              PROVE  GateHolds(l)'
  <2>1. ASSUME \A d \in Cmds : \A l : Undisturbed' /\ l = cmd'[d] /\ l.kind = "gate" /\ l.pc # "stop" => GateHolds(l)'
        PROVE  GateOK'
    BY <2>1 DEF GateOK
  <2>. QED
    BY <2>1
<1>1. Undisturbed /\ Shape /\ OverlapsOK /\ OverlapsOK' /\ Apart(Platform) /\ Apart({"gate", "up"})
  BY DEF Undisturbed, Apart, Never, Inductive
<1>2. ASSUME cmd[d] = l, \A s \in ToSet(stateFile') : PortInFile(s),
             \A pid \in DOMAIN procs' : pid \notin DOMAIN procs => \E s \in ToSet(stateFile) : s.port = procs'[pid].port
      PROVE  GateHolds(l)'
  <2>1. GateHolds(l)
    BY <1>1, <1>2 DEF GateOK
  <2>2. \A s \in ToSet(l.mine) : Entry(s)
    BY <1>1, <1>2 DEF Shape
  <2>. QED
    BY <1>2, <2>1, <2>2, GateHoldsOn
<1>3. ASSUME cmd[d] = l, stateFile' = stateFile, DOMAIN procs' = DOMAIN procs PROVE GateHolds(l)'
  BY <1>2, <1>3 DEF PortInFile
<1>4. ASSUME NEW c \in Cmds, Up(c) \/ ServePair(c) \/ Down(c) \/ Promote(c) PROVE GateHolds(l)'
  <2>1. /\ Moves(c) /\ stateFile' = stateFile /\ procs' = procs /\ (cmd'[c].kind = "gate" <=> ServePair(c))
    BY <1>1, <1>4, BeginsKind
  <2>2. CASE d = c
    BY <2>1, <2>2, GateBegins
  <2>3. CASE d # c
    BY <1>3, <2>1, <2>3 DEF Moves
  <2>. QED
    BY <2>2, <2>3
<1>5. ASSUME NEW c \in Cmds, Run(c) PROVE GateHolds(l)'
  <2>. DEFINE k == cmd[c]
  <2>1. Moves(c) /\ cmd'[c].kind \in {k.kind, "none"} /\ k \in Command /\ PlaceOK(k) /\ MineOK(k)
    BY <1>1, <1>5, RunShape, Places DEF Shape, CommandOK
  <2>2. CASE d = c
    <3>1. k.kind = "gate"
      BY <2>1, <2>2
    <3>2. k.pc # "stop"
      <4>1. ASSUME k.pc = "stop" PROVE FALSE
        <5>1. StopLast(c) \/ Unlink(c)
          BY <1>5, <3>1, <4>1 DEF Run, Pick, Start, Truncate, Write, WaitReady, CloseRuns, OpenRun, Fail, Evaluated,
            ReadState, Launch, StopOld, StartNew, RestartFails
        <5>2. l.pc = "stop" \/ l = Idle
          BY <1>1, <2>2, <5>1, StepFields
        <5>. QED
          BY <5>2 DEF Idle
      <4>. QED
        BY <4>1
    <3>3. GateHolds(k)
      BY <1>1, <3>1, <3>2 DEF GateOK
    <3>. QED
      BY <1>1, <1>5, <2>2, <3>1, <3>2, <3>3, GateGoesOn
  <2>3. CASE d # c
    <3>1. cmd[d] = l
      BY <2>1, <2>3 DEF Moves
    <3>2. k.kind # "none"
      <4>1. k.kind = "none" => k.pc = "idle"
        BY <2>1 DEF PlaceOK, Idle
      <4>2. CASE Fail(c) \/ RestartFails(c)
        BY <4>2 DEF Fail, RestartFails
      <4>. QED
        BY <1>5, <4>1, <4>2 DEF Run, Pick, Start, Truncate, Write, WaitReady, CloseRuns, OpenRun, Evaluated, StopLast, Unlink,
          ReadState, Launch, StopOld, StartNew
    <3>3. k.kind # "gate"
      BY <1>1, <2>3, <3>1 DEF OverlapsOK
    <3>4. k.kind # "up"
      <4>1. {k.kind, cmd[d].kind} \in overlaps
        BY <1>1, <2>3, <3>1, <3>2 DEF OverlapsOK, Busy
      <4>. QED
        BY <1>1, <3>1, <4>1 DEF Apart
    <3>5. \A s \in ToSet(stateFile') : PortInFile(s)
      <4>1. CASE Write(c)
        <5>1. (stateFile' = k.mine \/ stateFile' = stateFile) /\ k.kind = "restart"
          BY <1>1, <3>4, <4>1, WriteFields
        <5>. QED
          BY <1>1, <5>1 DEF SwapKeepsPorts, PortInFile
      <4>2. CASE Unlink(c)
        BY <4>2, EmptyList DEF Unlink, PortInFile
      <4>3. CASE ~Write(c) /\ ~Unlink(c)
        BY <1>5, <4>3, RunLeaves DEF PortInFile
      <4>. QED
        BY <4>1, <4>2, <4>3
    <3>6. \A pid \in DOMAIN procs' : pid \notin DOMAIN procs => \E s \in ToSet(stateFile) : s.port = procs'[pid].port
      <4>1. ~Start(c)
        BY <1>1, <3>3, <3>4, StartFields
      <4>2. CASE StartNew(c)
        <5>. DEFINE n == Len(procs) + 1
        <5>1. /\ k.kind = "restart" /\ EntryOf(k) \in ToSet(k.mine) /\ EntryOf(k).port = k.port
              /\ ServiceOf(k) \in STRING /\ procs' = Append(procs, Launched(c, Current(c)))
          BY <1>1, <4>2, StartNewFields
        <5>2. DOMAIN procs' = DOMAIN procs \cup {n} /\ procs'[n] =
                [svc |-> ServiceOf(k), port |-> k.port, adapter |-> k.adapter, st |-> "starting"]
          BY <1>1, <5>1, LaunchedGrows
        <5>. HIDE DEF n
        <5>3. procs'[n].port = k.port
          BY <5>2
        <5>4. PortInFile(EntryOf(k))
          BY <1>1, <5>1 DEF SwapKeepsPorts
        <5>. QED
          BY <5>1, <5>2, <5>3, <5>4 DEF PortInFile
      <4>3. CASE StopLast(c) \/ StopOld(c)
        <5>1. DOMAIN procs' = DOMAIN procs
          BY <4>3 DEF StopLast, StopOld, Stopped
        <5>. QED
          BY <5>1
      <4>4. CASE ~StartNew(c) /\ ~StopLast(c) /\ ~StopOld(c)
        BY <1>5, <4>1, <4>4, RunLeaves
      <4>. QED
        BY <4>2, <4>3, <4>4
    <3>. QED
      BY <1>2, <3>1, <3>5, <3>6
  <2>. QED
    BY <2>2, <2>3
<1>6. ASSUME NEW c \in Cmds, Kill(c) PROVE GateHolds(l)'
  BY <1>6 DEF Kill, Fault, Never, Undisturbed
<1>7. ASSUME NEW pid \in DOMAIN procs, Bind(pid) \/ Exit(pid) PROVE GateHolds(l)'
  <2>1. cmd' = cmd /\ stateFile' = stateFile
    BY <1>7 DEF Bind, Exit
  <2>2. DOMAIN procs' = DOMAIN procs
    BY <1>7 DEF Bind, Exit, Stopped
  <2>. QED
    BY <1>3, <2>1, <2>2
<1>8. ASSUME UNCHANGED vars PROVE GateHolds(l)'
  BY <1>3, <1>8 DEF vars
<1>. QED
  BY <1>4, <1>5, <1>6, <1>7, <1>8 DEF Next

\* What a gate evaluates is what it started: nobody else answers at its ports, unless a
\* command that starts engines ran at the same time, or an earlier one lost an engine.
THEOREM GatesMeasureTheirOwn == Spec => []GateMeasuresItsOwn
<1>1. Init => SwapKeepsPorts /\ GateOK
  <2>. SUFFICES ASSUME Init PROVE SwapKeepsPorts /\ GateOK
    OBVIOUS
  <2>1. \A c \in Cmds : cmd[c].kind = "none"
    BY DEF Init, Idle
  <2>. QED
    BY <2>1 DEF SwapKeepsPorts, GateOK
<1>2. Inductive /\ Inductive' /\ SwapKeepsPorts /\ GateOK /\ [Next]_vars => SwapKeepsPorts' /\ GateOK'
  BY InductiveStep, SwapStep, GateStep
<1>3. Inductive /\ GateOK => GateMeasuresItsOwn
  <2>. SUFFICES ASSUME Inductive, GateOK, Undisturbed, NEW c \in Cmds, cmd[c].pc = "evaluating",
                       NEW s \in ToSet(cmd[c].mine), NEW pid \in Answering(s.port)
                PROVE  pid = s.pid
    BY DEF GateMeasuresItsOwn, Undisturbed
  <2>1. cmd[c].kind = "gate"
    BY Steps DEF Inductive, Shape, CommandOK
  <2>2. GateHolds(cmd[c]) /\ \A t \in ToSet(cmd[c].mine) : Entry(t)
    BY <2>1 DEF GateOK, Inductive, Shape
  <2>3. pid \in DOMAIN procs /\ Alive(pid) /\ procs[pid].port = s.port
    BY DEF Answering, Alive
  <2>4. PICK t \in ToSet(cmd[c].mine) : t.pid = pid
    BY <2>2, <2>3 DEF GateHolds, Own
  <2>5. t.port = s.port
    BY <2>2, <2>3, <2>4 DEF Entry
  <2>. QED
    BY <2>2, <2>4, <2>5 DEF GateHolds
<1>. QED
  BY <1>1, <1>2, <1>3, ServingInvariant, PTL DEF Spec

-----------------------------------------------------------------------------
(* What is recorded as up is ready                                         *)

\* The ports that the configuration gives differ from each other and from those that
\* pick_port searches.  (config.py does not ask for it.)
PortsApart ==
  /\ \A s, t \in DOMAIN FixedPort : FixedPort[s] = FixedPort[t] => s = t
  /\ \A s \in DOMAIN FixedPort : FixedPort[s] \notin EnginePorts

\* The circumstances in which UpMeansReady promises something.
Smooth == exits = 0 /\ Never({"killed", "restartFailed"}) /\ overlaps = {}

RightPort(name, port) == IF name \in DOMAIN FixedPort THEN port = FixedPort[name] ELSE port \in EnginePorts
Ready(s)    == procs[s.pid].st = "ready"
Free(port)  == \A pid \in DOMAIN procs : Alive(pid) => procs[pid].port # port
OnePerPort  == \A p, q \in DOMAIN procs : Alive(p) /\ Alive(q) /\ procs[p].port = procs[q].port => p = q

\* up has found service n ready.
Waited(k, n) == \E i \in DOMAIN UpPlan : /\ UpPlan[i] = Item("wait", n)
                                         /\ i < k.at \/ (i = k.at /\ k.pc \in {"closeRuns", "openRun"})

UpHolds(k) ==
  /\ \A s \in ToSet(k.mine) : /\ Alive(s.pid) /\ s.port \in k.taken /\ RightPort(s.svc, s.port)
                              /\ Waited(k, s.svc) => Ready(s)
  /\ k.pc = "start" => k.port \in k.taken /\ RightPort(ServiceOf(k), k.port) /\ Free(k.port)

RestartHolds(k) ==
  /\ \A s \in ToSet(k.mine) : IF s.svc = ServiceOf(k) THEN k.pc # "start" => Alive(s.pid) ELSE Ready(s)
  /\ k.pc = "start" => Free(k.port)

\* A command that has not changed what is recorded, nor is about to.
Early(k) == k.kind \in {"none", "gate"} \/ (k.kind = "restart" /\ k.pc \in {"read", "launch", "swap"})

FileReady == \A s \in ToSet(stateFile) : Ready(s)

\* What holds of a command, which is alone.
Holds(k) ==
  /\ k.kind = "up" /\ k.pc # "stop" => UpHolds(k)
  /\ k.kind = "restart" /\ ~Early(k) => RestartHolds(k)
  /\ Early(k) => FileReady

ReadyOK ==
  Smooth => /\ OnePerPort
            /\ \A c \in Cmds : cmd[c] # Idle => Holds(cmd[c])
            /\ (\A c \in Cmds : cmd[c] = Idle) => FileReady

\* What is so while a command runs smoothly on its own.
LEMMA SmoothRun ==
  ASSUME Inductive, Smooth
  PROVE  /\ Shape /\ OverlapsOK /\ TrackedOK /\ kills = 0 /\ Undisturbed
         /\ \A c, d \in Cmds : cmd[c].kind # "none" /\ cmd[d].kind # "none" => c = d
         /\ \A c \in Cmds : cmd[c].kind \in Platform => Tracked(cmd[c])
         /\ Gone = {}
<1>1. Shape /\ OverlapsOK /\ TrackedOK /\ FewGone /\ Apart(Platform) /\ Apart({"gate", "up"}) /\ kills = 0
  BY DEF Inductive, Smooth, Apart, Never, OverlapsOK
<1>2. \A c \in Cmds : cmd[c].kind \in Platform => Tracked(cmd[c])
  BY <1>1 DEF TrackedOK, NoneBeside, Smooth
<1>3. \A c, d \in Cmds : cmd[c].kind # "none" /\ cmd[d].kind # "none" => c = d
  BY <1>1 DEF OverlapsOK, Busy, Smooth
<1>4. Gone = {}
  <2>1. Len(GateRuns) \in Nat /\ kills * Len(GateRuns) = 0
    BY <1>1, ServingAssumption
  <2>2. /\ IsFiniteSet(PlatformGone) /\ Cardinality(PlatformGone) \in Nat
        /\ IsFiniteSet(GateGone) /\ Cardinality(GateGone) \in Nat
    BY <1>1, FewProcesses DEF PlatformGone, GateGone, Gone, Shape
  <2>3. Cardinality(PlatformGone) <= 0 /\ Cardinality(GateGone) <= 0
    BY <1>1, <2>1 DEF FewGone
  <2>4. Cardinality(PlatformGone) = 0 /\ Cardinality(GateGone) = 0
    BY <2>2, <2>3
  <2>5. PlatformGone = {} /\ GateGone = {}
    BY <2>2, <2>4, FS_EmptySet
  <2>. QED
    BY <2>5 DEF PlatformGone, GateGone
<1>. QED
  BY <1>1, <1>2, <1>3, <1>4 DEF Undisturbed, Smooth, Never

\* A service is waited for after it is picked, and everything is at the end of up.
LEMMA WaitedWhen ==
  ASSUME NEW k \in Command, k.kind = "up", k.at \in DOMAIN UpPlan, NEW n \in UpNames
  PROVE  /\ ItemOf(k).do = "pick" /\ k.pc \notin {"closeRuns", "openRun"} /\ n = ServiceOf(k) => ~Waited(k, n)
         /\ k.at = Len(UpPlan) /\ n # ServiceOf(k) => Waited(k, n)
         /\ k.at = Len(UpPlan) /\ k.pc \in {"closeRuns", "openRun"} => Waited(k, n)
         /\ Waited(k, n) => (\E i \in DOMAIN UpPlan : UpPlan[i] = Item("wait", n) /\ i <= k.at)
<1>1. PlanOf(UpPlan, UpNames) /\ Len(UpPlan) \in Nat /\ DOMAIN UpPlan = 1..Len(UpPlan) /\ k.at \in Nat
  BY PlanFacts DEF PlanFor, NamesOf, Command
<1>2. PICK i \in DOMAIN UpPlan : \E j \in DOMAIN UpPlan : i < j /\ UpPlan[i] = Item("pick", n) /\ UpPlan[j] = Item("wait", n)
  BY <1>1 DEF PlanOf
<1>3. PICK j \in DOMAIN UpPlan : i < j /\ UpPlan[i] = Item("pick", n) /\ UpPlan[j] = Item("wait", n)
  BY <1>2
<1>4. UpPlan[k.at] = ItemOf(k) /\ ItemOf(k) = Item(ItemOf(k).do, ServiceOf(k))
  BY ItemFacts DEF ItemOf, PlanFor
<1>5. \A a, b \in DOMAIN UpPlan : UpPlan[a] = UpPlan[b] => a = b
  BY <1>1 DEF PlanOf
<1>6. i \in Nat /\ j \in Nat /\ j <= Len(UpPlan) /\ \A a \in DOMAIN UpPlan : a \in Nat
  BY <1>1
<1>7. ASSUME ItemOf(k).do = "pick", k.pc \notin {"closeRuns", "openRun"}, n = ServiceOf(k) PROVE ~Waited(k, n)
  <2>1. i = k.at
    BY <1>3, <1>4, <1>5, <1>7
  <2>. QED
    BY <1>3, <1>5, <1>6, <1>7, <2>1 DEF Waited
<1>8. ASSUME k.at = Len(UpPlan), n # ServiceOf(k) PROVE Waited(k, n)
  <2>1. j # k.at
    BY <1>3, <1>4, <1>8 DEF Item
  <2>. QED
    BY <1>3, <1>6, <1>8, <2>1 DEF Waited
<1>9. ASSUME k.at = Len(UpPlan), k.pc \in {"closeRuns", "openRun"} PROVE Waited(k, n)
  BY <1>1, <1>3, <1>6, <1>9 DEF Waited
<1>10. Waited(k, n) => (\E a \in DOMAIN UpPlan : UpPlan[a] = Item("wait", n) /\ a <= k.at)
  BY <1>1, <1>6 DEF Waited
<1>. QED
  BY <1>7, <1>8, <1>9, <1>10

\* A new process on a port that nobody holds is the only one there.
LEMMA NewOnPort ==
  ASSUME Shape, OnePerPort, NEW c \in Cmds, ServiceOf(cmd[c]) \in STRING, Free(cmd[c].port),
         procs' = Append(procs, Launched(c, Current(c)))
  PROVE  /\ OnePerPort' /\ \A pid : pid = Len(procs) + 1 => Alive(pid)'
         /\ \A pid \in DOMAIN procs : procs'[pid] = procs[pid]
<1>. DEFINE n == Len(procs) + 1
<1>1. /\ n \notin DOMAIN procs /\ DOMAIN procs' = DOMAIN procs \cup {n}
      /\ procs'[n] = [svc |-> ServiceOf(cmd[c]), port |-> cmd[c].port, adapter |-> cmd[c].adapter, st |-> "starting"]
      /\ \A pid \in DOMAIN procs : procs'[pid] = procs[pid]
  BY LaunchedGrows
<1>. HIDE DEF n
<1>4. procs'[n].port = cmd[c].port /\ procs'[n].st = "starting"
  BY <1>1
<1>2. \A p, q \in DOMAIN procs' : Alive(p)' /\ Alive(q)' /\ procs'[p].port = procs'[q].port => p = q
  BY <1>1, <1>4 DEF OnePerPort, Free, Alive
<1>3. \A pid : pid = n => Alive(pid)'
  BY <1>4 DEF Alive
<1>. QED
  BY <1>1, <1>2, <1>3 DEF OnePerPort, n

\* Where processes only stop, no port gets another holder.
LEMMA StopsOnly ==
  ASSUME Shape, OnePerPort, NEW pids, procs' = Stopped(pids)
  PROVE  /\ OnePerPort'
         /\ \A s : s.pid \in DOMAIN procs /\ s.pid \notin pids /\ Ready(s) => Ready(s)'
<1>1. Grows /\ DOMAIN procs' = DOMAIN procs
      /\ \A pid \in DOMAIN procs : procs'[pid].st = IF pid \in pids THEN "exited" ELSE procs[pid].st
  BY StoppedGrows
<1>2. \A p, q \in DOMAIN procs' : Alive(p)' /\ Alive(q)' /\ procs'[p].port = procs'[q].port => p = q
  BY <1>1 DEF OnePerPort, Alive, Grows
<1>. QED
  BY <1>1, <1>2 DEF OnePerPort, Ready

\* An engine of a gate takes a port of its own, and the file keeps what it names.
LEMMA ReadyGate ==
  ASSUME Inductive, Smooth, GateOK, OnePerPort, FileReady, NEW c \in Cmds, Run(c), cmd[c].kind = "gate"
  PROVE  OnePerPort' /\ FileReady'
<1>. DEFINE k == cmd[c]
<1>1. /\ Shape /\ Undisturbed /\ k \in Command /\ PlaceOK(k) /\ MineOK(k)
      /\ \A s \in ToSet(k.mine) : Entry(s)
  BY SmoothRun DEF Shape, CommandOK
<1>2. ~Write(c) /\ ~StopOld(c) /\ ~StartNew(c)
  BY <1>1, WriteFields, StepFields, StartNewFields
<1>3. stateFile' = stateFile
  BY <1>2, RunLeaves DEF Unlink
<1>4. \A s \in ToSet(stateFile) : s.pid \in DOMAIN procs /\ procs[s.pid].svc = s.svc
  BY <1>1 DEF Shape, Entry
<1>5. CASE Start(c)
  <2>1. procs' = Append(procs, Launched(c, Current(c))) /\ ServiceOf(k) \in STRING
    BY <1>1, <1>5, StartFields
  <2>2. Free(k.port)
    BY <1>1, <1>5 DEF GateOK, GateHolds, Free, Start
  <2>3. OnePerPort' /\ \A pid \in DOMAIN procs : procs'[pid] = procs[pid]
    BY <1>1, <2>1, <2>2, NewOnPort
  <2>. QED
    BY <1>3, <1>4, <2>3 DEF FileReady, Ready
<1>6. CASE StopLast(c)
  <2>. DEFINE e == Last(k.mine)
  <2>1. procs' = Stopped({e.pid}) /\ e \in ToSet(k.mine)
    BY <1>1, <1>6, StepFields DEF StopLast
  <2>2. procs[e.pid].svc \in GateNames
    BY <1>1, <2>1 DEF MineOK, Names, NamesOf, Entry
  <2>3. \A s \in ToSet(stateFile) : s.pid # e.pid
    <3>1. GateNames \cap UpNames = {}
      BY ServingAssumption DEF GateNames, UpNames, Model
    <3>. QED
      BY <1>1, <1>4, <2>2, <3>1 DEF Shape, Names
  <2>. HIDE DEF e
  <2>. QED
    BY <1>1, <1>3, <1>4, <2>1, <2>3, StopsOnly DEF FileReady
<1>7. CASE ~Start(c) /\ ~StopLast(c)
  <2>1. procs' = procs
    BY <1>2, <1>7, RunLeaves
  <2>. QED
    BY <1>3, <2>1 DEF OnePerPort, FileReady, Ready, Alive
<1>. QED
  BY <1>5, <1>6, <1>7

\* down, and an up that failed, only stop processes, and leave no file.
LEMMA ReadyDown ==
  ASSUME Inductive, Smooth, OnePerPort, NEW c \in Cmds, Run(c), cmd[c].pc = "stop", cmd[c].kind # "gate",
         NEW l, l = cmd'[c]
  PROVE  OnePerPort' /\ Holds(l)'
<1>. DEFINE k == cmd[c]
<1>1. Shape /\ k \in Command /\ PlaceOK(k)
  BY SmoothRun DEF Shape, CommandOK
<1>2. k.kind \in {"up", "down"}
  BY <1>1, Steps
<1>3. StopLast(c) \/ Unlink(c)
  BY <1>2 DEF Run, Pick, Start, Truncate, Write, WaitReady, CloseRuns, OpenRun, Fail, Evaluated, ReadState, Launch, StopOld,
    StartNew, RestartFails
<1>4. CASE StopLast(c)
  <2>1. l.kind = k.kind /\ l.pc = "stop"
    BY <1>1, <1>4, StepFields
  <2>2. OnePerPort'
    BY <1>1, <1>4, StopsOnly DEF StopLast
  <2>. QED
    BY <1>2, <2>1, <2>2 DEF Holds, Early
<1>5. CASE Unlink(c)
  <2>1. l.kind = "none" /\ procs' = procs /\ stateFile' = << >>
    <3>1. l = Idle
      BY <1>1, <1>5, StepFields
    <3>. QED
      BY <1>2, <1>5, <3>1 DEF Unlink, Idle
  <2>2. FileReady' /\ OnePerPort'
    BY <2>1, EmptyList DEF FileReady, OnePerPort, Alive
  <2>. QED
    BY <2>1, <2>2 DEF Holds, Early
<1>. QED
  BY <1>3, <1>4, <1>5

\* A service that runs and is asked at its URL answers itself.
LEMMA AnswersItself ==
  ASSUME OnePerPort, NEW e, Entry(e), Alive(e.pid), Healthy(e)
  PROVE  Ready(e)
<1>1. PICK q \in Answering(e.port) : TRUE
  BY DEF Healthy
<1>2. q \in DOMAIN procs /\ Alive(q) /\ procs[q].st = "ready" /\ procs[q].port = procs[e.pid].port
  BY DEF Answering, Alive, Entry
<1>. QED
  BY <1>2 DEF OnePerPort, Ready, Entry

\* The entry of the service that a command is at.
LEMMA OwnEntry ==
  ASSUME NEW k, MineOK(k), ServiceOf(k) \in Names(k.mine)
  PROVE  /\ EntryOf(k) \in ToSet(k.mine) /\ EntryOf(k).svc = ServiceOf(k)
         /\ \A s \in ToSet(k.mine) : s.svc = ServiceOf(k) => s = EntryOf(k)
<1>1. OneEach(k.mine)
  BY DEF MineOK, ListOK
<1>. QED
  BY <1>1, TheService DEF EntryOf

\* A restart stops the old process, gives its port to the new one and waits for it.
LEMMA ReadyRestart ==
  ASSUME Inductive, Smooth, Smooth', OnePerPort, NEW c \in Cmds, Run(c), cmd[c].kind = "restart", Holds(cmd[c]),
         NEW l, l = cmd'[c]
  PROVE  OnePerPort' /\ Holds(l)'
<1>. DEFINE k == cmd[c]
            e == EntryOf(k)
<1>1. /\ Shape /\ k \in Command /\ PlaceOK(k) /\ MineOK(k) /\ Tracked(k)
      /\ (\A s \in ToSet(k.mine) : Entry(s)) /\ \A s \in ToSet(stateFile) : Entry(s)
  BY SmoothRun DEF Shape, CommandOK, Platform
<1>2. k.pc # "read" => e \in ToSet(k.mine) /\ e.svc = ServiceOf(k)
                       /\ \A s \in ToSet(k.mine) : s.svc = ServiceOf(k) => s = e
  BY <1>1, OwnEntry DEF MineOK
<1>3. Early(k) => FileReady
  BY DEF Holds
<1>4. ~Early(k) => RestartHolds(k)
  BY DEF Holds
<1>5. ASSUME procs' = procs PROVE OnePerPort' /\ \A s : Ready(s) => Ready(s)'
  BY <1>5 DEF OnePerPort, Ready, Alive
<1>. HIDE DEF e
<1>6. CASE ReadState(c)
  <2>1. procs' = procs /\ stateFile' = stateFile /\ Early(k)
    BY <1>1, <1>6, StepFields DEF ReadState, Early
  <2>2. Early(l)
    BY <1>1, <1>6, StepFields DEF Early, Idle
  <2>3. FileReady'
    BY <1>3, <1>5, <2>1 DEF FileReady
  <2>. QED
    BY <1>5, <2>1, <2>2, <2>3 DEF Holds, Early
<1>7. CASE Launch(c)
  <2>1. procs' = procs /\ stateFile' = stateFile /\ Early(k)
    BY <1>1, <1>7, StepFields DEF Launch, Early
  <2>2. l.kind = "restart" /\ l.pc = "swap"
    BY <1>1, <1>7, StepFields
  <2>3. FileReady'
    BY <1>3, <1>5, <2>1 DEF FileReady
  <2>. QED
    BY <1>5, <2>1, <2>2, <2>3 DEF Holds, Early
<1>8. CASE StopOld(c)
  <2>1. Same5(k, l) /\ l.at = k.at /\ l.pc = "start" /\ k.pc = "swap"
    BY <1>1, <1>8, StepFields DEF StopOld
  <2>2. procs' = Stopped({e.pid}) /\ k.mine = stateFile /\ k.port = e.port
    BY <1>1, <1>8, Same DEF StopOld, Tracked, MineOK, e
  <2>3. FileReady /\ e \in ToSet(k.mine)
    BY <1>2, <1>3, <2>1 DEF Early
  <2>4. OnePerPort' /\ \A s : s.pid \in DOMAIN procs /\ s.pid # e.pid /\ Ready(s) => Ready(s)'
    BY <1>1, <2>2, StopsOnly
  <2>5. ASSUME NEW s \in ToSet(k.mine), s.svc # ServiceOf(k) PROVE Ready(s)'
    <3>1. s.pid \in DOMAIN procs /\ s.pid # e.pid /\ Ready(s)
      BY <1>1, <1>2, <2>1, <2>2, <2>3, <2>5 DEF Entry, FileReady
    <3>. QED
      BY <2>4, <3>1
  <2>6. Free(l.port)'
    <3>1. DOMAIN procs' = DOMAIN procs /\ Grows
          /\ \A pid \in DOMAIN procs : procs'[pid].st = IF pid \in {e.pid} THEN "exited" ELSE procs[pid].st
      BY <1>1, <2>2, StoppedGrows
    <3>2. Ready(e) /\ Entry(e)
      BY <1>1, <2>2, <2>3 DEF FileReady
    <3>3. \A pid \in DOMAIN procs : pid # e.pid /\ Alive(pid) => procs[pid].port # e.port
      BY <3>2 DEF OnePerPort, Ready, Alive, Entry
    <3>4. \A pid \in DOMAIN procs' : Alive(pid)' => procs'[pid].port # e.port
      BY <3>1, <3>3 DEF Grows, Alive
    <3>. QED
      BY <2>1, <2>2, <3>4 DEF Free, Same5
  <2>7. ServiceOf(l) = ServiceOf(k) /\ l.mine = k.mine /\ l.kind = "restart"
    BY <2>1, SamePlace DEF Same5
  <2>8. RestartHolds(l)'
    BY <2>1, <2>5, <2>6, <2>7 DEF RestartHolds
  <2>. QED
    BY <2>1, <2>4, <2>7, <2>8 DEF Holds, Early
<1>9. CASE StartNew(c)
  <2>1. /\ k.pc = "start" /\ l.kind = k.kind /\ l.at = k.at /\ l.pc = "write" /\ ServiceOf(k) \in STRING
        /\ ToSet(l.mine) = (ToSet(k.mine) \ {e}) \cup {NewService(c)}
        /\ procs' = Append(procs, Launched(c, Current(c)))
    <3>1. /\ k.pc = "start" /\ l.kind = k.kind /\ l.at = k.at /\ l.pc = "write" /\ ServiceOf(k) \in STRING
          /\ ToSet(l.mine) = (ToSet(k.mine) \ {EntryOf(k)}) \cup {NewService(c)}
          /\ procs' = Append(procs, Launched(c, Current(c)))
      BY <1>1, <1>9, StartNewFields, SMTT(40)
    <3>. QED
      BY <3>1 DEF e
  <2>2. RestartHolds(k)
    BY <1>4, <2>1 DEF Early
  <2>3. Free(k.port)
    BY <2>1, <2>2 DEF RestartHolds
  <2>4. /\ OnePerPort' /\ \A pid \in DOMAIN procs : procs'[pid] = procs[pid]
        /\ \A pid : pid = Len(procs) + 1 => Alive(pid)'
    BY <1>1, <2>1, <2>3, NewOnPort
  <2>. DEFINE new == NewService(c)
  <2>5. new.svc = ServiceOf(k) /\ new.pid = Len(procs) + 1
    BY DEF NewService
  <2>. HIDE DEF new
  <2>6. ServiceOf(l) = ServiceOf(k)
    BY <2>1, SamePlace
  <2>7. \A s \in ToSet(k.mine) : s # e => Ready(s)'
    BY <1>1, <1>2, <2>1, <2>2, <2>4 DEF RestartHolds, Ready, Entry
  <2>8. \A s : s = new => Alive(s.pid)'
    BY <2>4, <2>5
  <2>9. RestartHolds(l)'
    <3>1. ASSUME NEW s \in ToSet(l.mine)
          PROVE  IF s.svc = ServiceOf(l) THEN Alive(s.pid)' ELSE Ready(s)'
      <4>1. CASE s = new
        BY <2>5, <2>6, <2>8, <4>1
      <4>2. CASE s # new
        BY <1>2, <2>1, <2>6, <2>7, <4>2 DEF new
      <4>. QED
        BY <4>1, <4>2
    <3>. QED
      BY <2>1, <3>1 DEF RestartHolds
  <2>. QED
    BY <2>1, <2>4, <2>9 DEF Holds, Early
<1>13. CASE Truncate(c)
  <2>1. k.pc = "write" /\ Same5(k, l) /\ l.at = k.at /\ l.pc = "rewrite" /\ procs' = procs
    <3>1. k.pc = "write" /\ Same5(k, l) /\ l.at = k.at /\ l.pc = "rewrite"
      BY <1>1, <1>13, StepFields
    <3>. QED
      BY <1>13, <3>1 DEF Truncate
  <2>2. RestartHolds(k)
    BY <1>4, <2>1 DEF Early
  <2>3. ServiceOf(l) = ServiceOf(k) /\ l.mine = k.mine /\ l.kind = "restart"
    BY <2>1, SamePlace DEF Same5
  <2>4. \A s : Alive(s.pid) => Alive(s.pid)'
    BY <2>1 DEF Alive
  <2>5. RestartHolds(l)'
    BY <1>5, <2>1, <2>2, <2>3, <2>4 DEF RestartHolds
  <2>. QED
    BY <1>5, <2>1, <2>3, <2>5 DEF Holds, Early
<1>10. CASE Write(c)
  <2>1. k.pc = "rewrite" /\ Same5(k, l) /\ l.at = k.at /\ l.pc = "wait" /\ procs' = procs
    <3>1. Same5(k, l) /\ l.at = k.at /\ l.pc = "wait"
      BY <1>1, <1>10, WriteFields
    <3>. QED
      BY <1>10, <3>1 DEF Write
  <2>2. RestartHolds(k)
    BY <1>4, <2>1 DEF Early
  <2>3. ServiceOf(l) = ServiceOf(k) /\ l.mine = k.mine /\ l.kind = "restart"
    BY <2>1, SamePlace DEF Same5
  <2>4. \A s : Alive(s.pid) => Alive(s.pid)'
    BY <2>1 DEF Alive
  <2>5. RestartHolds(l)'
    BY <1>5, <2>1, <2>2, <2>3, <2>4 DEF RestartHolds
  <2>. QED
    BY <1>5, <2>1, <2>3, <2>5 DEF Holds, Early
<1>11. CASE WaitReady(c)
  <2>1. l = Idle /\ k.pc = "wait" /\ procs' = procs /\ stateFile' = stateFile /\ Healthy(e)
    BY <1>1, <1>11, WaitReadyFields, Same DEF WaitReady, e
  <2>2. RestartHolds(k) /\ k.mine = stateFile
    BY <1>1, <1>4, <2>1 DEF Early, Tracked
  <2>3. Ready(e)
    <3>1. Entry(e) /\ Alive(e.pid)
      BY <1>1, <1>2, <2>1, <2>2 DEF RestartHolds
    <3>. QED
      BY <2>1, <3>1, AnswersItself
  <2>4. FileReady
    BY <1>2, <2>1, <2>2, <2>3 DEF FileReady, RestartHolds
  <2>5. FileReady'
    BY <1>5, <2>1, <2>4 DEF FileReady
  <2>. QED
    BY <1>5, <2>1, <2>5 DEF Holds, Early, Idle
<1>12. ~RestartFails(c)
  BY DEF RestartFails, Fault, Smooth, Never
<1>. QED
  <2>1. ~(Pick(c) \/ Start(c) \/ CloseRuns(c) \/ OpenRun(c) \/ Fail(c) \/ Evaluated(c))
    BY <1>1, PickFields, StartFields, OpenRunFields, StepFields
  <2>2. ~(StopLast(c) \/ Unlink(c))
    BY <1>1, Steps DEF StopLast, Unlink
  <2>. QED
    BY <1>6, <1>7, <1>8, <1>9, <1>10, <1>11, <1>12, <1>13, <2>1, <2>2 DEF Run

\* While up is alone, what runs is in its list.
LEMMA UpHasAll ==
  ASSUME Inductive, Smooth, NEW c \in Cmds, cmd[c].kind = "up", cmd[c].pc \notin {"write", "rewrite", "stop"},
         NEW pid \in DOMAIN procs, Alive(pid)
  PROVE  \E s \in ToSet(cmd[c].mine) : s.pid = pid /\ procs[pid].port = s.port
<1>1. /\ Shape /\ Gone = {} /\ Tracked(cmd[c])
      /\ \A d \in Cmds : cmd[d].kind # "none" => d = c
  BY SmoothRun DEF Platform
<1>2. PICK d \in Cmds : \E s \in ToSet(stateFile) \cup ToSet(cmd[d].mine) : s.pid = pid
  BY <1>1 DEF Gone
<1>3. PICK s \in ToSet(stateFile) \cup ToSet(cmd[d].mine) : s.pid = pid
  BY <1>2
<1>4. Entry(s)
  BY <1>1, <1>3 DEF Shape
<1>5. s \in ToSet(cmd[c].mine)
  <2>1. CASE s \in ToSet(stateFile)
    BY <1>1, <1>3, <2>1 DEF Tracked, Kept
  <2>2. CASE s \in ToSet(cmd[d].mine)
    <3>1. cmd[d].kind = "none" => cmd[d].mine = << >>
      BY <1>1 DEF Shape, CommandOK, PlaceOK, Idle
    <3>. QED
      BY <1>1, <2>2, <3>1, EmptyList
  <2>. QED
    BY <1>3, <2>1, <2>2
<1>. QED
  BY <1>3, <1>4, <1>5 DEF Entry

\* up picks a port that nobody holds.
LEMMA UpPicks ==
  ASSUME PortsApart, Inductive, Smooth, NEW c \in Cmds, cmd[c].kind = "up", Pick(c), UpHolds(cmd[c]),
         NEW l, l = cmd'[c]
  PROVE  UpHolds(l)'
<1>. DEFINE k == cmd[c]
            n == ServiceOf(k)
<1>1. Shape /\ k \in Command /\ PlaceOK(k) /\ MineOK(k) /\ k.pc = "pick"
  BY SmoothRun DEF Shape, CommandOK, Pick
<1>2. /\ l.kind = k.kind /\ l.at = k.at /\ l.mine = k.mine /\ l.pc = "start"
      /\ l.port \in PortFor(c) /\ l.taken = k.taken \cup {l.port} /\ procs' = procs
  <2>1. procs' = procs
    BY DEF Pick
  <2>. QED
    BY <1>1, <2>1, PickFields
<1>3. n \notin Names(k.mine)
  <2>1. ItemOf(k).do = "pick" /\ k.at \in DOMAIN PlanFor(k.kind)
    BY <1>1, Steps
  <2>. QED
    BY <1>1, <2>1, StartedUpTo DEF MineOK
<1>4. /\ n \notin DOMAIN FixedPort => l.port \in EnginePorts \ k.taken
      /\ n \in DOMAIN FixedPort => l.port = FixedPort[n]
  BY <1>2, Same DEF PortFor, PickPort
<1>5. RightPort(n, l.port)
  BY <1>4 DEF RightPort
<1>6. ASSUME NEW pid \in DOMAIN procs, Alive(pid) PROVE procs[pid].port # l.port
  <2>1. PICK s \in ToSet(k.mine) : s.pid = pid /\ procs[pid].port = s.port
    BY <1>1, <1>6, UpHasAll
  <2>2. s.port \in k.taken /\ RightPort(s.svc, s.port)
    BY <2>1 DEF UpHolds
  <2>3. s.svc # n
    BY <1>3, <2>1 DEF Names
  <2>. QED
    BY <1>4, <2>1, <2>2, <2>3 DEF RightPort, PortsApart
<1>. HIDE DEF n
<1>7. ServiceOf(l) = n /\ \A m : Waited(l, m) <=> Waited(k, m)
  BY <1>1, <1>2, SamePlace DEF Waited, n
<1>8. Free(l.port)'
  BY <1>2, <1>6 DEF Free, Alive
<1>9. \A s : (Ready(s) <=> Ready(s)') /\ (Alive(s.pid) <=> Alive(s.pid)')
  BY <1>2 DEF Ready, Alive
<1>. QED
  BY <1>2, <1>5, <1>7, <1>8, <1>9 DEF UpHolds

\* up starts a service on its port.
LEMMA UpStarts ==
  ASSUME Inductive, Smooth, OnePerPort, NEW c \in Cmds, cmd[c].kind = "up", Start(c), UpHolds(cmd[c]),
         NEW l, l = cmd'[c]
  PROVE  OnePerPort' /\ UpHolds(l)'
<1>. DEFINE k == cmd[c]
            n == ServiceOf(k)
            new == NewService(c)
<1>1. Shape /\ k \in Command /\ PlaceOK(k) /\ k.pc = "start" /\ \A s \in ToSet(k.mine) : Entry(s)
  BY SmoothRun DEF Shape, CommandOK, Start
<1>2. /\ l.kind = k.kind /\ l.at = k.at /\ l.pc = "write" /\ l.taken = k.taken
      /\ ToSet(l.mine) = ToSet(k.mine) \cup {new} /\ n \in UpNames /\ n \in STRING
      /\ procs' = Append(procs, Launched(c, Current(c)))
  BY <1>1, StartFields DEF NamesOf
<1>3. k.port \in k.taken /\ RightPort(n, k.port) /\ Free(k.port)
  BY <1>1 DEF UpHolds
<1>4. new.svc = n /\ new.port = k.port /\ new.pid = Len(procs) + 1
  BY DEF NewService
<1>5. /\ OnePerPort' /\ \A pid \in DOMAIN procs : procs'[pid] = procs[pid]
      /\ \A pid : pid = Len(procs) + 1 => Alive(pid)'
  BY <1>1, <1>2, <1>3, NewOnPort
<1>. HIDE DEF new, n
<1>6. ~Waited(k, n)
  <2>1. ItemOf(k).do = "pick" /\ k.at \in DOMAIN UpPlan
    BY <1>1, Steps DEF PlanFor
  <2>. QED
    BY <1>1, <1>2, <2>1, WaitedWhen DEF n
<1>7. \A m : Waited(l, m) <=> Waited(k, m)
  BY <1>1, <1>2 DEF Waited
<1>8. \A s \in ToSet(k.mine) : (Ready(s) => Ready(s)') /\ (Alive(s.pid) => Alive(s.pid)')
  BY <1>1, <1>5 DEF Ready, Alive, Entry
<1>9. \A s : s = new => Alive(s.pid)'
  BY <1>4, <1>5
<1>10. ASSUME NEW s \in ToSet(l.mine)
       PROVE  Alive(s.pid)' /\ s.port \in l.taken /\ RightPort(s.svc, s.port) /\ (Waited(l, s.svc) => Ready(s)')
  <2>1. CASE s = new
    BY <1>2, <1>3, <1>4, <1>6, <1>7, <1>9, <2>1
  <2>2. CASE s \in ToSet(k.mine)
    BY <1>2, <1>7, <1>8, <2>2 DEF UpHolds
  <2>. QED
    BY <1>2, <2>1, <2>2
<1>. QED
  BY <1>2, <1>5, <1>10 DEF UpHolds

\* up goes on once a service is ready, and is done when all are.
LEMMA ReadyUp ==
  ASSUME PortsApart, Inductive, Smooth, OnePerPort, NEW c \in Cmds, Run(c), cmd[c].kind = "up", cmd[c].pc # "stop",
         Holds(cmd[c]), NEW l, l = cmd'[c]
  PROVE  OnePerPort' /\ Holds(l)'
<1>. DEFINE k == cmd[c]
            e == EntryOf(k)
<1>1. /\ Shape /\ k \in Command /\ PlaceOK(k) /\ MineOK(k) /\ Tracked(k) /\ k.at \in DOMAIN UpPlan
      /\ (\A s \in ToSet(k.mine) : Entry(s) /\ s.svc \in UpNames) /\ UpHolds(k)
  BY SmoothRun, Steps DEF Shape, CommandOK, Platform, Holds, MineOK, Names, NamesOf, PlanFor
<1>2. PlanOf(UpPlan, UpNames) /\ Len(UpPlan) \in Nat /\ DOMAIN UpPlan = 1..Len(UpPlan) /\ k.at \in Nat
  <2>1. PlanOf(UpPlan, UpNames) /\ DOMAIN UpPlan = 1..Len(UpPlan) /\ Len(UpPlan) \in Nat
    BY PlanFacts DEF PlanFor, NamesOf
  <2>. QED
    BY <1>1, <2>1 DEF Command
<1>3. UpPlan[k.at] = ItemOf(k) /\ ItemOf(k) = Item(ItemOf(k).do, ServiceOf(k)) /\ ServiceOf(k) \in UpNames
  BY <1>1, ItemFacts DEF ItemOf, PlanFor, NamesOf
<1>4. ASSUME procs' = procs PROVE OnePerPort' /\ \A s : (Ready(s) => Ready(s)') /\ (Alive(s.pid) => Alive(s.pid)')
  BY <1>4 DEF OnePerPort, Ready, Alive
\* The list stays, and what it is said to have waited for is ready.
<1>5. ASSUME procs' = procs, Same5(k, l), l.pc # "start",
             \A s \in ToSet(k.mine) : Waited(l, s.svc) => Ready(s)
      PROVE  OnePerPort' /\ Holds(l)'
  <2>1. UpHolds(l)'
    BY <1>1, <1>4, <1>5 DEF UpHolds, Same5
  <2>. QED
    BY <1>4, <1>5, <2>1 DEF Holds, Early, Same5
\* Everything has been waited for: what is recorded is ready.
<1>6. ASSUME procs' = procs, stateFile' = stateFile, l = Idle, k.pc \notin {"write", "rewrite", "stop"},
             ItemOf(k).do = "wait",
             \A s \in ToSet(k.mine) : Ready(s)
      PROVE  OnePerPort' /\ Holds(l)'
  <2>1. k.mine # << >>
    <3>1. PICK j \in DOMAIN UpPlan : \E i \in DOMAIN UpPlan :
            j < i /\ UpPlan[j] = Item("pick", ServiceOf(k)) /\ UpPlan[i] = Item("wait", ServiceOf(k))
      BY <1>2, <1>3 DEF PlanOf
    <3>2. j < k.at
      BY <1>1, <1>2, <1>3, <1>6, <3>1 DEF PlanOf
    <3>3. ServiceOf(k) \in Names(k.mine)
      BY <1>1, <1>3, <1>6, <3>1, <3>2 DEF MineOK, StartedBy, PlanFor, NamesOf
    <3>. QED
      BY <3>3, EmptyList
  <2>2. k.mine = stateFile
    BY <1>1, <1>6, <2>1 DEF Tracked
  <2>3. FileReady'
    BY <1>4, <1>6, <2>2 DEF FileReady
  <2>. QED
    BY <1>4, <1>6, <2>3 DEF Holds, Early, Idle
\* The service is ready, and so are those before it.
<1>7. ASSUME k.pc \in {"closeRuns", "openRun"} \/ WaitReady(c)
      PROVE  /\ ItemOf(k).do = "wait"
             /\ \A s \in ToSet(k.mine) : (\E i \in DOMAIN UpPlan : UpPlan[i] = Item("wait", s.svc) /\ i <= k.at) => Ready(s)
  <2>1. ItemOf(k).do = "wait"
    BY <1>1, <1>7, Steps DEF WaitReady
  <2>2. ASSUME NEW s \in ToSet(k.mine), NEW i \in DOMAIN UpPlan, UpPlan[i] = Item("wait", s.svc), i < k.at
        PROVE  Ready(s)
    BY <1>1, <2>2 DEF Waited, UpHolds
  <2>3. ASSUME NEW s \in ToSet(k.mine), s.svc = ServiceOf(k) PROVE Ready(s)
    <3>1. CASE k.pc \in {"closeRuns", "openRun"}
      <4>1. UpPlan[k.at] = Item("wait", s.svc)
        BY <1>3, <2>1, <2>3
      <4>. QED
        BY <1>1, <3>1, <4>1 DEF Waited, UpHolds
    <3>2. CASE WaitReady(c)
      <4>1. s = e
        BY <1>1, <2>3, OwnEntry DEF Names
      <4>2. Healthy(s)
        BY <3>2, <4>1, Same DEF WaitReady
      <4>. QED
        BY <1>1, <4>2, AnswersItself DEF UpHolds
    <3>. QED
      BY <1>7, <3>1, <3>2
  <2>4. ASSUME NEW s \in ToSet(k.mine), NEW i \in DOMAIN UpPlan, UpPlan[i] = Item("wait", s.svc), i <= k.at
        PROVE  Ready(s)
    <3>1. CASE i < k.at
      BY <2>2, <2>4, <3>1
    <3>2. CASE i = k.at
      BY <1>3, <2>3, <2>4, <3>2 DEF Item
    <3>. QED
      BY <1>2, <2>4, <3>1, <3>2
  <2>. QED
    BY <2>1, <2>4
<1>8. ASSUME k.at = Len(UpPlan), NEW s \in ToSet(k.mine)
      PROVE  \E i \in DOMAIN UpPlan : UpPlan[i] = Item("wait", s.svc) /\ i <= k.at
  BY <1>1, <1>2, <1>8 DEF PlanOf
<1>. HIDE DEF e
<1>9. CASE Pick(c)
  <2>1. UpHolds(l)' /\ l.kind = "up" /\ procs' = procs
    <3>1. UpHolds(l)'
      BY <1>1, <1>9, UpPicks
    <3>2. l.kind = "up"
      BY <1>1, <1>9, PickFields
    <3>3. procs' = procs
      BY <1>9 DEF Pick
    <3>. QED
      BY <3>1, <3>2, <3>3
  <2>. QED
    BY <1>4, <2>1 DEF Holds, Early
<1>10. CASE Start(c)
  <2>1. OnePerPort' /\ UpHolds(l)' /\ l.kind = "up"
    BY <1>1, <1>10, UpStarts, StartFields
  <2>. QED
    BY <2>1 DEF Holds, Early
<1>11. CASE Write(c)
  <2>1. Same5(k, l) /\ l.at = k.at + 1 /\ l.pc \in {"pick", "wait"} /\ ItemOf(k).do = "pick"
    BY <1>1, <1>11, WriteFields
  <2>2. procs' = procs
    BY <1>11 DEF Write
  <2>3. ASSUME NEW s \in ToSet(k.mine), Waited(l, s.svc) PROVE Ready(s)
    <3>1. PICK i \in DOMAIN UpPlan : UpPlan[i] = Item("wait", s.svc) /\ i < l.at
      BY <2>1, <2>3 DEF Waited
    <3>2. i # k.at
      BY <1>3, <2>1, <3>1 DEF Item
    <3>3. i < k.at
      BY <1>2, <2>1, <3>1, <3>2
    <3>. QED
      BY <1>1, <3>1, <3>3 DEF Waited, UpHolds
  <2>. QED
    BY <1>5, <2>1, <2>2, <2>3
<1>16. CASE Truncate(c)
  <2>1. Same5(k, l) /\ l.at = k.at /\ l.pc = "rewrite" /\ procs' = procs
    <3>1. Same5(k, l) /\ l.at = k.at /\ l.pc = "rewrite"
      BY <1>1, <1>16, StepFields
    <3>. QED
      BY <1>16, <3>1 DEF Truncate
  <2>2. \A s \in ToSet(k.mine) : Waited(l, s.svc) => Ready(s)
    BY <1>1, <2>1 DEF Waited, UpHolds
  <2>. QED
    BY <1>5, <2>1, <2>2
<1>12. CASE WaitReady(c)
  <2>1. procs' = procs /\ stateFile' = stateFile /\ k.pc = "wait"
    BY <1>12 DEF WaitReady
  <2>2. \/ Same5(k, l) /\ l.at = k.at /\ l.pc = "closeRuns"
        \/ l = Idle /\ k.at = Len(UpPlan)
        \/ Same5(k, l) /\ l.at = k.at + 1 /\ l.pc \in {"pick", "wait"}
    BY <1>1, <1>12, WaitReadyFields
  <2>3. CASE l = Idle /\ k.at = Len(UpPlan)
    BY <1>6, <1>7, <1>8, <1>12, <2>1, <2>3
  <2>4. CASE Same5(k, l) /\ \/ l.at = k.at /\ l.pc = "closeRuns"
                            \/ l.at = k.at + 1 /\ l.pc \in {"pick", "wait"}
    <3>1. ASSUME NEW s \in ToSet(k.mine), Waited(l, s.svc) PROVE Ready(s)
      <4>1. PICK i \in DOMAIN UpPlan : UpPlan[i] = Item("wait", s.svc) /\ i <= k.at
        BY <1>2, <2>4, <3>1 DEF Waited
      <4>. QED
        BY <1>7, <1>12, <4>1
    <3>. QED
      BY <1>5, <2>1, <2>4, <3>1
  <2>. QED
    BY <2>2, <2>3, <2>4
<1>13. CASE CloseRuns(c)
  <2>1. Same5(k, l) /\ l.at = k.at /\ l.pc = "openRun" /\ k.pc = "closeRuns" /\ procs' = procs
    <3>1. Same5(k, l) /\ l.at = k.at /\ l.pc = "openRun"
      BY <1>1, <1>13, StepFields
    <3>. QED
      BY <1>13, <3>1 DEF CloseRuns
  <2>2. \A s \in ToSet(k.mine) : Waited(l, s.svc) => Ready(s)
    BY <1>1, <2>1 DEF Waited, UpHolds
  <2>. QED
    BY <1>5, <2>1, <2>2
<1>14. CASE OpenRun(c)
  <2>1. procs' = procs /\ stateFile' = stateFile /\ k.pc = "openRun"
    BY <1>14 DEF OpenRun
  <2>2. \/ l = Idle /\ k.at = Len(UpPlan)
        \/ Same5(k, l) /\ l.at = k.at + 1 /\ l.pc \in {"pick", "wait"}
    BY <1>1, <1>14, OpenRunFields
  <2>3. CASE l = Idle /\ k.at = Len(UpPlan)
    BY <1>6, <1>7, <1>8, <2>1, <2>3
  <2>4. CASE Same5(k, l) /\ l.at = k.at + 1 /\ l.pc \in {"pick", "wait"}
    <3>1. ASSUME NEW s \in ToSet(k.mine), Waited(l, s.svc) PROVE Ready(s)
      <4>1. PICK i \in DOMAIN UpPlan : UpPlan[i] = Item("wait", s.svc) /\ i <= k.at
        BY <1>2, <2>4, <3>1 DEF Waited
      <4>. QED
        BY <1>7, <2>1, <4>1
    <3>. QED
      BY <1>5, <2>1, <2>4, <3>1
  <2>. QED
    BY <2>2, <2>3, <2>4
<1>15. CASE Fail(c)
  <2>1. l.kind = "up" /\ l.pc = "stop"
    BY <1>1, <1>15, StepFields DEF Same5
  <2>2. procs' = procs
    BY <1>15 DEF Fail
  <2>. QED
    BY <1>4, <2>1, <2>2 DEF Holds, Early
<1>. QED
  <2>1. ~(ReadState(c) \/ Launch(c) \/ StopOld(c) \/ StartNew(c))
    BY <1>1, StepFields, StartNewFields
  <2>2. ~(StopLast(c) \/ Unlink(c) \/ RestartFails(c) \/ Evaluated(c))
    BY <1>1, Steps DEF StopLast, Unlink, RestartFails, Evaluated
  <2>. QED
    BY <1>9, <1>10, <1>11, <1>12, <1>13, <1>14, <1>15, <1>16, <2>1, <2>2 DEF Run

\* The server that binds its port is the only one that holds it.
LEMMA ReadyBind ==
  ASSUME Shape, OnePerPort, NEW pid \in DOMAIN procs, Bind(pid)
  PROVE  /\ OnePerPort' /\ \A p \in DOMAIN procs : (Alive(p) <=> Alive(p)') /\ procs'[p].port = procs[p].port
         /\ \A p \in DOMAIN procs : procs[p].st = "ready" => procs'[p].st = "ready"
<1>1. PortFree(procs[pid].port)
  BY DEF Bind, PortFree, Answering, OnePerPort, Alive
<1>2. procs' = [procs EXCEPT ![pid].st = "ready"] /\ procs[pid].st = "starting"
  BY <1>1 DEF Bind
<1>3. procs \in [DOMAIN procs -> Process]
  BY DEF Shape
<1>4. /\ DOMAIN procs' = DOMAIN procs
      /\ \A p \in DOMAIN procs : procs'[p].st = (IF p = pid THEN "ready" ELSE procs[p].st) /\ procs'[p].port = procs[p].port
  BY <1>2, <1>3 DEF Process
<1>5. \A p \in DOMAIN procs : Alive(p) <=> Alive(p)'
  BY <1>2, <1>4 DEF Alive
<1>6. \A p, q \in DOMAIN procs' : Alive(p)' /\ Alive(q)' /\ procs'[p].port = procs'[q].port => p = q
  BY <1>4, <1>5 DEF OnePerPort
<1>. QED
  BY <1>4, <1>5, <1>6 DEF OnePerPort

\* What holds of a command still does when a server has bound its port.
LEMMA ReadyBeside ==
  ASSUME Shape, OnePerPort, NEW pid \in DOMAIN procs, Bind(pid), NEW k, \A s \in ToSet(k.mine) : Entry(s)
  PROVE  /\ Holds(k) => Holds(k)'
         /\ FileReady => FileReady'
<1>1. /\ \A p \in DOMAIN procs : (Alive(p) <=> Alive(p)') /\ procs'[p].port = procs[p].port
      /\ \A p \in DOMAIN procs : procs[p].st = "ready" => procs'[p].st = "ready"
  BY ReadyBind
<1>2. DOMAIN procs' = DOMAIN procs /\ stateFile' = stateFile
  BY DEF Bind
<1>3. \A s : Entry(s) => (Ready(s) => Ready(s)') /\ (Alive(s.pid) => Alive(s.pid)')
  BY <1>1 DEF Ready, Entry
<1>4. FileReady => FileReady'
  <2>1. \A s \in ToSet(stateFile) : Entry(s)
    BY DEF Shape
  <2>. QED
    BY <1>2, <1>3, <2>1 DEF FileReady
<1>5. Free(k.port) => Free(k.port)'
  BY <1>1, <1>2 DEF Free
<1>6. UpHolds(k) => UpHolds(k)'
  BY <1>3, <1>5 DEF UpHolds
<1>7. RestartHolds(k) => RestartHolds(k)'
  BY <1>3, <1>5 DEF RestartHolds
<1>. QED
  BY <1>4, <1>6, <1>7 DEF Holds

\* A command that begins finds everything as the last one left it.
LEMMA ReadyBegins ==
  ASSUME Inductive, Smooth, Smooth', ReadyOK, NEW c \in Cmds, Up(c) \/ ServePair(c) \/ Down(c) \/ Promote(c),
         NEW l, l = cmd'[c]
  PROVE  OnePerPort' /\ Holds(l)' /\ l # Idle /\ \A d \in Cmds \ {c} : cmd'[d] = Idle
<1>1. Shape
  BY DEF Inductive
<1>2. /\ Moves(c) /\ cmd[c].kind = "none" /\ cmd[c] = Idle
      /\ overlaps' = overlaps \cup {{cmd'[c].kind, cmd[d].kind} : d \in Busy}
      /\ procs' = procs /\ stateFile' = stateFile
  BY <1>1, BeginsKind
<1>3. \A d \in Cmds : cmd[d] = Idle
  <2>1. Busy = {}
    BY <1>2 DEF Smooth
  <2>. QED
    BY <1>1, <2>1 DEF Busy, Shape, CommandOK, PlaceOK
<1>4. OnePerPort /\ FileReady
  BY <1>3 DEF ReadyOK
<1>5. OnePerPort'
  BY <1>2, <1>4 DEF OnePerPort, Alive
<1>6. \/ l.kind = "up" /\ l.pc = "pick" /\ l.mine = << >>
      \/ l.kind = "gate"
      \/ l.kind = "down"
      \/ l.kind = "restart" /\ l.pc = "read"
  BY <1>1, BeginFields
<1>7. FileReady'
  BY <1>2, <1>4 DEF FileReady, Ready
<1>8. Holds(l)'
  BY <1>6, <1>7, EmptyList DEF Holds, Early, UpHolds
<1>. QED
  BY <1>2, <1>3, <1>5, <1>6, <1>8 DEF Moves, Idle

\* What is recorded stays ready while commands run to their end one at a time.
LEMMA ReadyStep ==
  ASSUME PortsApart, Inductive, Inductive', GateOK, ReadyOK, overlaps \subseteq overlaps', past \subseteq past', [Next]_vars
  PROVE  ReadyOK'
<1>. SUFFICES ASSUME Smooth'
              PROVE  /\ OnePerPort'
                     /\ \A d \in Cmds : \A l : l = cmd'[d] /\ l # Idle => Holds(l)'
                     /\ (\A d \in Cmds : cmd'[d] = Idle) => FileReady'
  <2>1. Idle' = Idle
    BY DEF Idle
  <2>. QED
    BY <2>1 DEF ReadyOK
<1>1. Shape /\ Shape' /\ exits \in Nat
  BY DEF Inductive, Shape, CountsOK
<1>2. \A pid \in DOMAIN procs : ~Exit(pid)
  BY <1>1 DEF Exit, Smooth
<1>3. \A c \in Cmds : ~Kill(c) /\ ~RestartFails(c)
  BY DEF Kill, RestartFails, Fault, Smooth, Never
<1>4. Smooth
  <2>1. exits' = exits
    <3>1. ASSUME NEW c \in Cmds, Up(c) \/ ServePair(c) \/ Down(c) \/ Promote(c) PROVE exits' = exits
      BY <3>1 DEF Up, ServePair, Down, Promote, Begin
    <3>2. ASSUME NEW pid \in DOMAIN procs, Bind(pid) PROVE exits' = exits
      BY <3>2 DEF Bind
    <3>3. UNCHANGED vars => exits' = exits
      BY DEF vars
    <3>. QED
      BY <1>2, <1>3, <3>1, <3>2, <3>3, RunLeaves DEF Next
  <2>. QED
    BY <2>1 DEF Smooth, Never
<1>5. ASSUME NEW c \in Cmds, Up(c) \/ ServePair(c) \/ Down(c) \/ Promote(c)
      PROVE  /\ OnePerPort'
             /\ \A d \in Cmds : \A l : l = cmd'[d] /\ l # Idle => Holds(l)'
             /\ ~(\A d \in Cmds : cmd'[d] = Idle)
  BY <1>4, <1>5, ReadyBegins
<1>6. ASSUME NEW c \in Cmds, Run(c), NEW l, l = cmd'[c]
      PROVE  /\ OnePerPort' /\ \A d \in Cmds \ {c} : cmd'[d] = Idle
             /\ Holds(l)' /\ (l = Idle => FileReady')
  <2>. DEFINE k == cmd[c]
  <2>1. /\ Moves(c) /\ l.kind \in {k.kind, "none"} /\ k \in Command /\ PlaceOK(k) /\ MineOK(k)
    BY <1>1, <1>6, RunShape, Places DEF Shape, CommandOK
  <2>2. k.kind # "none"
    <3>1. k.kind = "none" => k.pc = "idle"
      BY <2>1 DEF PlaceOK, Idle
    <3>2. CASE Fail(c) \/ RestartFails(c)
      BY <3>2 DEF Fail, RestartFails
    <3>. QED
      BY <1>6, <3>1, <3>2 DEF Run, Pick, Start, Truncate, Write, WaitReady, CloseRuns, OpenRun, Evaluated, StopLast, Unlink,
        ReadState, Launch, StopOld, StartNew
  <2>3. \A d \in Cmds \ {c} : cmd'[d] = Idle
    <3>1. \A d \in Cmds \ {c} : cmd[d].kind = "none"
      BY <1>4, <2>2, SmoothRun
    <3>2. \A d \in Cmds \ {c} : cmd[d] = Idle
      BY <1>1, <3>1 DEF Shape, CommandOK, PlaceOK
    <3>. QED
      BY <2>1, <3>2 DEF Moves
  <2>4. OnePerPort /\ Holds(k)
    BY <1>4, <2>2 DEF ReadyOK, Idle
  <2>5. OnePerPort' /\ Holds(l)'
    <3>1. CASE k.kind = "gate"
      <4>1. OnePerPort' /\ FileReady'
        BY <1>4, <1>6, <2>4, <3>1, ReadyGate DEF Holds, Early
      <4>. QED
        BY <2>1, <3>1, <4>1 DEF Holds, Early
    <3>2. CASE k.kind = "restart"
      BY <1>4, <1>6, <2>4, <3>2, ReadyRestart
    <3>3. CASE k.kind # "gate" /\ k.pc = "stop"
      BY <1>4, <1>6, <2>4, <3>3, ReadyDown
    <3>4. CASE k.kind = "up" /\ k.pc # "stop"
      BY <1>4, <1>6, <2>4, <3>4, ReadyUp
    <3>. QED
      BY <2>1, <2>2, <3>1, <3>2, <3>3, <3>4 DEF Command, Kind, PlaceOK
  <2>6. l = Idle => FileReady'
    BY <2>5 DEF Holds, Early, Idle
  <2>. QED
    BY <2>3, <2>5, <2>6
<1>7. ASSUME NEW pid \in DOMAIN procs, Bind(pid)
      PROVE  /\ OnePerPort'
             /\ \A d \in Cmds : \A l : l = cmd'[d] /\ l # Idle => Holds(l)'
             /\ (\A d \in Cmds : cmd'[d] = Idle) => FileReady'
  <2>1. cmd' = cmd
    BY <1>7 DEF Bind
  <2>2. OnePerPort /\ (\A d \in Cmds : cmd[d] # Idle => Holds(cmd[d]))
        /\ ((\A d \in Cmds : cmd[d] = Idle) => FileReady)
    BY <1>4 DEF ReadyOK
  <2>3. OnePerPort'
    BY <1>1, <1>7, <2>2, ReadyBind
  <2>4. ASSUME NEW d \in Cmds, NEW l, l = cmd'[d], l # Idle PROVE Holds(l)'
    <3>1. l = cmd[d] /\ Holds(l) /\ \A s \in ToSet(l.mine) : Entry(s)
      BY <1>1, <2>1, <2>2, <2>4 DEF Shape
    <3>. QED
      BY <1>1, <1>7, <2>2, <3>1, ReadyBeside
  <2>5. ASSUME \A d \in Cmds : cmd'[d] = Idle PROVE FileReady'
    <3>1. FileReady /\ \A s \in ToSet(Idle.mine) : Entry(s)
      BY <2>1, <2>2, <2>5, EmptyList DEF Idle
    <3>. QED
      BY <1>1, <1>7, <2>2, <3>1, ReadyBeside
  <2>. QED
    BY <2>3, <2>4, <2>5
<1>8. ASSUME UNCHANGED vars
      PROVE  /\ OnePerPort'
             /\ \A d \in Cmds : \A l : l = cmd'[d] /\ l # Idle => Holds(l)'
             /\ (\A d \in Cmds : cmd'[d] = Idle) => FileReady'
  <2>1. procs' = procs /\ stateFile' = stateFile /\ cmd' = cmd
    BY <1>8 DEF vars
  <2>2. OnePerPort /\ (\A d \in Cmds : cmd[d] # Idle => Holds(cmd[d]))
        /\ ((\A d \in Cmds : cmd[d] = Idle) => FileReady)
    BY <1>4 DEF ReadyOK
  <2>3. (OnePerPort => OnePerPort') /\ (FileReady => FileReady') /\ \A k : Holds(k) => Holds(k)'
    BY <2>1 DEF OnePerPort, FileReady, Holds, UpHolds, RestartHolds, Ready, Alive, Free
  <2>. QED
    BY <2>1, <2>2, <2>3
<1>9. ASSUME NEW c \in Cmds, Run(c)
      PROVE  /\ OnePerPort'
             /\ \A d \in Cmds : \A l : l = cmd'[d] /\ l # Idle => Holds(l)'
             /\ (\A d \in Cmds : cmd'[d] = Idle) => FileReady'
  BY <1>6, <1>9
<1>. QED
  BY <1>2, <1>3, <1>5, <1>7, <1>8, <1>9 DEF Next

\* When nothing is under way, every recorded service runs and a server answers at its
\* port, provided the configuration gives no port twice, no command was killed or failed
\* to restart its engine, none overlapped another, and no service ended by itself.
THEOREM WhatIsUpIsReady == PortsApart => (Spec => []UpMeansReady)
<1>. SUFFICES ASSUME PortsApart PROVE Spec => []UpMeansReady
  OBVIOUS
<1>1. Init => SwapKeepsPorts /\ GateOK /\ ReadyOK
  <2>. SUFFICES ASSUME Init PROVE SwapKeepsPorts /\ GateOK /\ ReadyOK
    OBVIOUS
  <2>1. \A c \in Cmds : cmd[c] = Idle /\ cmd[c].kind = "none"
    BY DEF Init, Idle
  <2>2. OnePerPort /\ FileReady
    BY EmptyList DEF Init, OnePerPort, FileReady
  <2>. QED
    BY <2>1, <2>2 DEF SwapKeepsPorts, GateOK, ReadyOK
<1>2. /\ Inductive /\ Inductive' /\ SwapKeepsPorts /\ GateOK /\ ReadyOK /\ [Next]_vars
      => SwapKeepsPorts' /\ GateOK' /\ ReadyOK'
  BY InductiveStep, SwapStep, GateStep, ReadyStep
<1>3. Inductive /\ ReadyOK => UpMeansReady
  <2>. SUFFICES ASSUME Inductive, ReadyOK, Quiet, Smooth
                PROVE  Readable /\ \A s \in ToSet(stateFile) : StatusOf(s) = "ready"
    BY DEF UpMeansReady, Smooth
  <2>4. Readable
    BY ReadableAtRest DEF Smooth, Apart, Never
  <2>. SUFFICES ASSUME NEW s \in ToSet(stateFile) PROVE StatusOf(s) = "ready"
    BY <2>4
  <2>1. \A c \in Cmds : cmd[c] = Idle
    BY DEF Quiet, Busy, Inductive, Shape, CommandOK, PlaceOK
  <2>2. Ready(s) /\ Entry(s)
    BY <2>1 DEF ReadyOK, FileReady, Inductive, Shape
  <2>3. s.pid \in Answering(s.port)
    BY <2>2 DEF Ready, Entry, Answering
  <2>. QED
    BY <2>2, <2>3 DEF StatusOf, Ready, Alive, Healthy
<1>. QED
  BY <1>1, <1>2, <1>3, ServingInvariant, PTL DEF Spec
=============================================================================
