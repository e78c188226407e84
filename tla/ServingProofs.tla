--------------------------- MODULE ServingProofs ---------------------------
(***************************************************************************)
(* Theorems about Serving.                                                 *)
(*                                                                         *)
(* Shape says what every command in progress looks like: where it is in    *)
(* its plan, and that its list of services holds one entry per service it  *)
(* has started, each about a process with that name and port.  On top of   *)
(* it, one conjunct per question: which commands ran beside each other,    *)
(* what the open runs count, what a command's list says about the file.    *)
(***************************************************************************)
EXTENDS Serving, FiniteSetTheorems, TLAPS

-----------------------------------------------------------------------------
(* Plans                                                                   *)

Item(step, name) == [do |-> step, svc |-> name]

\* A plan for the services in names: each is started once and waited for once, later.
PlanOf(plan, names) ==
  /\ plan \in Seq([do : {"pick", "wait"}, svc : STRING])
  /\ \A i \in DOMAIN plan : plan[i].svc \in names
  /\ \A i, j \in DOMAIN plan : plan[i] = plan[j] => i = j
  /\ \A n \in names : \E i, j \in DOMAIN plan :
       i < j /\ plan[i] = Item("pick", n) /\ plan[j] = Item("wait", n)

\* A function on 1..k is a sequence.
LEMMA FunctionIsSequence ==
  ASSUME NEW S, NEW k \in Nat, NEW f \in [1..k -> S]
  PROVE  f \in Seq(S) /\ Len(f) = k
OBVIOUS

\* What a sequence holds is a member of its set.
LEMMA ItemOfSequence ==
  ASSUME NEW S, NEW s \in Seq(S), NEW i \in DOMAIN s
  PROVE  s[i] \in S
OBVIOUS

\* One service after the other.
LEMMA OneByOne ==
  ASSUME NEW names \in Seq(STRING), Distinct(names)
  PROVE  PlanOf(StartAndWait(names), ToSet(names))
<1>. DEFINE p == StartAndWait(names)
<1>1. Len(names) \in Nat /\ DOMAIN names = 1..Len(names)
  OBVIOUS
<1>2. \A i \in 1..2 * Len(names) : (i + 1) \div 2 \in 1..Len(names)
  BY <1>1
<1>3. p \in Seq([do : {"pick", "wait"}, svc : STRING]) /\ Len(p) = 2 * Len(names)
  BY <1>1, <1>2 DEF StartAndWait
<1>4. \A i \in DOMAIN p : p[i].svc = names[(i + 1) \div 2] /\ p[i].do = IF i % 2 = 1 THEN "pick" ELSE "wait"
  BY <1>3 DEF StartAndWait
<1>5. DOMAIN p = 1..2 * Len(names)
  BY <1>1, <1>3
<1>6. \A i \in DOMAIN p : p[i].svc \in ToSet(names)
  BY <1>2, <1>4, <1>5 DEF ToSet
<1>7. ASSUME NEW i \in DOMAIN p, NEW j \in DOMAIN p, p[i] = p[j] PROVE i = j
  <2>1. (i + 1) \div 2 = (j + 1) \div 2
    <3>. DEFINE k == (i + 1) \div 2
                l == (j + 1) \div 2
    <3>1. k \in DOMAIN names /\ l \in DOMAIN names
      BY <1>1, <1>2, <1>5
    <3>2. names[k] = names[l]
      BY <1>4, <1>7
    <3>. HIDE DEF k, l
    <3>3. k = l
      BY <3>1, <3>2 DEF Distinct
    <3>. QED
      BY <3>3 DEF k, l
  <2>2. i % 2 = 1 <=> j % 2 = 1
    BY <1>4, <1>7
  <2>3. i \in Nat /\ j \in Nat
    BY <1>5
  <2>. QED
    BY <2>1, <2>2, <2>3
<1>8. ASSUME NEW n \in ToSet(names)
      PROVE  \E i, j \in DOMAIN p : i < j /\ p[i] = Item("pick", n) /\ p[j] = Item("wait", n)
  <2>1. PICK k \in 1..Len(names) : names[k] = n
    BY <1>1 DEF ToSet
  <2>2. 2 * k - 1 \in DOMAIN p /\ 2 * k \in DOMAIN p /\ 2 * k - 1 < 2 * k
    BY <1>1, <1>5
  <2>3. ((2 * k - 1) + 1) \div 2 = k /\ (2 * k + 1) \div 2 = k
        /\ (2 * k - 1) % 2 = 1 /\ (2 * k) % 2 # 1
    OBVIOUS
  <2>4. p[2 * k - 1] = Item("pick", n) /\ p[2 * k] = Item("wait", n)
    BY <2>1, <2>2, <2>3, <1>5 DEF StartAndWait, Item
  <2>. QED
    BY <2>2, <2>4
<1>. QED
  BY <1>3, <1>6, <1>7, <1>8 DEF PlanOf

\* All are started, then all are waited for.
LEMMA AllThenAll ==
  ASSUME NEW names \in Seq(STRING), Distinct(names)
  PROVE  PlanOf(StartThenWait(names), ToSet(names))
<1>. DEFINE p == StartThenWait(names)
            n == Len(names)
<1>1. n \in Nat /\ DOMAIN names = 1..n /\ \A k \in 1..n : names[k] \in STRING
  OBVIOUS
<1>2. DOMAIN p = 1..2 * n /\ p \in Seq([do : {"pick", "wait"}, svc : STRING])
  <2>1. \A i \in 1..2 * n : ~(i <= n) => i - n \in 1..n
    BY <1>1
  <2>2. \A i \in 1..2 * n : i <= n => i \in 1..n
    BY <1>1
  <2>3. p \in [1..2 * n -> [do : {"pick", "wait"}, svc : STRING]]
    BY <1>1, <2>1, <2>2 DEF StartThenWait
  <2>4. DOMAIN p = 1..2 * n
    BY DEF StartThenWait
  <2>. HIDE DEF p
  <2>5. 2 * n \in Nat
    BY <1>1
  <2>. HIDE DEF n
  <2>. QED
    BY <2>3, <2>4, <2>5, FunctionIsSequence
<1>3. \A i \in 1..n : i \in DOMAIN p /\ i + n \in DOMAIN p /\ p[i] = Item("pick", names[i]) /\ p[i + n] = Item("wait", names[i])
  BY <1>1, <1>2 DEF StartThenWait, Item
<1>4. \A i \in DOMAIN p : \E k \in 1..n : (i = k /\ p[i] = Item("pick", names[k])) \/ (i = k + n /\ p[i] = Item("wait", names[k]))
  <2>. SUFFICES ASSUME NEW i \in 1..2 * n
                PROVE  \E k \in 1..n : (i = k /\ p[i] = Item("pick", names[k])) \/ (i = k + n /\ p[i] = Item("wait", names[k]))
    BY <1>2
  <2>1. CASE i <= n
    BY <1>1, <1>3, <2>1
  <2>2. CASE ~(i <= n)
    <3>1. i - n \in 1..n /\ i = (i - n) + n
      BY <1>1, <2>2
    <3>. QED
      BY <1>3, <3>1
  <2>. QED
    BY <2>1, <2>2
<1>. HIDE DEF p, n
<1>5. \A i \in DOMAIN p : p[i].svc \in ToSet(names)
  BY <1>1, <1>4 DEF ToSet, Item
<1>6. \A i, j \in DOMAIN p : p[i] = p[j] => i = j
  BY <1>1, <1>4 DEF Item, Distinct
<1>7. ASSUME NEW x \in ToSet(names)
      PROVE  \E i, j \in DOMAIN p : i < j /\ p[i] = Item("pick", x) /\ p[j] = Item("wait", x)
  <2>1. PICK k \in 1..n : names[k] = x
    BY <1>1 DEF ToSet
  <2>2. k < k + n
    BY <1>1
  <2>. QED
    BY <1>3, <2>1, <2>2
<1>. QED
  BY <1>2, <1>5, <1>6, <1>7 DEF PlanOf, p

\* A plan for some services and then a plan for others.
LEMMA OneThenOther ==
  ASSUME NEW p, NEW q, NEW N, NEW M, PlanOf(p, N), PlanOf(q, M), N \cap M = {}
  PROVE  PlanOf(p \o q, N \cup M)
<1>. DEFINE r == p \o q
            T == [do : {"pick", "wait"}, svc : STRING]
<1>1. p \in Seq(T) /\ q \in Seq(T) /\ r \in Seq(T)
  BY DEF PlanOf
<1>2. Len(p) \in Nat /\ Len(q) \in Nat /\ DOMAIN p = 1..Len(p) /\ DOMAIN q = 1..Len(q) /\ DOMAIN r = 1..Len(p) + Len(q)
  BY <1>1
<1>3. \A i \in DOMAIN p : i \in DOMAIN r /\ r[i] = p[i]
  BY <1>1, <1>2
<1>4. \A i \in DOMAIN q : i + Len(p) \in DOMAIN r /\ r[i + Len(p)] = q[i]
  BY <1>1, <1>2
<1>5. \A i \in DOMAIN r : i \in DOMAIN p \/ \E k \in DOMAIN q : i = k + Len(p)
  <2>. SUFFICES ASSUME NEW i \in DOMAIN r, i \notin DOMAIN p PROVE \E k \in DOMAIN q : i = k + Len(p)
    OBVIOUS
  <2>1. i - Len(p) \in DOMAIN q /\ i = (i - Len(p)) + Len(p)
    BY <1>2
  <2>. QED
    BY <2>1
<1>. HIDE DEF r
<1>6. \A i \in DOMAIN r : r[i].svc \in N \cup M
  BY <1>3, <1>4, <1>5 DEF PlanOf
<1>7. \A i, j \in DOMAIN r : r[i] = r[j] => i = j
  <2>. SUFFICES ASSUME NEW i \in DOMAIN r, NEW j \in DOMAIN r, r[i] = r[j] PROVE i = j
    OBVIOUS
  <2>1. CASE i \in DOMAIN p /\ j \in DOMAIN p
    <3>1. p[i] = p[j]
      BY <1>3, <2>1
    <3>. QED
      BY <2>1, <3>1 DEF PlanOf
  <2>2. ASSUME NEW k \in DOMAIN p, NEW l \in DOMAIN q, p[k] = q[l] PROVE FALSE
    <3>1. p[k].svc \in N /\ q[l].svc \in M
      BY DEF PlanOf
    <3>. QED
      BY <2>2, <3>1
  <2>3. ASSUME NEW k \in DOMAIN q, NEW l \in DOMAIN q, i = k + Len(p), j = l + Len(p) PROVE i = j
    <3>1. q[k] = q[l]
      BY <1>4, <2>3
    <3>2. k = l
      BY <3>1 DEF PlanOf
    <3>. QED
      BY <2>3, <3>2
  <2>4. i \in DOMAIN p \/ \E k \in DOMAIN q : i = k + Len(p)
    BY <1>5
  <2>5. j \in DOMAIN p \/ \E k \in DOMAIN q : j = k + Len(p)
    BY <1>5
  <2>6. CASE i \in DOMAIN p /\ \E k \in DOMAIN q : j = k + Len(p)
    BY <1>3, <1>4, <2>2, <2>6
  <2>7. CASE j \in DOMAIN p /\ \E k \in DOMAIN q : i = k + Len(p)
    BY <1>3, <1>4, <2>2, <2>7
  <2>. QED
    BY <2>1, <2>3, <2>4, <2>5, <2>6, <2>7
<1>8. \A n \in N : \E i, j \in DOMAIN r : i < j /\ r[i] = Item("pick", n) /\ r[j] = Item("wait", n)
  BY <1>3 DEF PlanOf
<1>9. ASSUME NEW n \in M
      PROVE  \E i, j \in DOMAIN r : i < j /\ r[i] = Item("pick", n) /\ r[j] = Item("wait", n)
  <2>1. PICK i, j \in DOMAIN q : i < j /\ q[i] = Item("pick", n) /\ q[j] = Item("wait", n)
    BY DEF PlanOf
  <2>2. i + Len(p) < j + Len(p)
    BY <1>2, <2>1
  <2>. QED
    BY <1>4, <2>1, <2>2
<1>. QED
  BY <1>1, <1>6, <1>7, <1>8, <1>9 DEF PlanOf, r

UpNames   == ToSet(Before) \cup Model \cup ToSet(After)
GateNames == ToSet(GateRuns)

\* Both plans are plans for their services, and have an item at least.
LEMMA Plans ==
  /\ PlanOf(UpPlan, UpNames) /\ PlanOf(GatePlan, GateNames)
  /\ UpNames # {} /\ GateNames # {} /\ UpNames \cap GateNames = {}
<1>. USE ServingAssumption
<1>1. /\ PlanOf(StartAndWait(Before), ToSet(Before)) /\ PlanOf(StartThenWait(Models), ToSet(Models))
      /\ PlanOf(StartAndWait(After), ToSet(After)) /\ PlanOf(StartThenWait(GateRuns), ToSet(GateRuns))
  BY OneByOne, AllThenAll
<1>2. ToSet(Models) \cap ToSet(After) = {} /\ ToSet(Before) \cap (ToSet(Models) \cup ToSet(After)) = {}
  OBVIOUS
<1>3. PlanOf(StartThenWait(Models) \o StartAndWait(After), ToSet(Models) \cup ToSet(After))
  BY <1>1, <1>2, OneThenOther
<1>4. PlanOf(UpPlan, ToSet(Before) \cup (ToSet(Models) \cup ToSet(After)))
  BY <1>1, <1>2, <1>3, OneThenOther DEF UpPlan
<1>5. PlanOf(UpPlan, UpNames)
  <2>1. UpNames = ToSet(Before) \cup (ToSet(Models) \cup ToSet(After))
    BY DEF UpNames, Model
  <2>. QED
    BY <1>4, <2>1
<1>6. GateNames # {}
  BY SMTT(40) DEF GateNames, ToSet
<1>7. UpNames # {}
  <2>1. Models # << >> \/ After # << >>
    OBVIOUS
  <2>2. \A names \in {Models, After} : names # << >> => names[1] \in ToSet(names)
    BY DEF ToSet
  <2>. QED
    BY <2>1, <2>2 DEF UpNames, Model
<1>. QED
  BY <1>1, <1>5, <1>6, <1>7 DEF GatePlan, GateNames, UpNames, Model

-----------------------------------------------------------------------------
(* Lists of services                                                       *)

Names(list)   == {s.svc : s \in ToSet(list)}
OneEach(list) == \A s, t \in ToSet(list) : s.svc = t.svc => s = t
\* No service stands twice in the list.
Single(list)  == \A i, j \in DOMAIN list : list[i] = list[j] => i = j
ListOK(list)  == list \in Seq(Service) /\ OneEach(list) /\ Single(list)

\* A service with a name of its own comes last.
LEMMA Appended ==
  ASSUME NEW list, ListOK(list), NEW s \in Service, s.svc \notin Names(list)
  PROVE  /\ ListOK(Append(list, s)) /\ ToSet(Append(list, s)) = ToSet(list) \cup {s}
         /\ Names(Append(list, s)) = Names(list) \cup {s.svc}
<1>. DEFINE new == Append(list, s)
<1>1. list \in Seq(Service) /\ new \in Seq(Service) /\ Len(list) \in Nat
      /\ DOMAIN list = 1..Len(list) /\ DOMAIN new = 1..Len(list) + 1
  BY DEF ListOK
<1>2. new[Len(list) + 1] = s /\ \A i \in DOMAIN list : i \in DOMAIN new /\ new[i] = list[i]
  BY <1>1
<1>3. \A i \in DOMAIN new : i \in DOMAIN list \/ i = Len(list) + 1
  BY <1>1
<1>4. s \notin ToSet(list)
  BY DEF Names
<1>. HIDE DEF new
<1>5. ToSet(new) = ToSet(list) \cup {s}
  <2>1. Len(list) + 1 \in DOMAIN new
    BY <1>1
  <2>. QED
    BY <1>2, <1>3, <2>1 DEF ToSet
<1>6. OneEach(new)
  BY <1>5 DEF OneEach, ListOK, Names
<1>7. Single(new)
  BY <1>2, <1>3, <1>4 DEF Single, ListOK, ToSet
<1>. QED
  BY <1>1, <1>5, <1>6, <1>7 DEF ListOK, Names, new

\* The list without its last service.
LEMMA Shortened ==
  ASSUME NEW list, ListOK(list), list # << >>
  PROVE  /\ ListOK(Front(list)) /\ Last(list) \in ToSet(list)
         /\ ToSet(Front(list)) = ToSet(list) \ {Last(list)}
         /\ Names(Front(list)) = Names(list) \ {Last(list).svc}
<1>. DEFINE n == Len(list)
            new == Front(list)
<1>1. list \in Seq(Service) /\ n \in Nat /\ n # 0 /\ DOMAIN list = 1..n
  BY DEF ListOK
<1>2. n - 1 \in Nat /\ new \in Seq(Service) /\ Len(new) = n - 1 /\ DOMAIN new = 1..n - 1
      /\ \A i \in 1..n - 1 : new[i] = list[i]
  BY <1>1 DEF Front
<1>3. n \in DOMAIN list /\ Last(list) = list[n]
  BY <1>1 DEF Last
<1>4. \A i \in DOMAIN list : i \in DOMAIN new \/ i = n
  BY <1>1, <1>2
<1>5. \A i \in DOMAIN new : i \in DOMAIN list /\ i # n /\ new[i] = list[i]
  BY <1>1, <1>2
<1>. HIDE DEF n, new
<1>6. ToSet(new) = ToSet(list) \ {Last(list)}
  BY <1>3, <1>4, <1>5 DEF ToSet, ListOK, Single
<1>7. Last(list) \in ToSet(list)
  BY <1>3 DEF ToSet
<1>8. OneEach(new) /\ Names(new) = Names(list) \ {Last(list).svc}
  BY <1>6, <1>7 DEF OneEach, ListOK, Names
<1>9. Single(new)
  BY <1>5 DEF Single, ListOK
<1>. QED
  BY <1>2, <1>6, <1>7, <1>8, <1>9 DEF ListOK, new

\* The service of a name, if the list has one.
LEMMA TheService ==
  ASSUME NEW list, OneEach(list), NEW n \in Names(list)
  PROVE  LET s == CHOOSE s \in ToSet(list) : s.svc = n
         IN  s \in ToSet(list) /\ s.svc = n /\ \A t \in ToSet(list) : t.svc = n => t = s
<1>. DEFINE s == CHOOSE x \in ToSet(list) : x.svc = n
<1>1. \E x \in ToSet(list) : x.svc = n
  BY DEF Names
<1>2. s \in ToSet(list) /\ s.svc = n
  BY <1>1
<1>. QED
  BY <1>2 DEF OneEach

\* One service of the list gets another process.
LEMMA Replaced ==
  ASSUME NEW list, ListOK(list), NEW s \in ToSet(list), NEW t \in Service, t.svc = s.svc
  PROVE  LET new == [i \in DOMAIN list |-> IF list[i] = s THEN t ELSE list[i]]
         IN  ListOK(new) /\ ToSet(new) = (ToSet(list) \ {s}) \cup {t} /\ Names(new) = Names(list)
<1>. DEFINE new == [i \in DOMAIN list |-> IF list[i] = s THEN t ELSE list[i]]
<1>1. list \in Seq(Service) /\ Len(list) \in Nat /\ DOMAIN list = 1..Len(list) /\ DOMAIN new = DOMAIN list
  BY DEF ListOK
<1>2. new \in Seq(Service)
  <2>1. new \in [1..Len(list) -> Service]
    BY <1>1
  <2>. QED
    BY <1>1, <2>1, FunctionIsSequence
<1>3. PICK k \in DOMAIN list : list[k] = s
  BY DEF ToSet
<1>4. new[k] = t /\ \A i \in DOMAIN list : i # k => new[i] = list[i] /\ list[i] # s
  BY <1>3 DEF ListOK, Single
<1>. HIDE DEF new
<1>5. ToSet(new) = (ToSet(list) \ {s}) \cup {t}
  <2>1. ToSet(new) \subseteq (ToSet(list) \ {s}) \cup {t}
    BY <1>1, <1>4 DEF ToSet
  <2>2. ToSet(list) \ {s} \subseteq ToSet(new) /\ t \in ToSet(new)
    BY <1>1, <1>3, <1>4 DEF ToSet
  <2>. QED
    BY <2>1, <2>2
<1>6. OneEach(new) /\ Names(new) = Names(list)
  BY <1>5 DEF OneEach, ListOK, Names
<1>7. Single(new)
  <2>. SUFFICES ASSUME NEW i \in DOMAIN list, NEW j \in DOMAIN list, new[i] = new[j], i # k PROVE i = j
    BY <1>1, <1>4 DEF Single
  <2>1. new[i] = list[i] /\ list[i] # s /\ list[i] \in ToSet(list)
    BY <1>4 DEF ToSet
  <2>2. list[i].svc # t.svc
    BY <2>1 DEF ListOK, OneEach
  <2>3. j # k
    BY <1>4, <2>1, <2>2
  <2>. QED
    BY <1>4, <2>1, <2>3 DEF ListOK, Single
<1>. QED
  BY <1>2, <1>5, <1>6, <1>7 DEF ListOK, new

-----------------------------------------------------------------------------
(* Commands in progress                                                    *)

PlanFor(kind) == IF kind = "gate" THEN GatePlan ELSE UpPlan
NamesOf(kind) == IF kind = "gate" THEN GateNames ELSE UpNames

\* What is at the place of a command, and what its list has of it.
ItemOf(k)    == PlanFor(k.kind)[k.at]
ServiceOf(k) == ItemOf(k).svc
EntryOf(k)   == CHOOSE s \in ToSet(k.mine) : s.svc = ServiceOf(k)

Pc == {"idle", "pick", "start", "write", "rewrite", "wait", "closeRuns", "openRun", "evaluating",
       "stop", "read", "launch", "swap"}
Command == [kind : Kind, pc : Pc, at : Nat, mine : Seq(Service), taken : SUBSET Nat,
            port : Nat, adapter : Nat]

\* Where a command of each kind can be, and what its plan has there.
PlaceOK(k) ==
  /\ k.kind = "none" => k = Idle
  /\ k.kind = "up" => k.pc \in {"pick", "start", "write", "rewrite", "wait", "closeRuns", "openRun", "stop"}
  /\ k.kind = "gate" => k.pc \in {"pick", "start", "wait", "evaluating", "stop"}
  /\ k.kind = "down" => k.pc = "stop" /\ k.at = 0
  /\ k.kind = "restart" => k.pc \in {"read", "launch", "swap", "start", "write", "rewrite", "wait"}
  /\ k.kind \in {"up", "gate", "restart"} => k.at \in DOMAIN PlanFor(k.kind)
  /\ k.kind \in {"up", "gate"} /\ k.pc \in {"pick", "start", "write", "rewrite"} => ItemOf(k).do = "pick"
  /\ k.kind = "restart" \/ k.pc \in {"wait", "closeRuns", "openRun"} => ItemOf(k).do = "wait"
  /\ k.kind = "restart" \/ k.pc \in {"closeRuns", "openRun"} => ServiceOf(k) \in Model

\* The services that a command has started by now.
StartedBy(k) == {n \in NamesOf(k.kind) : \E i \in DOMAIN PlanFor(k.kind) :
  PlanFor(k.kind)[i] = Item("pick", n) /\ (i < k.at \/ (i = k.at /\ k.pc \in {"write", "rewrite"}))}

\* The list of a command holds what it has started, or what the file had.
MineOK(k) ==
  /\ ListOK(k.mine) /\ Names(k.mine) \subseteq NamesOf(k.kind)
  /\ k.kind \in {"up", "gate"} /\ k.pc # "stop" => Names(k.mine) = StartedBy(k)
  /\ k.kind = "restart" /\ k.pc = "read" => k.mine = << >>
  /\ k.kind = "restart" /\ k.pc # "read" => ServiceOf(k) \in Names(k.mine)
  /\ k.kind = "restart" /\ k.pc \in {"swap", "start"} => k.port = EntryOf(k).port

CommandOK(k) == k \in Command /\ PlaceOK(k) /\ MineOK(k)

CountsOK ==
  /\ file \in File /\ openRuns \in [Model -> Nat] /\ live \in [Model -> 0..MaxVersion]
  /\ past \subseteq Faults /\ overlaps \subseteq SUBSET Kind
  /\ commands \in Nat /\ kills \in Nat /\ exits \in Nat

Shape ==
  /\ procs \in Seq(Process) /\ CountsOK
  /\ ListOK(stateFile) /\ Names(stateFile) \subseteq UpNames /\ \A s \in ToSet(stateFile) : Entry(s)
  /\ cmd \in [Cmds -> Command]
  /\ \A c \in Cmds : CommandOK(cmd[c]) /\ \A s \in ToSet(cmd[c].mine) : Entry(s)

\* The names above and the operators of the model say the same.
LEMMA Same ==
  ASSUME NEW c \in Cmds
  PROVE  /\ Plan(c) = PlanFor(cmd[c].kind) /\ Current(c) = ServiceOf(cmd[c]) /\ Mine(c) = EntryOf(cmd[c])
         /\ Plan(c)[cmd[c].at] = ItemOf(cmd[c])
BY DEF Plan, PlanFor, Current, ServiceOf, ItemOf, Mine, EntryOf

\* The plan of a kind of command, its first item, and the end of what it starts.
LEMMA PlanFacts ==
  ASSUME NEW kind
  PROVE  /\ PlanOf(PlanFor(kind), NamesOf(kind))
         /\ PlanFor(kind) \in Seq([do : {"pick", "wait"}, svc : STRING])
         /\ Len(PlanFor(kind)) \in Nat /\ DOMAIN PlanFor(kind) = 1..Len(PlanFor(kind))
         /\ 1 \in DOMAIN PlanFor(kind) /\ PlanFor(kind)[1].do = "pick"
<1>1. PlanOf(PlanFor(kind), NamesOf(kind)) /\ NamesOf(kind) # {}
  BY Plans DEF PlanFor, NamesOf
<1>. DEFINE p == PlanFor(kind)
<1>. HIDE DEF p
<1>2. p \in Seq([do : {"pick", "wait"}, svc : STRING]) /\ Len(p) \in Nat /\ DOMAIN p = 1..Len(p)
  BY <1>1 DEF PlanOf, p
<1>3. PICK n \in NamesOf(kind), i \in DOMAIN p, j \in DOMAIN p : i < j /\ p[i] = Item("pick", n) /\ p[j] = Item("wait", n)
  BY <1>1 DEF PlanOf, p
<1>4. 1 \in DOMAIN p
  BY <1>2, <1>3
<1>5. p[1].do = "pick"
  <2>. DEFINE T == [do : {"pick", "wait"}, svc : STRING]
  <2>1. p[1] \in T /\ p[1].svc \in NamesOf(kind)
    <3>1. p \in Seq(T)
      BY <1>2
    <3>. HIDE DEF T
    <3>. QED
      BY <1>1, <1>4, <3>1, ItemOfSequence DEF PlanOf, p
  <2>2. PICK a \in DOMAIN p, b \in DOMAIN p : a < b /\ p[b] = Item("wait", p[1].svc)
    BY <1>1, <2>1 DEF PlanOf, p
  <2>3. CASE p[1].do = "wait"
    <3>1. p[1] = p[b]
      BY <2>1, <2>2, <2>3 DEF Item
    <3>2. b = 1
      BY <1>1, <1>4, <3>1 DEF PlanOf, p
    <3>. QED
      BY <1>2, <2>2, <3>2
  <2>. QED
    BY <2>1, <2>3
<1>. QED
  BY <1>1, <1>2, <1>4, <1>5 DEF p

\* What the plan of a command says at its place.
LEMMA ItemFacts ==
  ASSUME NEW k, k.at \in DOMAIN PlanFor(k.kind)
  PROVE  /\ ItemOf(k).do \in {"pick", "wait"} /\ ServiceOf(k) \in NamesOf(k.kind) /\ ServiceOf(k) \in STRING
         /\ ItemOf(k) = Item(ItemOf(k).do, ServiceOf(k))
         /\ ItemOf(k).do = "pick" => k.at < Len(PlanFor(k.kind))
         /\ k.at \in Nat
<1>. DEFINE p == PlanFor(k.kind)
<1>1. p \in Seq([do : {"pick", "wait"}, svc : STRING]) /\ PlanOf(p, NamesOf(k.kind))
      /\ Len(p) \in Nat /\ DOMAIN p = 1..Len(p)
  BY PlanFacts
<1>. HIDE DEF p
<1>2. ItemOf(k) \in [do : {"pick", "wait"}, svc : STRING] /\ ServiceOf(k) \in NamesOf(k.kind)
  <2>1. k.at \in DOMAIN p /\ ItemOf(k) = p[k.at]
    BY DEF ItemOf, p
  <2>2. p[k.at] \in [do : {"pick", "wait"}, svc : STRING]
    <3>. DEFINE T == [do : {"pick", "wait"}, svc : STRING]
    <3>1. p \in Seq(T)
      BY <1>1
    <3>. HIDE DEF T
    <3>2. p[k.at] \in T
      BY <2>1, <3>1, ItemOfSequence
    <3>. QED
      BY <3>2 DEF T
  <2>. QED
    BY <1>1, <2>1, <2>2 DEF ServiceOf, PlanOf
<1>3. ItemOf(k) = Item(ItemOf(k).do, ServiceOf(k))
  BY <1>2 DEF Item, ServiceOf
<1>4. ItemOf(k).do = "pick" => k.at < Len(p)
  <2>. SUFFICES ASSUME ItemOf(k).do = "pick" PROVE k.at < Len(p)
    OBVIOUS
  <2>1. PICK i \in DOMAIN p, j \in DOMAIN p : i < j /\ p[i] = Item("pick", ServiceOf(k))
    BY <1>1, <1>2 DEF PlanOf
  <2>2. p[i] = p[k.at]
    BY <1>3, <2>1 DEF ItemOf, p
  <2>3. i = k.at
    BY <1>1, <2>2 DEF PlanOf, p
  <2>. QED
    BY <1>1, <2>1, <2>3
<1>. QED
  BY <1>1, <1>2, <1>3, <1>4 DEF ServiceOf, p

-----------------------------------------------------------------------------
(* What a step makes of a command                                          *)

\* A command at the end of an item of its plan.
FollowingOf(k) ==
  IF k.at < Len(PlanFor(k.kind)) THEN [k EXCEPT !.at = k.at + 1, !.pc = PlanFor(k.kind)[k.at + 1].do]
  ELSE IF k.kind = "gate" THEN [k EXCEPT !.pc = "evaluating"] ELSE Idle

\* No service is listed in an empty list.
LEMMA EmptyList == ListOK(<< >>) /\ ToSet(<< >>) = {} /\ Names(<< >>) = {}
<1>1. ToSet(<< >>) = {}
  BY DEF ToSet
<1>. QED
  BY <1>1 DEF ListOK, OneEach, Single, Names

\* A process that runs no command is one.
LEMMA IdleIsOK == CommandOK(Idle)
<1>1. Idle \in Command
  BY DEF Command, Pc, Kind, Idle
<1>2. Idle.kind = "none" /\ Idle.pc = "idle" /\ Idle.mine = << >>
  BY DEF Idle
<1>3. PlaceOK(Idle)
  BY <1>2 DEF PlaceOK
<1>4. MineOK(Idle)
  BY <1>2, EmptyList DEF MineOK
<1>. QED
  BY <1>1, <1>3, <1>4 DEF CommandOK

\* A command at another item of its plan.
LEMMA Moved ==
  ASSUME NEW k \in Command, NEW a \in Nat, NEW b \in Pc
  PROVE  [k EXCEPT !.at = a, !.pc = b] \in Command
BY DEF Command

\* A command goes on, when its list has what the plan starts up to this item.
LEMMA FollowingIsOK ==
  ASSUME NEW k \in Command, k.kind \in {"up", "gate"}, k.at \in DOMAIN PlanFor(k.kind), ListOK(k.mine),
         Names(k.mine) = {n \in NamesOf(k.kind) : \E i \in DOMAIN PlanFor(k.kind) :
                            PlanFor(k.kind)[i] = Item("pick", n) /\ i <= k.at}
  PROVE  CommandOK(FollowingOf(k))
<1>. DEFINE p == PlanFor(k.kind)
            K == FollowingOf(k)
<1>1. Len(p) \in Nat /\ DOMAIN p = 1..Len(p) /\ k.at \in Nat
  BY PlanFacts
<1>2. CASE k.at < Len(p)
  <2>1. K = [k EXCEPT !.at = k.at + 1, !.pc = p[k.at + 1].do] /\ k.at + 1 \in DOMAIN p
    BY <1>1, <1>2 DEF FollowingOf
  <2>. HIDE DEF K, p
  <2>2. K.kind = k.kind /\ K.at = k.at + 1 /\ K.pc = p[k.at + 1].do /\ K.mine = k.mine
    BY <2>1 DEF Command
  <2>3. ItemOf(K) = p[k.at + 1] /\ K.at \in DOMAIN PlanFor(K.kind)
    BY <2>1, <2>2 DEF ItemOf, p
  <2>4. K.pc \in {"pick", "wait"} /\ ItemOf(K).do = K.pc
    BY <2>2, <2>3, ItemFacts
  <2>5. K \in Command
    <3>1. k.at + 1 \in Nat /\ p[k.at + 1].do \in Pc
      BY <1>1, <2>2, <2>4 DEF Pc
    <3>. QED
      BY <2>1, <3>1, Moved
  <2>6. PlaceOK(K)
    <3>1. K.kind \in {"up", "gate"} /\ K.at \in DOMAIN PlanFor(K.kind)
      BY <2>2, <2>3
    <3>. QED
      BY <2>4, <3>1 DEF PlaceOK
  <2>7. StartedBy(K) = Names(k.mine)
    <3>1. \A i \in DOMAIN p : i <= k.at <=> i < K.at
      BY <1>1, <2>2
    <3>2. StartedBy(K) = {n \in NamesOf(k.kind) : \E i \in DOMAIN p : p[i] = Item("pick", n) /\ i < K.at}
      BY <2>2, <2>4 DEF StartedBy, p
    <3>. QED
      BY <3>1, <3>2 DEF p
  <2>8. MineOK(K)
    BY <2>2, <2>7 DEF MineOK
  <2>. QED
    BY <2>5, <2>6, <2>8 DEF CommandOK, K
<1>3. CASE ~(k.at < Len(p)) /\ k.kind = "gate"
  <2>1. K = [k EXCEPT !.pc = "evaluating"]
    BY <1>3 DEF FollowingOf
  <2>2. /\ K.kind = k.kind /\ K.at = k.at /\ K.pc = "evaluating" /\ K.mine = k.mine
        /\ K \in Command
    BY <2>1 DEF Command, Pc
  <2>. HIDE DEF K
  <2>3. ItemOf(k).do # "pick" /\ ItemOf(k) = p[k.at]
    BY <1>3, ItemFacts DEF ItemOf
  <2>4. PlaceOK(K)
    BY <1>3, <2>2 DEF PlaceOK
  <2>5. StartedBy(K) = Names(k.mine)
    <3>1. \A i \in DOMAIN p, n \in NamesOf(k.kind) : p[i] = Item("pick", n) => i # k.at
      BY <2>3 DEF Item
    <3>2. \A i \in DOMAIN p, n \in NamesOf(k.kind) : p[i] = Item("pick", n) => (i <= k.at <=> i < k.at)
      BY <1>1, <3>1
    <3>. HIDE DEF p
    <3>3. StartedBy(K) = {n \in NamesOf(k.kind) : \E i \in DOMAIN p : p[i] = Item("pick", n) /\ i < k.at}
      BY <2>2 DEF StartedBy, p
    <3>. QED
      BY <3>2, <3>3 DEF p
  <2>6. MineOK(K)
    BY <1>3, <2>2, <2>5 DEF MineOK
  <2>. QED
    BY <2>2, <2>4, <2>6 DEF CommandOK, K
<1>4. CASE ~(k.at < Len(p)) /\ k.kind # "gate"
  BY <1>4, IdleIsOK DEF FollowingOf
<1>. QED
  BY <1>2, <1>3, <1>4

\* What the plan starts up to an item is what it starts before, and the item's own.
LEMMA StartedUpTo ==
  ASSUME NEW k, k.kind \in {"up", "gate"}, k.at \in DOMAIN PlanFor(k.kind)
  PROVE  LET upTo == {n \in NamesOf(k.kind) : \E i \in DOMAIN PlanFor(k.kind) :
                        PlanFor(k.kind)[i] = Item("pick", n) /\ i <= k.at}
             before == {n \in NamesOf(k.kind) : \E i \in DOMAIN PlanFor(k.kind) :
                        PlanFor(k.kind)[i] = Item("pick", n) /\ i < k.at}
         IN  /\ ItemOf(k).do = "wait" => upTo = before
             /\ ItemOf(k).do = "pick" => upTo = before \cup {ServiceOf(k)} /\ ServiceOf(k) \notin before
             /\ k.pc \in {"write", "rewrite"} => StartedBy(k) = upTo
             /\ k.pc \notin {"write", "rewrite"} => StartedBy(k) = before
<1>. DEFINE p == PlanFor(k.kind)
            N == NamesOf(k.kind)
            upTo == {n \in N : \E i \in DOMAIN p : p[i] = Item("pick", n) /\ i <= k.at}
            before == {n \in N : \E i \in DOMAIN p : p[i] = Item("pick", n) /\ i < k.at}
<1>1. Len(p) \in Nat /\ DOMAIN p = 1..Len(p) /\ k.at \in DOMAIN p /\ PlanOf(p, N)
  BY PlanFacts
<1>2. ServiceOf(k) \in N /\ p[k.at] = ItemOf(k) /\ ItemOf(k) = Item(ItemOf(k).do, ServiceOf(k))
  BY ItemFacts DEF ItemOf
<1>. HIDE DEF p, N
<1>3. \A i \in DOMAIN p : i <= k.at <=> (i < k.at \/ i = k.at)
  BY <1>1
<1>4. \A i \in DOMAIN p, n \in N : p[i] = Item("pick", n) =>
        (i = k.at <=> (ItemOf(k).do = "pick" /\ n = ServiceOf(k)))
  BY <1>1, <1>2 DEF Item, PlanOf
<1>5. ASSUME ItemOf(k).do = "wait" PROVE upTo = before
  BY <1>3, <1>4, <1>5
<1>6. ASSUME ItemOf(k).do = "pick" PROVE upTo = before \cup {ServiceOf(k)} /\ ServiceOf(k) \notin before
  <2>1. ServiceOf(k) \in upTo
    BY <1>1, <1>2, <1>3, <1>6
  <2>2. ServiceOf(k) \notin before
    BY <1>1, <1>4, <1>6
  <2>3. before \subseteq upTo
    BY <1>3
  <2>4. upTo \subseteq before \cup {ServiceOf(k)}
    BY <1>3, <1>4, <1>6
  <2>. QED
    BY <2>1, <2>2, <2>3, <2>4
<1>7. k.pc \in {"write", "rewrite"} => StartedBy(k) = upTo
  BY <1>3 DEF StartedBy, p, N
<1>8. k.pc \notin {"write", "rewrite"} => StartedBy(k) = before
  BY DEF StartedBy, p, N
<1>. QED
  BY <1>5, <1>6, <1>7, <1>8 DEF p, N

\* The command of c is another one, and those of the others are the same.
Moves(c) ==
  /\ cmd' \in [Cmds -> Command] /\ CommandOK(cmd'[c])
  /\ \A d \in Cmds \ {c} : cmd'[d] = cmd[d]

\* A command that is replaced by a well-formed one has moved, and nobody else.
LEMMA Becomes ==
  ASSUME cmd \in [Cmds -> Command], NEW c \in Cmds, NEW k, CommandOK(k), cmd' = [cmd EXCEPT ![c] = k]
  PROVE  Moves(c) /\ cmd'[c] = k
BY DEF Moves, CommandOK

\* What a command is at depends on its kind and its index only.
LEMMA SamePlace ==
  ASSUME NEW k, NEW l, l.kind = k.kind, l.at = k.at
  PROVE  /\ ItemOf(l) = ItemOf(k) /\ ServiceOf(l) = ServiceOf(k)
         /\ l.mine = k.mine => EntryOf(l) = EntryOf(k)
         /\ (l.pc \in {"write", "rewrite"} <=> k.pc \in {"write", "rewrite"}) => StartedBy(l) = StartedBy(k)
<1>1. ItemOf(l) = ItemOf(k) /\ ServiceOf(l) = ServiceOf(k)
  BY DEF ItemOf, ServiceOf
<1>2. l.mine = k.mine => EntryOf(l) = EntryOf(k)
  BY <1>1 DEF EntryOf
<1>3. (l.pc \in {"write", "rewrite"} <=> k.pc \in {"write", "rewrite"}) => StartedBy(l) = StartedBy(k)
  BY DEF StartedBy
<1>. QED
  BY <1>1, <1>2, <1>3

\* A command with a plan starts at its first item, with nothing in its list.
LEMMA NewPlan ==
  ASSUME NEW kind \in {"up", "gate"}, NEW ports \in SUBSET Nat
  PROVE  CommandOK([Idle EXCEPT !.kind = kind, !.at = 1, !.pc = "pick", !.taken = ports])
<1>. DEFINE K == [Idle EXCEPT !.kind = kind, !.at = 1, !.pc = "pick", !.taken = ports]
<1>1. Idle \in Command /\ Idle.mine = << >>
  BY IdleIsOK DEF CommandOK, Idle
<1>2. K \in Command /\ K.kind = kind /\ K.pc = "pick" /\ K.at = 1 /\ K.mine = << >>
  BY <1>1 DEF Command, Pc, Kind
<1>. HIDE DEF K
<1>3. 1 \in DOMAIN PlanFor(K.kind) /\ PlanFor(K.kind)[1].do = "pick" /\ DOMAIN PlanFor(K.kind) = 1..Len(PlanFor(K.kind))
  BY PlanFacts
<1>4. PlaceOK(K)
  BY <1>2, <1>3 DEF PlaceOK, ItemOf
<1>5. StartedBy(K) = {}
  <2>1. \A i \in DOMAIN PlanFor(K.kind) : ~(i < 1)
    BY <1>3
  <2>2. K.pc \notin {"write", "rewrite"}
    BY <1>2
  <2>. QED
    BY <1>2, <2>1, <2>2 DEF StartedBy
<1>6. MineOK(K)
  BY <1>2, <1>5, EmptyList DEF MineOK
<1>. QED
  BY <1>2, <1>4, <1>6 DEF CommandOK, K

\* A command moves on at its item, with the list that it has.
LEMMA SameItem ==
  ASSUME NEW k, CommandOK(k), k.kind \in {"up", "gate"}, k.pc \notin {"write", "rewrite", "stop"},
         NEW l \in Command, l.kind = k.kind, l.at = k.at, l.mine = k.mine, l.pc \notin {"write", "rewrite"}, PlaceOK(l)
  PROVE  CommandOK(l)
<1>1. StartedBy(l) = StartedBy(k)
  BY SamePlace DEF CommandOK
<1>2. MineOK(l)
  BY <1>1 DEF CommandOK, MineOK
<1>. QED
  BY <1>2 DEF CommandOK

\* One lemma per action: what the command becomes.
LEMMA UpMoves ==
  ASSUME Shape, NEW c \in Cmds, Up(c)
  PROVE  Moves(c) /\ cmd'[c] = [Idle EXCEPT !.kind = "up", !.at = 1, !.pc = "pick", !.taken = {GatewayPort}]
<1>. DEFINE K == [Idle EXCEPT !.kind = "up", !.at = 1, !.pc = "pick", !.taken = {GatewayPort}]
<1>1. CommandOK(K)
  <2>1. {GatewayPort} \in SUBSET Nat
    BY ServingAssumption
  <2>. QED
    BY <2>1, NewPlan
<1>2. cmd \in [Cmds -> Command] /\ cmd' = [cmd EXCEPT ![c] = K]
  BY DEF Shape, Up
<1>. HIDE DEF K
<1>3. Moves(c) /\ cmd'[c] = K
  BY <1>1, <1>2, Becomes
<1>. QED
  BY <1>3 DEF K

\* A gate begins at the first item of its plan, with the recorded ports taken.
LEMMA ServePairMoves ==
  ASSUME Shape, NEW c \in Cmds, ServePair(c)
  PROVE  Moves(c) /\ cmd'[c] = [Idle EXCEPT !.kind = "gate", !.at = 1, !.pc = "pick",
                                            !.taken = {s.port : s \in ToSet(stateFile)}]
<1>. DEFINE K == [Idle EXCEPT !.kind = "gate", !.at = 1, !.pc = "pick", !.taken = {s.port : s \in ToSet(stateFile)}]
<1>1. CommandOK(K)
  <2>1. {s.port : s \in ToSet(stateFile)} \in SUBSET Nat
    BY DEF Shape, Entry, Service
  <2>. QED
    BY <2>1, NewPlan
<1>2. cmd \in [Cmds -> Command] /\ cmd' = [cmd EXCEPT ![c] = K]
  BY DEF Shape, ServePair
<1>. HIDE DEF K
<1>3. Moves(c) /\ cmd'[c] = K
  BY <1>1, <1>2, Becomes
<1>. QED
  BY <1>3 DEF K

\* down begins with the list of the file, to be stopped.
LEMMA DownMoves ==
  ASSUME Shape, NEW c \in Cmds, Down(c)
  PROVE  Moves(c) /\ cmd'[c] = [Idle EXCEPT !.kind = "down", !.pc = "stop", !.mine = stateFile]
<1>. DEFINE K == [Idle EXCEPT !.kind = "down", !.pc = "stop", !.mine = stateFile]
<1>1. Idle \in Command /\ Idle.at = 0
  BY IdleIsOK DEF CommandOK, Idle
<1>2. cmd \in [Cmds -> Command] /\ cmd' = [cmd EXCEPT ![c] = K] /\ ListOK(stateFile) /\ Names(stateFile) \subseteq UpNames
  BY DEF Shape, Down
<1>3. K \in Command /\ K.kind = "down" /\ K.pc = "stop" /\ K.at = 0 /\ K.mine = stateFile
  BY <1>1, <1>2 DEF Command, Pc, Kind, ListOK
<1>. HIDE DEF K
<1>4. PlaceOK(K)
  BY <1>3 DEF PlaceOK
<1>5. MineOK(K)
  BY <1>2, <1>3 DEF MineOK, NamesOf
<1>6. CommandOK(K)
  BY <1>3, <1>4, <1>5 DEF CommandOK
<1>7. Moves(c) /\ cmd'[c] = K
  BY <1>2, <1>6, Becomes
<1>. QED
  BY <1>7 DEF K

\* promote begins at the engine of the model it promotes.
LEMMA PromoteMoves ==
  ASSUME Shape, NEW c \in Cmds, Promote(c)
  PROVE  /\ Moves(c) /\ cmd'[c].kind = "restart" /\ cmd'[c].pc = "read" /\ cmd'[c].mine = << >>
         /\ \E m \in Model, v \in 1..MaxVersion : live' = [live EXCEPT ![m] = v] /\ ServiceOf(cmd'[c]) = m
<1>1. PICK n \in DOMAIN Models, v \in 1..MaxVersion :
        /\ live' = [live EXCEPT ![Models[n]] = v]
        /\ cmd' = [cmd EXCEPT ![c] = [Idle EXCEPT !.kind = "restart", !.pc = "read",
                    !.at = CHOOSE k \in DOMAIN UpPlan : UpPlan[k] = [do |-> "wait", svc |-> Models[n]]]]
  BY DEF Promote
<1>. DEFINE m == Models[n]
            a == CHOOSE k \in DOMAIN UpPlan : UpPlan[k] = Item("wait", m)
            K == [Idle EXCEPT !.kind = "restart", !.pc = "read", !.at = a]
<1>2. m \in Model
  BY DEF Model, ToSet
<1>3. a \in DOMAIN UpPlan /\ UpPlan[a] = Item("wait", m)
  <2>1. PlanOf(UpPlan, UpNames) /\ m \in UpNames
    BY <1>2, Plans DEF UpNames
  <2>2. \E k \in DOMAIN UpPlan : UpPlan[k] = Item("wait", m)
    BY <2>1 DEF PlanOf
  <2>. HIDE DEF m
  <2>. QED
    BY <2>2
<1>4. cmd' = [cmd EXCEPT ![c] = K] /\ cmd \in [Cmds -> Command]
  BY <1>1 DEF Item, Shape
<1>. HIDE DEF m, a
<1>5. Idle \in Command /\ Idle.mine = << >>
  BY IdleIsOK DEF CommandOK, Idle
<1>6. PlanFor("restart") = UpPlan /\ a \in Nat
  <2>1. PlanFor("restart") = UpPlan
    BY DEF PlanFor
  <2>2. DOMAIN PlanFor("restart") = 1..Len(PlanFor("restart")) /\ Len(PlanFor("restart")) \in Nat
    BY PlanFacts
  <2>. QED
    BY <1>3, <2>1, <2>2
<1>7. K \in Command /\ K.kind = "restart" /\ K.pc = "read" /\ K.at = a /\ K.mine = << >>
  BY <1>5, <1>6 DEF Command, Pc, Kind
<1>. HIDE DEF K
<1>8. ItemOf(K) = Item("wait", m) /\ ServiceOf(K) = m /\ K.at \in DOMAIN PlanFor(K.kind)
  BY <1>3, <1>6, <1>7 DEF ItemOf, ServiceOf, Item
<1>9. PlaceOK(K)
  BY <1>2, <1>7, <1>8 DEF PlaceOK, Item
<1>10. MineOK(K)
  BY <1>7, EmptyList DEF MineOK
<1>11. Moves(c) /\ cmd'[c] = K
  BY <1>4, <1>7, <1>9, <1>10, Becomes DEF CommandOK
<1>. QED
  BY <1>1, <1>2, <1>7, <1>8, <1>11 DEF m

\* A command that ends, or is killed.
LEMMA Ends ==
  ASSUME Shape, NEW c \in Cmds, cmd' = [cmd EXCEPT ![c] = Idle]
  PROVE  Moves(c) /\ cmd'[c] = Idle
BY Becomes, IdleIsOK DEF Shape

\* Pick gives the next engine a port and the live version.
LEMMA PickMoves ==
  ASSUME Shape, NEW c \in Cmds, Pick(c)
  PROVE  /\ Moves(c)
         /\ \E p \in PortFor(c) : cmd'[c] = [cmd[c] EXCEPT !.pc = "start", !.port = p, !.taken = @ \cup {p},
              !.adapter = IF ServiceOf(cmd[c]) \in Model THEN live[ServiceOf(cmd[c])] ELSE 0]
<1>. DEFINE k == cmd[c]
<1>1. PICK p \in PortFor(c) :
        cmd' = [cmd EXCEPT ![c] = [cmd[c] EXCEPT !.pc = "start", !.port = p, !.taken = @ \cup {p},
                 !.adapter = IF Current(c) \in Model THEN live[Current(c)] ELSE 0]]
  BY DEF Pick
<1>. DEFINE a == IF ServiceOf(k) \in Model THEN live[ServiceOf(k)] ELSE 0
            K == [k EXCEPT !.pc = "start", !.port = p, !.taken = @ \cup {p}, !.adapter = a]
<1>2. CommandOK(k) /\ k \in Command /\ PlaceOK(k) /\ k.pc = "pick" /\ cmd \in [Cmds -> Command]
  BY DEF Shape, CommandOK, Pick
<1>3. cmd' = [cmd EXCEPT ![c] = K]
  <2>1. Current(c) = ServiceOf(k)
    BY Same
  <2>. QED
    BY <1>1, <2>1, Zenon
<1>4. p \in Nat
  <2>1. CASE Current(c) \notin DOMAIN FixedPort
    BY <2>1, ServingAssumption DEF PortFor, PickPort
  <2>2. CASE Current(c) \in DOMAIN FixedPort
    BY <2>2, ServingAssumption DEF PortFor
  <2>. QED
    BY <2>1, <2>2
<1>5. a \in Nat
  <2>1. live \in [Model -> 0..MaxVersion] /\ MaxVersion \in Nat
    BY ServingAssumption DEF Shape, CountsOK
  <2>2. CASE ServiceOf(k) \in Model
    <3>1. live[ServiceOf(k)] \in 0..MaxVersion
      BY <2>1, <2>2
    <3>. QED
      BY <2>1, <2>2, <3>1
  <2>. QED
    BY <2>2
<1>. HIDE DEF a
<1>6. K \in Command /\ K.kind = k.kind /\ K.at = k.at /\ K.mine = k.mine /\ K.pc = "start"
  BY <1>2, <1>4, <1>5 DEF Command, Pc
<1>7. k.kind \in {"up", "gate"} /\ ItemOf(k).do = "pick" /\ k.at \in DOMAIN PlanFor(k.kind)
  <2>1. k.kind \in Kind
    BY <1>2 DEF Command
  <2>. QED
    BY <1>2, <2>1 DEF PlaceOK, Idle, Kind
<1>. HIDE DEF K, k
<1>8. ItemOf(K) = ItemOf(k)
  BY <1>6, SamePlace
<1>9. PlaceOK(K)
  BY <1>6, <1>7, <1>8 DEF PlaceOK
<1>10. CommandOK(K)
  BY <1>2, <1>6, <1>7, <1>9, SameItem
<1>11. Moves(c) /\ cmd'[c] = K
  BY <1>2, <1>3, <1>10, Becomes
<1>. QED
  BY <1>11 DEF K, k, a

\* Which command is at a step of up, of a gate or of a restart.
LEMMA Steps ==
  ASSUME NEW k, k \in Command, PlaceOK(k)
  PROVE  /\ k.pc = "pick" => k.kind \in {"up", "gate"} /\ ItemOf(k).do = "pick"
         /\ k.pc = "start" /\ k.kind # "restart" => k.kind \in {"up", "gate"} /\ ItemOf(k).do = "pick"
         /\ k.pc \in {"write", "rewrite"} => k.kind = "restart" \/ (k.kind = "up" /\ ItemOf(k).do = "pick")
         /\ k.pc = "wait" => k.kind \in {"restart", "up", "gate"} /\ ItemOf(k).do = "wait"
         /\ k.pc \in {"closeRuns", "openRun"} => k.kind = "up" /\ ItemOf(k).do = "wait" /\ ServiceOf(k) \in Model
         /\ k.pc = "evaluating" => k.kind = "gate"
         /\ k.pc = "stop" => k.kind \in {"up", "gate", "down"}
         /\ k.pc \in {"read", "launch", "swap"} => k.kind = "restart"
         /\ k.kind \in {"up", "gate", "restart"} => k.at \in DOMAIN PlanFor(k.kind) /\ ServiceOf(k) \in NamesOf(k.kind)
         /\ k.kind = "restart" => ServiceOf(k) \in Model
<1>1. k.kind \in Kind
  BY DEF Command
<1>2. k.kind \in {"up", "gate", "restart"} => k.at \in DOMAIN PlanFor(k.kind) /\ ServiceOf(k) \in NamesOf(k.kind)
  BY ItemFacts DEF PlaceOK
<1>. QED
  BY <1>1, <1>2 DEF PlaceOK, Idle, Kind

\* The service that a command starts is an entry for its list.
NewService(c) == [svc |-> ServiceOf(cmd[c]), port |-> cmd[c].port, pid |-> Len(procs) + 1]

\* Start appends the new service to the list of the command.
LEMMA StartMoves ==
  ASSUME Shape, NEW c \in Cmds, Start(c)
  PROVE  /\ Moves(c) /\ NewService(c) \in Service /\ NewService(c).svc \notin Names(cmd[c].mine)
         /\ cmd[c].kind = "up" => cmd'[c] = [cmd[c] EXCEPT !.mine = Append(@, NewService(c)), !.pc = "write"]
         /\ cmd[c].kind # "up" => cmd[c].kind = "gate"
              /\ cmd'[c] = FollowingOf([cmd[c] EXCEPT !.mine = Append(@, NewService(c))])
<1>. DEFINE k == cmd[c]
            s == NewService(c)
            K == [k EXCEPT !.mine = Append(@, s)]
<1>1. CommandOK(k) /\ k \in Command /\ PlaceOK(k) /\ MineOK(k) /\ k.pc = "start" /\ cmd \in [Cmds -> Command]
  BY DEF Shape, CommandOK, Start
<1>2. k.kind \in {"up", "gate"} /\ ItemOf(k).do = "pick" /\ k.at \in DOMAIN PlanFor(k.kind) /\ k.at < Len(PlanFor(k.kind))
      /\ ServiceOf(k) \in NamesOf(k.kind) /\ ServiceOf(k) \in STRING
  BY <1>1, Steps, ItemFacts DEF Start
<1>3. s \in Service
  BY <1>1, <1>2 DEF NewService, Service, Shape, Command
<1>4. s.svc = ServiceOf(k) /\ Names(k.mine) = StartedBy(k) /\ ServiceOf(k) \notin StartedBy(k)
  BY <1>1, <1>2, StartedUpTo DEF NewService, MineOK
<1>5. ListOK(k.mine)
  BY <1>1 DEF MineOK
<1>6. ListOK(Append(k.mine, s)) /\ Names(Append(k.mine, s)) = StartedBy(k) \cup {ServiceOf(k)}
  BY <1>3, <1>4, <1>5, Appended
<1>7. cmd' = [cmd EXCEPT ![c] = IF k.kind = "up" THEN [K EXCEPT !.pc = "write"]
                                ELSE [Following(c, k.at) EXCEPT !.mine = Append(k.mine, s)]]
  <2>. USE DEF Start
  <2>1. cmd' = [cmd EXCEPT ![c] =
           LET new == [k EXCEPT !.mine = Append(@, [svc |-> Current(c), port |-> k.port, pid |-> Len(procs) + 1])]
           IN IF new.kind = "up" THEN [new EXCEPT !.pc = "write"] ELSE [Following(c, new.at) EXCEPT !.mine = new.mine]]
    OBVIOUS
  <2>. QED
    BY <1>1, <2>1, Same DEF NewService, Command
<1>. HIDE DEF s
<1>8. K \in Command /\ K.kind = k.kind /\ K.at = k.at /\ K.pc = "start" /\ K.mine = Append(k.mine, s)
  BY <1>1, <1>6 DEF Command, ListOK
<1>9. ItemOf(K) = ItemOf(k) /\ ServiceOf(K) = ServiceOf(k)
  BY <1>8, SamePlace
<1>10. CASE k.kind = "up"
  <2>. DEFINE L == [K EXCEPT !.pc = "write"]
  <2>1. L \in Command /\ L.kind = k.kind /\ L.at = k.at /\ L.pc = "write" /\ L.mine = Append(k.mine, s)
    BY <1>1, <1>8 DEF Command, Pc
  <2>2. L = [k EXCEPT !.mine = Append(@, s), !.pc = "write"] /\ cmd' = [cmd EXCEPT ![c] = L]
    BY <1>1, <1>7, <1>10 DEF Command
  <2>. HIDE DEF L, K, k
  <2>3. ItemOf(L) = ItemOf(k) /\ ServiceOf(L) = ServiceOf(k)
    BY <2>1, SamePlace
  <2>4. PlaceOK(L)
    BY <1>2, <1>10, <2>1, <2>3 DEF PlaceOK
  <2>5. StartedBy(L) = StartedBy(k) \cup {ServiceOf(k)}
    BY <1>1, <1>2, <2>1, StartedUpTo DEF StartedBy
  <2>6. MineOK(L)
    BY <1>2, <1>4, <1>6, <1>10, <2>1, <2>5, <1>1 DEF MineOK
  <2>7. Moves(c) /\ cmd'[c] = L
    BY <1>1, <2>1, <2>2, <2>4, <2>6, Becomes DEF CommandOK
  <2>. QED
    BY <1>3, <1>4, <1>10, <2>2, <2>7 DEF k, s
<1>11. CASE k.kind = "gate"
  <2>. DEFINE L == FollowingOf(K)
  <2>1. CommandOK(L)
    <3>. HIDE DEF K, k
    <3>1. Names(K.mine) = {n \in NamesOf(K.kind) : \E i \in DOMAIN PlanFor(K.kind) :
                            PlanFor(K.kind)[i] = Item("pick", n) /\ i <= K.at}
      BY <1>1, <1>2, <1>6, <1>8, StartedUpTo
    <3>. QED
      BY <1>2, <1>6, <1>8, <1>11, <3>1, FollowingIsOK
  <2>2. cmd' = [cmd EXCEPT ![c] = L]
    <3>1. L = [K EXCEPT !.at = K.at + 1, !.pc = PlanFor(K.kind)[K.at + 1].do]
      BY <1>2, <1>8 DEF FollowingOf
    <3>2. Following(c, k.at) = [k EXCEPT !.at = k.at + 1, !.pc = PlanFor(k.kind)[k.at + 1].do]
      BY <1>2, Same DEF Following
    <3>3. L = [Following(c, k.at) EXCEPT !.mine = Append(k.mine, s)]
      BY <1>1, <1>8, <3>1, <3>2 DEF Command
    <3>. QED
      BY <1>7, <1>11, <3>3
  <2>. HIDE DEF L
  <2>3. Moves(c) /\ cmd'[c] = L
    BY <1>1, <2>1, <2>2, Becomes
  <2>. QED
    BY <1>3, <1>4, <1>11, <2>3 DEF k, s, L
<1>. QED
  BY <1>2, <1>10, <1>11

\* A command at a step of its own, with the list that it has.
LEMMA OnwardMoves ==
  ASSUME Shape, NEW c \in Cmds, cmd[c].kind \in {"up", "gate"}, cmd[c].pc \in {"rewrite", "wait", "openRun"},
         cmd' = [cmd EXCEPT ![c] = Following(c, cmd[c].at)]
  PROVE  Moves(c) /\ cmd'[c] = FollowingOf(cmd[c])
<1>. DEFINE k == cmd[c]
<1>1. CommandOK(k) /\ k \in Command /\ PlaceOK(k) /\ MineOK(k) /\ cmd \in [Cmds -> Command]
  BY DEF Shape, CommandOK
<1>2. Following(c, k.at) = FollowingOf(k)
  BY Same DEF Following, FollowingOf
<1>3. k.at \in DOMAIN PlanFor(k.kind) /\ ItemOf(k).do = IF k.pc = "rewrite" THEN "pick" ELSE "wait"
  BY <1>1, Steps
<1>. DEFINE upTo == {n \in NamesOf(k.kind) : \E i \in DOMAIN PlanFor(k.kind) :
                        PlanFor(k.kind)[i] = Item("pick", n) /\ i <= k.at}
<1>4. Names(k.mine) = upTo /\ ListOK(k.mine)
  <2>1. Names(k.mine) = StartedBy(k) /\ ListOK(k.mine)
    BY <1>1 DEF MineOK
  <2>2. StartedBy(k) = upTo
    BY <1>3, StartedUpTo
  <2>. QED
    BY <2>1, <2>2
<1>5. CommandOK(FollowingOf(k))
  BY <1>1, <1>3, <1>4, FollowingIsOK
<1>. QED
  BY <1>1, <1>2, <1>5, Becomes

\* A step that changes the place of a command and nothing else of it.
LEMMA StepMoves ==
  ASSUME Shape, NEW c \in Cmds, NEW pc \in Pc, Step(c, pc), cmd[c].pc \notin {"idle", "write", "rewrite"}, pc \notin {"write", "rewrite"},
         PlaceOK([cmd[c] EXCEPT !.pc = pc]),
         cmd[c].kind \in {"up", "gate"} => pc = "stop" \/ cmd[c].pc # "stop",
         cmd[c].kind = "restart" => (cmd[c].pc = "read" <=> pc = "read"),
         cmd[c].kind = "restart" /\ pc \in {"swap", "start"} => cmd[c].port = EntryOf(cmd[c]).port
  PROVE  Moves(c) /\ cmd'[c] = [cmd[c] EXCEPT !.pc = pc]
<1>. DEFINE k == cmd[c]
            K == [k EXCEPT !.pc = pc]
<1>1. CommandOK(k) /\ k \in Command /\ PlaceOK(k) /\ MineOK(k) /\ cmd \in [Cmds -> Command]
  BY DEF Shape, CommandOK
<1>2. K \in Command /\ K.kind = k.kind /\ K.at = k.at /\ K.pc = pc /\ K.mine = k.mine /\ K.port = k.port
  BY <1>1 DEF Command
<1>3. cmd' = [cmd EXCEPT ![c] = K]
  BY DEF Step
<1>4. PlaceOK(K)
  OBVIOUS
<1>. HIDE DEF K, k
<1>5. StartedBy(K) = StartedBy(k) /\ ServiceOf(K) = ServiceOf(k) /\ EntryOf(K) = EntryOf(k)
  BY <1>2, SamePlace DEF k
<1>6. MineOK(K)
  BY <1>1, <1>2, <1>5 DEF MineOK, k
<1>7. Moves(c) /\ cmd'[c] = K
  BY <1>1, <1>2, <1>3, <1>4, <1>6, Becomes DEF CommandOK
<1>. QED
  BY <1>7 DEF K, k

\* The file is opened, and the command goes on with writing it.
LEMMA TruncateMoves ==
  ASSUME Shape, NEW c \in Cmds, Truncate(c)
  PROVE  /\ Moves(c) /\ cmd'[c] = [cmd[c] EXCEPT !.pc = "rewrite"]
         /\ cmd[c].pc = "write" /\ cmd[c].kind \in {"up", "restart"}
<1>. DEFINE k == cmd[c]
            K == [k EXCEPT !.pc = "rewrite"]
<1>1. CommandOK(k) /\ k \in Command /\ PlaceOK(k) /\ MineOK(k) /\ cmd \in [Cmds -> Command]
  BY DEF Shape, CommandOK
<1>2. k.pc = "write" /\ k.kind \in {"up", "restart"}
  BY <1>1, Steps DEF Truncate
<1>3. K \in Command /\ K.kind = k.kind /\ K.at = k.at /\ K.pc = "rewrite" /\ K.mine = k.mine
  BY <1>1 DEF Command, Pc
<1>4. cmd' = [cmd EXCEPT ![c] = K]
  BY DEF Truncate, Step
<1>. HIDE DEF K, k
<1>5. ItemOf(K) = ItemOf(k) /\ ServiceOf(K) = ServiceOf(k) /\ StartedBy(K) = StartedBy(k)
  BY <1>2, <1>3, SamePlace
<1>6. PlaceOK(K)
  BY <1>1, <1>2, <1>3, <1>5 DEF PlaceOK
<1>7. MineOK(K)
  BY <1>1, <1>2, <1>3, <1>5 DEF MineOK
<1>8. Moves(c) /\ cmd'[c] = K
  BY <1>1, <1>3, <1>4, <1>6, <1>7, Becomes DEF CommandOK
<1>. QED
  BY <1>2, <1>8 DEF K, k

\* write, of up or of a restart.
LEMMA WriteMoves ==
  ASSUME Shape, NEW c \in Cmds, Write(c)
  PROVE  /\ Moves(c) /\ cmd[c].kind \in {"up", "restart"}
         /\ cmd'[c] = IF cmd[c].kind = "up" THEN FollowingOf(cmd[c]) ELSE [cmd[c] EXCEPT !.pc = "wait"]
<1>1. CommandOK(cmd[c]) /\ cmd[c] \in Command /\ PlaceOK(cmd[c]) /\ MineOK(cmd[c]) /\ cmd \in [Cmds -> Command]
  BY DEF Shape, CommandOK
<1>2. cmd[c].pc = "rewrite" /\ cmd[c].kind \in {"up", "restart"}
  BY <1>1, Steps DEF Write
<1>3. CASE cmd[c].kind = "up"
  <2>1. cmd' = [cmd EXCEPT ![c] = Following(c, cmd[c].at)]
    BY <1>3 DEF Write
  <2>. QED
    BY <1>2, <1>3, <2>1, OnwardMoves
<1>4. CASE cmd[c].kind = "restart"
  <2>. DEFINE k == cmd[c]
              K == [k EXCEPT !.pc = "wait"]
  <2>1. K \in Command /\ K.kind = k.kind /\ K.at = k.at /\ K.pc = "wait" /\ K.mine = k.mine
    BY <1>1 DEF Command, Pc
  <2>2. cmd' = [cmd EXCEPT ![c] = K]
    BY <1>4 DEF Write
  <2>. HIDE DEF K, k
  <2>3. ItemOf(K) = ItemOf(k) /\ ServiceOf(K) = ServiceOf(k)
    BY <2>1, SamePlace
  <2>4. PlaceOK(K) /\ MineOK(K)
    BY <1>1, <1>2, <1>4, <2>1, <2>3 DEF PlaceOK, MineOK, k
  <2>5. Moves(c) /\ cmd'[c] = K
    BY <1>1, <2>1, <2>2, <2>4, Becomes DEF CommandOK
  <2>. QED
    BY <1>4, <2>5 DEF K, k
<1>. QED
  BY <1>2, <1>3, <1>4

\* A service that is ready sends its command on.
LEMMA WaitReadyMoves ==
  ASSUME Shape, NEW c \in Cmds, WaitReady(c)
  PROVE  /\ Moves(c) /\ cmd[c].kind \in {"up", "gate", "restart"}
         /\ cmd[c].kind = "restart" => cmd'[c] = Idle
         /\ cmd[c].kind = "up" /\ ServiceOf(cmd[c]) \in Model => cmd'[c] = [cmd[c] EXCEPT !.pc = "closeRuns"]
         /\ cmd[c].kind = "gate" \/ (cmd[c].kind = "up" /\ ServiceOf(cmd[c]) \notin Model) => cmd'[c] = FollowingOf(cmd[c])
<1>. DEFINE k == cmd[c]
<1>1. CommandOK(k) /\ k \in Command /\ PlaceOK(k) /\ MineOK(k) /\ cmd \in [Cmds -> Command]
  BY DEF Shape, CommandOK
<1>2. k.pc = "wait" /\ k.kind \in {"up", "gate", "restart"} /\ Current(c) = ServiceOf(k)
  BY <1>1, Steps, Same DEF WaitReady
<1>3. CASE k.kind = "restart"
  <2>1. cmd' = [cmd EXCEPT ![c] = Idle]
    BY <1>3 DEF WaitReady
  <2>. QED
    BY <1>3, <2>1, Ends
<1>4. CASE k.kind = "up" /\ ServiceOf(k) \in Model
  <2>1. Step(c, "closeRuns")
    BY <1>1, <1>2, <1>4 DEF WaitReady, Step
  <2>. DEFINE K == [k EXCEPT !.pc = "closeRuns"]
  <2>2. K.kind = k.kind /\ K.at = k.at /\ K.pc = "closeRuns" /\ K.mine = k.mine
    BY <1>1 DEF Command
  <2>. HIDE DEF K, k
  <2>3. ItemOf(K) = ItemOf(k) /\ ServiceOf(K) = ServiceOf(k)
    BY <2>2, SamePlace
  <2>4. PlaceOK(K)
    BY <1>1, <1>2, <1>4, <2>2, <2>3 DEF PlaceOK
  <2>5. "closeRuns" \in Pc
    BY DEF Pc
  <2>. QED
    BY <1>2, <1>4, <2>1, <2>4, <2>5, StepMoves DEF K, k
<1>5. CASE k.kind = "gate" \/ (k.kind = "up" /\ ServiceOf(k) \notin Model)
  <2>1. cmd' = [cmd EXCEPT ![c] = Following(c, k.at)]
    BY <1>2, <1>5 DEF WaitReady
  <2>. QED
    BY <1>2, <1>5, <2>1, OnwardMoves
<1>. QED
  BY <1>2, <1>3, <1>4, <1>5

\* CloseRuns changes the step of its command only.
LEMMA CloseRunsMoves ==
  ASSUME Shape, NEW c \in Cmds, CloseRuns(c)
  PROVE  Moves(c) /\ cmd'[c] = [cmd[c] EXCEPT !.pc = "openRun"] /\ cmd[c].kind = "up" /\ ServiceOf(cmd[c]) \in Model
<1>. DEFINE k == cmd[c]
            K == [k EXCEPT !.pc = "openRun"]
<1>1. CommandOK(k) /\ k \in Command /\ PlaceOK(k)
  BY DEF Shape, CommandOK
<1>2. k.pc = "closeRuns" /\ k.kind = "up" /\ ServiceOf(k) \in Model /\ Step(c, "openRun")
  BY <1>1, Steps DEF CloseRuns
<1>3. K.kind = k.kind /\ K.at = k.at /\ K.pc = "openRun" /\ K.mine = k.mine
  BY <1>1 DEF Command
<1>. HIDE DEF K, k
<1>4. ItemOf(K) = ItemOf(k) /\ ServiceOf(K) = ServiceOf(k)
  BY <1>3, SamePlace
<1>5. PlaceOK(K)
  BY <1>1, <1>2, <1>3, <1>4 DEF PlaceOK
<1>6. "openRun" \in Pc
  BY DEF Pc
<1>. QED
  BY <1>2, <1>5, <1>6, StepMoves DEF K, k

\* OpenRun sends its command on.
LEMMA OpenRunMoves ==
  ASSUME Shape, NEW c \in Cmds, OpenRun(c)
  PROVE  Moves(c) /\ cmd'[c] = FollowingOf(cmd[c]) /\ cmd[c].kind = "up" /\ ServiceOf(cmd[c]) \in Model
<1>1. CommandOK(cmd[c]) /\ cmd[c] \in Command /\ PlaceOK(cmd[c])
  BY DEF Shape, CommandOK
<1>2. cmd[c].pc = "openRun" /\ cmd[c].kind = "up" /\ ServiceOf(cmd[c]) \in Model
  BY <1>1, Steps DEF OpenRun
<1>3. cmd' = [cmd EXCEPT ![c] = Following(c, cmd[c].at)]
  BY DEF OpenRun
<1>. QED
  BY <1>2, <1>3, OnwardMoves

\* A failure, or the end of an evaluation.
LEMMA StopMoves ==
  ASSUME Shape, NEW c \in Cmds, cmd[c].kind \in {"up", "gate"}, cmd[c].pc # "stop", Step(c, "stop")
  PROVE  Moves(c) /\ cmd'[c] = [cmd[c] EXCEPT !.pc = "stop"]
<1>. DEFINE k == cmd[c]
            K == [k EXCEPT !.pc = "stop"]
<1>1. CommandOK(k) /\ k \in Command /\ PlaceOK(k) /\ MineOK(k) /\ cmd \in [Cmds -> Command]
  BY DEF Shape, CommandOK
<1>2. K \in Command /\ K.kind = k.kind /\ K.at = k.at /\ K.pc = "stop" /\ K.mine = k.mine
  BY <1>1 DEF Command, Pc
<1>3. cmd' = [cmd EXCEPT ![c] = K]
  BY DEF Step
<1>4. k.kind \in {"up", "gate"}
  OBVIOUS
<1>. HIDE DEF K, k
<1>5. PlaceOK(K)
  BY <1>1, <1>2, <1>4 DEF PlaceOK
<1>6. MineOK(K)
  BY <1>1, <1>2, <1>4 DEF MineOK
<1>7. Moves(c) /\ cmd'[c] = K
  BY <1>1, <1>2, <1>3, <1>5, <1>6, Becomes DEF CommandOK
<1>. QED
  BY <1>7 DEF K, k

\* StopLast takes the last service from the list.
LEMMA StopLastMoves ==
  ASSUME Shape, NEW c \in Cmds, StopLast(c)
  PROVE  /\ Moves(c) /\ cmd'[c] = [cmd[c] EXCEPT !.mine = Front(@)] /\ cmd[c].kind \in {"up", "gate", "down"}
         /\ Last(cmd[c].mine) \in ToSet(cmd[c].mine)
<1>. DEFINE k == cmd[c]
            K == [k EXCEPT !.mine = Front(@)]
<1>1. CommandOK(k) /\ k \in Command /\ PlaceOK(k) /\ MineOK(k) /\ cmd \in [Cmds -> Command]
  BY DEF Shape, CommandOK
<1>2. k.pc = "stop" /\ k.kind \in {"up", "gate", "down"} /\ k.mine # << >> /\ ListOK(k.mine)
      /\ Names(k.mine) \subseteq NamesOf(k.kind)
  BY <1>1, Steps DEF StopLast, MineOK
<1>3. /\ ListOK(Front(k.mine)) /\ Last(k.mine) \in ToSet(k.mine)
      /\ Names(Front(k.mine)) = Names(k.mine) \ {Last(k.mine).svc}
  BY <1>2, Shortened
<1>4. K \in Command /\ K.kind = k.kind /\ K.at = k.at /\ K.pc = "stop" /\ K.mine = Front(k.mine)
  BY <1>1, <1>2, <1>3 DEF Command, ListOK
<1>5. cmd' = [cmd EXCEPT ![c] = K]
  BY <1>1 DEF StopLast, Command
<1>. HIDE DEF K, k
<1>6. PlaceOK(K)
  BY <1>1, <1>2, <1>4 DEF PlaceOK
<1>7. MineOK(K)
  BY <1>2, <1>3, <1>4 DEF MineOK
<1>8. Moves(c) /\ cmd'[c] = K
  BY <1>1, <1>4, <1>5, <1>6, <1>7, Becomes DEF CommandOK
<1>. QED
  BY <1>2, <1>3, <1>8 DEF K, k

\* ReadState takes the list of the file, or ends the command.
LEMMA ReadStateMoves ==
  ASSUME Shape, NEW c \in Cmds, ReadState(c)
  PROVE  /\ Moves(c) /\ cmd[c].kind = "restart" /\ ServiceOf(cmd[c]) \in Model
         /\ \/ cmd'[c] = Idle /\ \A s \in ToSet(stateFile) : s.svc = ServiceOf(cmd[c]) => ~Alive(s.pid)
            \/ /\ cmd'[c] = [cmd[c] EXCEPT !.pc = "launch", !.mine = stateFile]
               /\ \E s \in ToSet(stateFile) : s.svc = ServiceOf(cmd[c]) /\ Alive(s.pid)
<1>. DEFINE k == cmd[c]
            K == [k EXCEPT !.pc = "launch", !.mine = stateFile]
<1>1. CommandOK(k) /\ k \in Command /\ PlaceOK(k) /\ MineOK(k) /\ cmd \in [Cmds -> Command]
      /\ ListOK(stateFile) /\ Names(stateFile) \subseteq UpNames
  BY DEF Shape, CommandOK
<1>2. k.pc = "read" /\ k.kind = "restart" /\ Current(c) = ServiceOf(k) /\ ServiceOf(k) \in Model
  BY <1>1, Steps, Same DEF ReadState
<1>3. CASE \E s \in ToSet(stateFile) : s.svc = ServiceOf(k) /\ Alive(s.pid)
  <2>1. K \in Command /\ K.kind = k.kind /\ K.at = k.at /\ K.pc = "launch" /\ K.mine = stateFile
    BY <1>1 DEF Command, Pc, ListOK
  <2>2. cmd' = [cmd EXCEPT ![c] = K]
    BY <1>2, <1>3 DEF ReadState
  <2>3. ServiceOf(k) \in Names(stateFile)
    BY <1>3 DEF Names
  <2>. HIDE DEF K, k
  <2>4. ItemOf(K) = ItemOf(k) /\ ServiceOf(K) = ServiceOf(k)
    BY <2>1, SamePlace
  <2>5. PlaceOK(K)
    BY <1>1, <1>2, <2>1, <2>4 DEF PlaceOK
  <2>6. MineOK(K)
    BY <1>1, <1>2, <2>1, <2>3, <2>4 DEF MineOK, NamesOf
  <2>7. Moves(c) /\ cmd'[c] = K
    BY <1>1, <2>1, <2>2, <2>5, <2>6, Becomes DEF CommandOK
  <2>. QED
    BY <1>2, <1>3, <2>7 DEF K, k
<1>4. CASE ~\E s \in ToSet(stateFile) : s.svc = ServiceOf(k) /\ Alive(s.pid)
  <2>1. cmd' = [cmd EXCEPT ![c] = Idle]
    BY <1>2, <1>4 DEF ReadState
  <2>. QED
    BY <1>2, <1>4, <2>1, Ends
<1>. QED
  BY <1>3, <1>4

\* Launch gives the new engine the port of the old one and the live version.
LEMMA LaunchMoves ==
  ASSUME Shape, NEW c \in Cmds, Launch(c)
  PROVE  /\ Moves(c) /\ cmd[c].kind = "restart" /\ ServiceOf(cmd[c]) \in Model
         /\ cmd'[c] = [cmd[c] EXCEPT !.pc = "swap", !.port = EntryOf(cmd[c]).port, !.adapter = live[ServiceOf(cmd[c])]]
<1>. DEFINE k == cmd[c]
            K == [k EXCEPT !.pc = "swap", !.port = EntryOf(k).port, !.adapter = live[ServiceOf(k)]]
<1>1. CommandOK(k) /\ k \in Command /\ PlaceOK(k) /\ MineOK(k) /\ cmd \in [Cmds -> Command]
  BY DEF Shape, CommandOK
<1>2. k.pc = "launch" /\ k.kind = "restart" /\ ServiceOf(k) \in Model /\ ServiceOf(k) \in Names(k.mine)
      /\ Current(c) = ServiceOf(k) /\ Mine(c) = EntryOf(k)
  BY <1>1, Steps, Same DEF Launch, MineOK
<1>3. EntryOf(k).port \in Nat
  <2>1. EntryOf(k) \in ToSet(k.mine)
    BY <1>1, <1>2, TheService DEF EntryOf, MineOK, ListOK
  <2>. QED
    BY <2>1 DEF Shape, Entry, Service
<1>4. live[ServiceOf(k)] \in Nat
  <2>1. live[ServiceOf(k)] \in 0..MaxVersion /\ MaxVersion \in Nat
    BY <1>2, ServingAssumption DEF Shape, CountsOK
  <2>. QED
    BY <2>1
<1>. DEFINE p == EntryOf(k).port
            a == live[ServiceOf(k)]
<1>. HIDE DEF p, a
<1>5. K = [k EXCEPT !.pc = "swap", !.port = p, !.adapter = a]
  BY DEF p, a
<1>6. K \in Command /\ K.kind = k.kind /\ K.at = k.at /\ K.pc = "swap" /\ K.mine = k.mine /\ K.port = p
  BY <1>1, <1>3, <1>4, <1>5 DEF Command, Pc, p, a
<1>7. cmd' = [cmd EXCEPT ![c] = K]
  BY <1>2 DEF Launch
<1>. HIDE DEF K, k
<1>8. ItemOf(K) = ItemOf(k) /\ ServiceOf(K) = ServiceOf(k) /\ EntryOf(K) = EntryOf(k)
  BY <1>6, SamePlace
<1>9. PlaceOK(K)
  BY <1>1, <1>2, <1>6, <1>8 DEF PlaceOK
<1>10. MineOK(K)
  BY <1>1, <1>2, <1>6, <1>8 DEF MineOK, p
<1>11. Moves(c) /\ cmd'[c] = K
  BY <1>1, <1>6, <1>7, <1>9, <1>10, Becomes DEF CommandOK
<1>. QED
  BY <1>2, <1>11 DEF K, k

\* StopOld changes the step of its command only.
LEMMA StopOldMoves ==
  ASSUME Shape, NEW c \in Cmds, StopOld(c)
  PROVE  /\ Moves(c) /\ cmd'[c] = [cmd[c] EXCEPT !.pc = "start"] /\ cmd[c].kind = "restart"
         /\ EntryOf(cmd[c]) \in ToSet(cmd[c].mine) /\ EntryOf(cmd[c]).svc = ServiceOf(cmd[c])
         /\ procs' = Stopped({EntryOf(cmd[c]).pid})
<1>. DEFINE k == cmd[c]
            K == [k EXCEPT !.pc = "start"]
<1>1. CommandOK(k) /\ k \in Command /\ PlaceOK(k) /\ MineOK(k)
  BY DEF Shape, CommandOK
<1>2. k.pc = "swap" /\ k.kind = "restart" /\ ServiceOf(k) \in Names(k.mine) /\ Mine(c) = EntryOf(k)
      /\ k.port = EntryOf(k).port /\ Step(c, "start") /\ procs' = Stopped({EntryOf(k).pid})
  BY <1>1, Steps, Same DEF StopOld, MineOK
<1>3. EntryOf(k) \in ToSet(k.mine) /\ EntryOf(k).svc = ServiceOf(k)
  BY <1>1, <1>2, TheService DEF EntryOf, MineOK, ListOK
<1>4. K.kind = k.kind /\ K.at = k.at /\ K.pc = "start" /\ K.mine = k.mine
  BY <1>1 DEF Command
<1>. HIDE DEF K, k
<1>5. ItemOf(K) = ItemOf(k) /\ ServiceOf(K) = ServiceOf(k)
  BY <1>4, SamePlace
<1>6. PlaceOK(K)
  BY <1>1, <1>2, <1>4, <1>5 DEF PlaceOK
<1>7. "start" \in Pc
  BY DEF Pc
<1>. QED
  BY <1>2, <1>3, <1>6, <1>7, StepMoves DEF K, k

\* StartNew replaces the pid of one entry of the list.
LEMMA StartNewMoves ==
  ASSUME Shape, NEW c \in Cmds, StartNew(c)
  PROVE  LET e   == EntryOf(cmd[c])
             new == [e EXCEPT !.pid = Len(procs) + 1]
             mine == [i \in DOMAIN cmd[c].mine |-> IF cmd[c].mine[i] = e THEN new ELSE cmd[c].mine[i]]
         IN  /\ Moves(c) /\ cmd'[c] = [cmd[c] EXCEPT !.pc = "write", !.mine = mine]
             /\ cmd[c].kind = "restart" /\ ServiceOf(cmd[c]) \in Model
             /\ e \in ToSet(cmd[c].mine) /\ e.svc = ServiceOf(cmd[c]) /\ e.port = cmd[c].port
             /\ new = NewService(c) /\ new \in Service /\ ToSet(mine) = (ToSet(cmd[c].mine) \ {e}) \cup {new}
<1>. DEFINE k == cmd[c]
            e == EntryOf(k)
            new == [e EXCEPT !.pid = Len(procs) + 1]
            mine == [i \in DOMAIN k.mine |-> IF k.mine[i] = e THEN new ELSE k.mine[i]]
            K == [k EXCEPT !.pc = "write", !.mine = mine]
<1>1. CommandOK(k) /\ k \in Command /\ PlaceOK(k) /\ MineOK(k) /\ cmd \in [Cmds -> Command]
  BY DEF Shape, CommandOK
<1>2. k.pc = "start" /\ k.kind = "restart" /\ ServiceOf(k) \in Names(k.mine) /\ Mine(c) = e
      /\ k.port = e.port /\ ServiceOf(k) \in Model /\ ListOK(k.mine)
  BY <1>1, Steps, Same DEF StartNew, MineOK
<1>3. e \in ToSet(k.mine) /\ e.svc = ServiceOf(k)
  BY <1>1, <1>2, TheService DEF EntryOf, ListOK
<1>4. e \in Service /\ Len(procs) \in Nat
  BY <1>3 DEF Shape, Entry
<1>5. new \in Service /\ new.svc = e.svc /\ new = NewService(c)
  <2>. HIDE DEF e
  <2>1. new \in Service /\ new.svc = e.svc /\ new.port = e.port /\ new.pid = Len(procs) + 1
    BY <1>4 DEF Service
  <2>. HIDE DEF new
  <2>. QED
    BY <1>2, <1>3, <2>1 DEF NewService, Service
<1>6. cmd' = [cmd EXCEPT ![c] = K]
  BY <1>2 DEF StartNew
<1>. HIDE DEF e, new
<1>7. ListOK(mine) /\ ToSet(mine) = (ToSet(k.mine) \ {e}) \cup {new} /\ Names(mine) = Names(k.mine)
  BY <1>2, <1>3, <1>5, Replaced
<1>. HIDE DEF mine
<1>8. K \in Command /\ K.kind = k.kind /\ K.at = k.at /\ K.pc = "write" /\ K.mine = mine
  BY <1>1, <1>7 DEF Command, Pc, ListOK
<1>. HIDE DEF K, k
<1>9. ItemOf(K) = ItemOf(k) /\ ServiceOf(K) = ServiceOf(k)
  BY <1>8, SamePlace
<1>10. PlaceOK(K)
  BY <1>1, <1>2, <1>8, <1>9 DEF PlaceOK
<1>11. MineOK(K)
  BY <1>1, <1>2, <1>7, <1>8, <1>9 DEF MineOK
<1>12. Moves(c) /\ cmd'[c] = K
  BY <1>1, <1>6, <1>8, <1>10, <1>11, Becomes DEF CommandOK
<1>. QED
  BY <1>2, <1>3, <1>5, <1>7, <1>12 DEF K, k, e, new, mine

-----------------------------------------------------------------------------
(* The processes, and the shape of the state                               *)

\* Processes are started and end; what they were started with stays.
Grows ==
  /\ procs' \in Seq(Process)
  /\ \A pid \in DOMAIN procs :
       /\ pid \in DOMAIN procs' /\ procs'[pid].svc = procs[pid].svc /\ procs'[pid].port = procs[pid].port
       /\ procs'[pid].adapter = procs[pid].adapter
       /\ procs[pid].st = "exited" => procs'[pid].st = "exited"

\* Where no process changes, none is new and none comes back to life.
LEMMA NothingGrows == ASSUME Shape, procs' = procs PROVE Grows
BY DEF Grows, Shape

\* Some processes stop.
LEMMA StoppedGrows ==
  ASSUME Shape, NEW pids, procs' = Stopped(pids)
  PROVE  /\ Grows /\ DOMAIN procs' = DOMAIN procs
         /\ \A pid \in DOMAIN procs : procs'[pid].st = IF pid \in pids THEN "exited" ELSE procs[pid].st
<1>1. procs \in Seq(Process) /\ Len(procs) \in Nat /\ DOMAIN procs = 1..Len(procs)
  BY DEF Shape
<1>2. \A pid \in DOMAIN procs : procs[pid] \in Process
  BY <1>1, ItemOfSequence
<1>3. DOMAIN procs' = DOMAIN procs
      /\ \A pid \in DOMAIN procs : procs'[pid] = IF pid \in pids THEN [procs[pid] EXCEPT !.st = "exited"] ELSE procs[pid]
  BY DEF Stopped
<1>4. \A pid \in DOMAIN procs :
        /\ procs'[pid] \in Process /\ procs'[pid].st = IF pid \in pids THEN "exited" ELSE procs[pid].st
        /\ procs'[pid].svc = procs[pid].svc /\ procs'[pid].port = procs[pid].port /\ procs'[pid].adapter = procs[pid].adapter
  BY <1>2, <1>3 DEF Process
<1>5. procs' \in Seq(Process)
  <2>1. procs' \in [1..Len(procs) -> Process]
    BY <1>1, <1>4 DEF Stopped
  <2>. QED
    BY <1>1, <2>1, FunctionIsSequence
<1>. QED
  BY <1>3, <1>4, <1>5 DEF Grows

\* A process starts, with the next pid.
LEMMA LaunchedGrows ==
  ASSUME Shape, NEW c \in Cmds, ServiceOf(cmd[c]) \in STRING, procs' = Append(procs, Launched(c, Current(c)))
  PROVE  /\ Grows /\ Len(procs) + 1 \notin DOMAIN procs /\ DOMAIN procs' = DOMAIN procs \cup {Len(procs) + 1}
         /\ procs'[Len(procs) + 1] = [svc |-> ServiceOf(cmd[c]), port |-> cmd[c].port, adapter |-> cmd[c].adapter,
                                      st |-> "starting"]
         /\ \A pid \in DOMAIN procs : procs'[pid] = procs[pid]
<1>. DEFINE new == Launched(c, Current(c))
<1>1. procs \in Seq(Process) /\ Len(procs) \in Nat /\ DOMAIN procs = 1..Len(procs)
  BY DEF Shape
<1>2. new = [svc |-> ServiceOf(cmd[c]), port |-> cmd[c].port, adapter |-> cmd[c].adapter, st |-> "starting"]
  BY Same DEF Launched
<1>3. new \in Process
  BY <1>2 DEF Shape, Process, Command
<1>. HIDE DEF new
<1>4. /\ procs' \in Seq(Process) /\ DOMAIN procs' = DOMAIN procs \cup {Len(procs) + 1} /\ Len(procs) + 1 \notin DOMAIN procs
      /\ procs'[Len(procs) + 1] = new /\ \A pid \in DOMAIN procs : procs'[pid] = procs[pid]
  BY <1>1, <1>3 DEF new
<1>. QED
  BY <1>2, <1>4 DEF Grows

\* A server binds its port or finds it taken.
LEMMA BindGrows ==
  ASSUME Shape, NEW p \in DOMAIN procs, Bind(p)
  PROVE  /\ Grows /\ DOMAIN procs' = DOMAIN procs /\ procs[p].st = "starting"
         /\ procs'[p].st = IF PortFree(procs[p].port) THEN "ready" ELSE "exited"
         /\ \A pid \in DOMAIN procs \ {p} : procs'[pid] = procs[pid]
<1>1. procs \in Seq(Process) /\ Len(procs) \in Nat /\ DOMAIN procs = 1..Len(procs)
  BY DEF Shape
<1>2. \A pid \in DOMAIN procs : procs[pid] \in Process
  BY <1>1, ItemOfSequence
<1>3. /\ DOMAIN procs' = DOMAIN procs /\ procs[p].st = "starting" /\ \A pid \in DOMAIN procs \ {p} : procs'[pid] = procs[pid]
      /\ procs'[p] = [procs[p] EXCEPT !.st = IF PortFree(procs[p].port) THEN "ready" ELSE "exited"]
  BY DEF Bind
<1>4. /\ procs'[p] \in Process /\ procs'[p].st = IF PortFree(procs[p].port) THEN "ready" ELSE "exited"
      /\ procs'[p].svc = procs[p].svc /\ procs'[p].port = procs[p].port /\ procs'[p].adapter = procs[p].adapter
  BY <1>2, <1>3 DEF Process
<1>5. procs' \in Seq(Process)
  <2>1. procs' \in [1..Len(procs) -> Process]
    BY <1>1, <1>2, <1>3, <1>4 DEF Bind
  <2>. QED
    BY <1>1, <2>1, FunctionIsSequence
<1>. QED
  BY <1>3, <1>4, <1>5 DEF Grows

\* What names a process goes on naming one.
LEMMA EntryStays ==
  ASSUME Grows, NEW s, Entry(s)
  PROVE  Entry(s)'
BY DEF Grows, Entry

\* The list of the next place of a command is the one that it had, or empty.
LEMMA FollowingFields ==
  ASSUME NEW k \in Command
  PROVE  LET l == FollowingOf(k)
         IN  /\ l = Idle \/ (l.kind = k.kind /\ l.mine = k.mine /\ l.taken = k.taken /\ l.port = k.port
                             /\ l.adapter = k.adapter
                             /\ \/ l.at = k.at + 1 /\ k.at < Len(PlanFor(k.kind)) /\ l.pc = PlanFor(k.kind)[l.at].do
                                \/ l.at = k.at /\ l.pc = "evaluating" /\ k.kind = "gate")
             /\ k.at < Len(PlanFor(k.kind)) => l # Idle \/ k.kind = "none"
<1>. DEFINE l == FollowingOf(k)
<1>1. CASE k.at < Len(PlanFor(k.kind))
  <2>. DEFINE a == k.at + 1
              b == PlanFor(k.kind)[k.at + 1].do
  <2>1. l = [k EXCEPT !.at = a, !.pc = b]
    BY <1>1 DEF FollowingOf
  <2>. HIDE DEF l, a, b
  <2>2. l.kind = k.kind /\ l.mine = k.mine /\ l.taken = k.taken /\ l.port = k.port /\ l.adapter = k.adapter
        /\ l.at = a /\ l.pc = b
    BY <2>1 DEF Command
  <2>3. l = Idle => k.kind = "none"
    BY <2>2 DEF Idle
  <2>. QED
    BY <1>1, <2>2, <2>3 DEF l, a, b
<1>2. CASE ~(k.at < Len(PlanFor(k.kind))) /\ k.kind = "gate"
  <2>1. l = [k EXCEPT !.pc = "evaluating"]
    BY <1>2 DEF FollowingOf
  <2>2. l.kind = k.kind /\ l.mine = k.mine /\ l.taken = k.taken /\ l.port = k.port /\ l.adapter = k.adapter
        /\ l.at = k.at /\ l.pc = "evaluating"
    BY <2>1 DEF Command
  <2>. QED
    BY <1>2, <2>2
<1>3. CASE ~(k.at < Len(PlanFor(k.kind))) /\ k.kind # "gate"
  BY <1>3 DEF FollowingOf
<1>. QED
  BY <1>1, <1>2, <1>3

\* A step of a command, when what it adds to its list is an entry.
LEMMA CommandShape ==
  ASSUME Shape, NEW c \in Cmds, Moves(c), Grows, CountsOK',
         stateFile' \in {stateFile, << >>} \/ (stateFile' = cmd[c].mine /\ cmd[c].kind \in {"up", "restart"}),
         \A s \in ToSet(cmd'[c].mine) : s \in ToSet(cmd[c].mine) \cup ToSet(stateFile) \/ Entry(s)'
  PROVE  Shape'
<1>1. \A s : Entry(s) => Entry(s)'
  BY EntryStays
<1>2. \A s \in ToSet(cmd[c].mine) \cup ToSet(stateFile) : Entry(s)
  BY DEF Shape
<1>3. ListOK(stateFile') /\ Names(stateFile') \subseteq UpNames /\ \A s \in ToSet(stateFile') : Entry(s)'
  <2>1. CASE stateFile' = stateFile
    BY <1>1, <2>1 DEF Shape
  <2>2. CASE stateFile' = << >>
    BY <2>2, EmptyList
  <2>3. CASE stateFile' = cmd[c].mine /\ cmd[c].kind \in {"up", "restart"}
    <3>1. MineOK(cmd[c])
      BY DEF Shape, CommandOK
    <3>2. ListOK(cmd[c].mine) /\ Names(cmd[c].mine) \subseteq UpNames
      BY <2>3, <3>1 DEF MineOK, NamesOf
    <3>. QED
      BY <1>1, <1>2, <2>3, <3>2
  <2>. QED
    BY <2>1, <2>2, <2>3
<1>4. cmd' \in [Cmds -> Command] /\ procs' \in Seq(Process)
  BY DEF Moves, Grows
<1>5. ASSUME NEW d \in Cmds PROVE CommandOK(cmd'[d]) /\ \A s \in ToSet(cmd'[d].mine) : Entry(s)'
  <2>1. CASE d = c
    BY <1>1, <1>2, <2>1 DEF Moves
  <2>2. CASE d # c
    <3>1. cmd'[d] = cmd[d]
      BY <2>2 DEF Moves
    <3>2. CommandOK(cmd[d]) /\ \A s \in ToSet(cmd[d].mine) : Entry(s)
      BY DEF Shape
    <3>. QED
      BY <1>1, <3>1, <3>2
  <2>. QED
    BY <2>1, <2>2
<1>. QED
  BY <1>3, <1>4, <1>5 DEF Shape

\* A command that begins keeps the shape of the state.
LEMMA BeginShape ==
  ASSUME Shape, NEW c \in Cmds, Up(c) \/ ServePair(c) \/ Down(c) \/ Promote(c)
  PROVE  Shape'
<1>1. procs' = procs /\ stateFile' = stateFile /\ Grows
  BY NothingGrows DEF Up, ServePair, Down, Promote
<1>2. ASSUME NEW k \in Kind, Begin(c, k) PROVE overlaps' \subseteq SUBSET Kind
  <2>1. \A d \in Cmds : cmd[d].kind \in Kind
    BY DEF Shape, Command
  <2>. QED
    BY <1>2, <2>1 DEF Begin, Busy, Shape, CountsOK
<1>3. overlaps' \subseteq SUBSET Kind /\ past' = past /\ commands' = commands + 1 /\ kills' = kills /\ exits' = exits
  <2>1. Begin(c, "up") \/ Begin(c, "gate") \/ Begin(c, "down") \/ Begin(c, "restart")
    BY DEF Up, ServePair, Down, Promote
  <2>2. {"up", "gate", "down", "restart"} \subseteq Kind
    BY DEF Kind
  <2>. QED
    BY <1>2, <2>1, <2>2 DEF Begin
<1>4. openRuns' = openRuns /\ live' \in [Model -> 0..MaxVersion] /\ file' = file
  <2>1. CASE Promote(c)
    <3>1. PICK m \in Model, v \in 1..MaxVersion : live' = [live EXCEPT ![m] = v]
      BY <2>1, PromoteMoves
    <3>2. v \in 0..MaxVersion
      BY ServingAssumption
    <3>. QED
      BY <2>1, <3>1, <3>2 DEF Promote, Shape, CountsOK
  <2>. QED
    BY <2>1 DEF Up, ServePair, Down, Shape, CountsOK
<1>5. CountsOK'
  BY <1>3, <1>4 DEF CountsOK, Shape
<1>6. Moves(c) /\ (cmd'[c].mine = << >> \/ cmd'[c].mine = stateFile)
  <2>1. Idle \in Command /\ Idle.mine = << >>
    BY IdleIsOK DEF CommandOK, Idle
  <2>2. CASE Up(c)
    BY <2>1, <2>2, UpMoves DEF Command
  <2>3. CASE ServePair(c)
    BY <2>1, <2>3, ServePairMoves DEF Command
  <2>4. CASE Down(c)
    BY <2>1, <2>4, DownMoves DEF Command
  <2>5. CASE Promote(c)
    BY <2>5, PromoteMoves
  <2>. QED
    BY <2>2, <2>3, <2>4, <2>5
<1>. QED
  BY <1>1, <1>5, <1>6, EmptyList, CommandShape

\* The entry of a process that starts now.
LEMMA NewEntry ==
  ASSUME Shape, NEW c \in Cmds, ServiceOf(cmd[c]) \in STRING, procs' = Append(procs, Launched(c, Current(c))),
         NEW s \in Service, s = NewService(c)
  PROVE  Entry(s)'
<1>1. s.svc = ServiceOf(cmd[c]) /\ s.port = cmd[c].port /\ s.pid = Len(procs) + 1
  BY DEF NewService
<1>. DEFINE n == Len(procs) + 1
<1>2. procs'[n] = [svc |-> ServiceOf(cmd[c]), port |-> cmd[c].port, adapter |-> cmd[c].adapter, st |-> "starting"]
      /\ DOMAIN procs' = DOMAIN procs \cup {n}
  BY LaunchedGrows
<1>3. procs'[n].svc = ServiceOf(cmd[c]) /\ procs'[n].port = cmd[c].port /\ n \in DOMAIN procs'
  <2>. HIDE DEF n
  <2>. QED
    BY <1>2
<1>. QED
  BY <1>1, <1>3 DEF Entry

\* What a command does to the file: it opens it, writes it, removes it, or has it open no
\* longer.
LEMMA FileSteps ==
  ASSUME file \in File, NEW c \in Cmds, Run(c) \/ Kill(c)
  PROVE  /\ file' \in File
         /\ ~Truncate(c) /\ ~Write(c) /\ ~Unlink(c) =>
              file'.text = file.text /\ \A d \in Cmds \ {c} : d \in file.open => d \in file'.open
<1>1. CASE Truncate(c)
  BY <1>1 DEF Truncate, File
<1>2. CASE Write(c)
  <2>1. file' = file \/ \E text \in {"whole", "mixed"} : file' = [text |-> text, open |-> file.open \ {c}]
    BY <1>2 DEF Write
  <2>. QED
    BY <1>2, <2>1 DEF File
<1>3. CASE Unlink(c)
  <2>1. file' = file \/ file' = [text |-> "whole", open |-> {}]
    BY <1>3 DEF Unlink
  <2>. QED
    BY <1>3, <2>1 DEF File
<1>4. CASE Fail(c) \/ Kill(c)
  <2>1. file' = [file EXCEPT !.open = @ \ {c}]
    BY <1>4 DEF Fail, Kill, Close
  <2>. QED
    BY <2>1 DEF File
<1>5. CASE ~Truncate(c) /\ ~Write(c) /\ ~Unlink(c) /\ ~Fail(c) /\ ~Kill(c)
  <2>1. file' = file
    BY <1>5 DEF Run, Pick, Start, WaitReady, CloseRuns, OpenRun, Evaluated, StopLast, ReadState, Launch, StopOld,
      StartNew, RestartFails
  <2>. QED
    BY <2>1
<1>. QED
  BY <1>1, <1>2, <1>3, <1>4, <1>5

\* A command that goes on, or dies, keeps the shape of the state.
LEMMA RunShape ==
  ASSUME Shape, NEW c \in Cmds, Run(c) \/ Kill(c)
  PROVE  Shape' /\ Grows /\ Moves(c)
<1>. DEFINE k == cmd[c]
<1>1. k \in Command /\ Idle.mine = << >>
  BY DEF Shape, Idle
<1>6. FollowingOf(k).mine \in {k.mine, << >>}
  BY <1>1, FollowingFields
<1>7. file' \in File
  BY FileSteps DEF Shape, CountsOK
<1>2. CASE Pick(c) \/ Evaluated(c) \/ Launch(c) \/ Truncate(c) \/ Write(c) \/ WaitReady(c) \/ Fail(c) \/ ReadState(c)
           \/ RestartFails(c) \/ Kill(c) \/ Unlink(c)
  <2>1. procs' = procs /\ openRuns' = openRuns /\ live' = live /\ overlaps' = overlaps /\ commands' = commands /\ exits' = exits
    BY <1>2 DEF Pick, Evaluated, Launch, Truncate, Write, WaitReady, Fail, ReadState, RestartFails, Kill, Unlink
  <2>2. past' \subseteq Faults /\ kills' \in Nat
    <3>1. CASE Fail(c) \/ RestartFails(c) \/ Kill(c)
      <4>1. (\E fs \in SUBSET Faults : past' = past \cup fs) /\ kills' \in {kills, kills + 1}
        BY <3>1 DEF Fail, RestartFails, Kill, Fault, Faults
      <4>. QED
        BY <4>1 DEF Shape, CountsOK
    <3>2. CASE ~(Fail(c) \/ RestartFails(c) \/ Kill(c))
      BY <1>2, <3>2 DEF Pick, Evaluated, Launch, Truncate, Write, WaitReady, ReadState, Unlink, Shape, CountsOK
    <3>. QED
      BY <3>1, <3>2
  <2>3. stateFile' \in {stateFile, << >>} \/ (stateFile' = k.mine /\ k.kind \in {"up", "restart"})
    <3>1. CASE Write(c)
      BY <3>1, WriteMoves DEF Write
    <3>. QED
      BY <1>2, <3>1 DEF Pick, Evaluated, Launch, Truncate, WaitReady, Fail, ReadState, RestartFails, Kill, Unlink
  <2>4. Moves(c) /\ (cmd'[c].mine = k.mine \/ cmd'[c].mine = << >> \/ cmd'[c].mine = stateFile)
    <3>1. CASE Pick(c)
      BY <1>1, <3>1, PickMoves DEF Command
    <3>2. CASE Evaluated(c) \/ Fail(c)
      <4>1. k.kind \in {"up", "gate"} /\ k.pc # "stop" /\ Step(c, "stop")
        BY <3>2, Steps DEF Evaluated, Fail, Shape, CommandOK
      <4>. QED
        BY <1>1, <4>1, StopMoves DEF Command
    <3>3. CASE Launch(c)
      BY <1>1, <3>3, LaunchMoves DEF Command
    <3>4. CASE Write(c)
      BY <1>1, <1>6, <3>4, WriteMoves DEF Command
    <3>5. CASE WaitReady(c)
      <4>1. Moves(c) /\ cmd'[c] \in {Idle, [k EXCEPT !.pc = "closeRuns"], FollowingOf(k)}
        BY <3>5, WaitReadyMoves
      <4>. QED
        BY <1>1, <1>6, <4>1 DEF Command
    <3>6. CASE ReadState(c)
      BY <1>1, <3>6, ReadStateMoves DEF Command
    <3>7. CASE RestartFails(c) \/ Kill(c) \/ Unlink(c)
      <4>1. cmd' = [cmd EXCEPT ![c] = Idle]
        BY <3>7 DEF RestartFails, Kill, Unlink
      <4>. QED
        BY <1>1, <4>1, Ends
    <3>8. CASE Truncate(c)
      BY <1>1, <3>8, TruncateMoves DEF Command
    <3>. QED
      BY <1>2, <3>1, <3>2, <3>3, <3>4, <3>5, <3>6, <3>7, <3>8
  <2>5. Grows /\ CountsOK'
    BY <1>7, <2>1, <2>2, NothingGrows DEF CountsOK, Shape
  <2>. QED
    BY <2>3, <2>4, <2>5, EmptyList, CommandShape
<1>3. CASE CloseRuns(c) \/ OpenRun(c)
  <2>1. Moves(c) /\ (cmd'[c].mine = k.mine \/ cmd'[c].mine = << >>) /\ Current(c) \in Model
    <3>1. Moves(c) /\ cmd'[c] \in {[k EXCEPT !.pc = "openRun"], FollowingOf(k)} /\ ServiceOf(k) \in Model
      BY <1>3, CloseRunsMoves, OpenRunMoves
    <3>. QED
      BY <1>1, <1>6, <3>1, Same DEF Command
  <2>2. openRuns' \in [Model -> Nat]
    <3>1. openRuns \in [Model -> Nat]
      BY DEF Shape, CountsOK
    <3>2. openRuns' = [openRuns EXCEPT ![Current(c)] = 0] \/ openRuns' = [openRuns EXCEPT ![Current(c)] = @ + 1]
      BY <1>3 DEF CloseRuns, OpenRun
    <3>. QED
      BY <2>1, <3>1, <3>2
  <2>3. procs' = procs /\ stateFile' = stateFile
    BY <1>3 DEF CloseRuns, OpenRun
  <2>4. Grows /\ CountsOK'
    BY <1>3, <1>7, <2>2, NothingGrows DEF CountsOK, Shape, CloseRuns, OpenRun
  <2>. QED
    BY <2>1, <2>3, <2>4, EmptyList, CommandShape
<1>4. CASE StopLast(c) \/ StopOld(c)
  <2>1. Grows /\ stateFile' = stateFile
    BY <1>4, StoppedGrows DEF StopLast, StopOld
  <2>2. CountsOK'
    <3>1. CASE StopLast(c)
      BY <1>7, <3>1 DEF StopLast, CountsOK, Shape
    <3>2. CASE StopOld(c)
      BY <1>7, <3>2 DEF StopOld, CountsOK, Shape
    <3>. QED
      BY <1>4, <3>1, <3>2
  <2>3. Moves(c) /\ ToSet(cmd'[c].mine) \subseteq ToSet(k.mine)
    <3>1. CASE StopLast(c)
      <4>1. MineOK(k) /\ k.mine # << >>
        BY <3>1 DEF Shape, CommandOK, StopLast
      <4>2. ToSet(Front(k.mine)) \subseteq ToSet(k.mine)
        BY <4>1, Shortened DEF MineOK
      <4>. QED
        BY <1>1, <3>1, <4>2, StopLastMoves DEF Command
    <3>2. CASE StopOld(c)
      BY <1>1, <3>2, StopOldMoves DEF Command
    <3>. QED
      BY <1>4, <3>1, <3>2
  <2>. QED
    BY <2>1, <2>2, <2>3, CommandShape
<1>5. CASE Start(c) \/ StartNew(c)
  <2>1. procs' = Append(procs, Launched(c, Current(c))) /\ stateFile' = stateFile
    BY <1>5 DEF Start, StartNew
  <2>2. Moves(c) /\ NewService(c) \in Service
        /\ \A s \in ToSet(cmd'[c].mine) : s \in ToSet(k.mine) \cup {NewService(c)}
    <3>1. CASE Start(c)
      <4>. DEFINE K == [k EXCEPT !.mine = Append(@, NewService(c))]
      <4>1. Moves(c) /\ NewService(c) \in Service /\ NewService(c).svc \notin Names(k.mine) /\ ListOK(k.mine)
        BY <3>1, StartMoves DEF Shape, CommandOK, MineOK
      <4>2. ToSet(Append(k.mine, NewService(c))) = ToSet(k.mine) \cup {NewService(c)}
            /\ Append(k.mine, NewService(c)) \in Seq(Service)
        BY <4>1, Appended DEF ListOK
      <4>3. K \in Command /\ K.mine = Append(k.mine, NewService(c))
        BY <1>1, <4>2 DEF Command
      <4>4. cmd'[c].mine \in {K.mine, << >>}
        <5>1. CASE k.kind = "up"
          BY <1>1, <3>1, <5>1, StartMoves DEF Command
        <5>2. CASE k.kind # "up"
          <6>1. cmd'[c] = FollowingOf(K)
            BY <3>1, <5>2, StartMoves
          <6>. HIDE DEF K
          <6>. QED
            BY <1>1, <4>3, <6>1, FollowingFields
        <5>. QED
          BY <5>1, <5>2
      <4>. QED
        BY <4>1, <4>2, <4>3, <4>4, EmptyList
    <3>2. CASE StartNew(c)
      <4>. HIDE DEF Shape
      <4>. DEFINE e == EntryOf(k)
                  new == [e EXCEPT !.pid = Len(procs) + 1]
                  mine == [i \in DOMAIN k.mine |-> IF k.mine[i] = e THEN new ELSE k.mine[i]]
      <4>1. /\ Moves(c) /\ cmd'[c] = [k EXCEPT !.pc = "write", !.mine = mine]
            /\ new = NewService(c) /\ new \in Service /\ ToSet(mine) = (ToSet(k.mine) \ {e}) \cup {new}
        BY <3>2, StartNewMoves
      <4>. HIDE DEF mine, new, e
      <4>2. cmd'[c].mine = mine
        BY <1>1, <4>1 DEF Command
      <4>. QED
        BY <4>1, <4>2
    <3>. QED
      BY <1>5, <3>1, <3>2
  <2>3. ServiceOf(k) \in STRING
    <3>1. k.kind \in {"up", "gate", "restart"} /\ PlaceOK(k)
      BY <1>5, Steps DEF Shape, CommandOK, Start, StartNew
    <3>. QED
      BY <3>1, ItemFacts DEF PlaceOK
  <2>4. Grows
    BY <2>1, <2>2, <2>3, LaunchedGrows
  <2>5. CountsOK'
    BY <1>5, <1>7 DEF Start, StartNew, CountsOK, Shape
  <2>6. \A s \in ToSet(cmd'[c].mine) : s \in ToSet(k.mine) \cup ToSet(stateFile) \/ Entry(s)'
    <3>1. \A s \in Service : s = NewService(c) => Entry(s)'
      BY <2>1, <2>3, NewEntry
    <3>. QED
      BY <2>2, <3>1
  <2>. QED
    BY <2>1, <2>2, <2>4, <2>5, <2>6, CommandShape
<1>. QED
  BY <1>2, <1>3, <1>4, <1>5 DEF Run

\* The processes that run when nothing else happens.
LEMMA ProcessShape ==
  ASSUME Shape, NEW pid \in DOMAIN procs, Bind(pid) \/ Exit(pid)
  PROVE  Shape' /\ Grows /\ cmd' = cmd /\ stateFile' = stateFile
<1>1. Grows
  BY BindGrows, StoppedGrows DEF Exit
<1>2. UNCHANGED <<stateFile, file, openRuns, live, cmd, past, overlaps, commands, kills>> /\ exits' \in {exits, exits + 1}
  BY DEF Bind, Exit
<1>3. CountsOK'
  BY <1>2 DEF CountsOK, Shape
<1>4. \A s : Entry(s) => Entry(s)'
  BY <1>1, EntryStays
<1>5. procs' \in Seq(Process)
  BY <1>1 DEF Grows
<1>. QED
  BY <1>1, <1>2, <1>3, <1>4, <1>5 DEF Shape

\* The initial state has the shape.
LEMMA ShapeInit == ASSUME Init PROVE Shape
<1>1. CountsOK
  BY ServingAssumption DEF Init, CountsOK, File
<1>2. Idle \in Command /\ Idle.mine = << >> /\ CommandOK(Idle)
  BY IdleIsOK DEF CommandOK, Idle
<1>3. << >> \in Seq(Process)
  OBVIOUS
<1>. QED
  BY <1>1, <1>2, <1>3, EmptyList DEF Init, Shape

\* Every step keeps the shape, and processes only come and die.
LEMMA ShapeStep == ASSUME Shape, [Next]_vars PROVE Shape' /\ Grows
<1>1. ASSUME NEW c \in Cmds, Up(c) \/ ServePair(c) \/ Down(c) \/ Promote(c) PROVE Shape' /\ Grows
  <2>1. procs' = procs
    BY <1>1 DEF Up, ServePair, Down, Promote
  <2>. QED
    BY <1>1, <2>1, BeginShape, NothingGrows
<1>2. ASSUME NEW c \in Cmds, Run(c) \/ Kill(c) PROVE Shape' /\ Grows
  BY <1>2, RunShape
<1>3. ASSUME NEW pid \in DOMAIN procs, Bind(pid) \/ Exit(pid) PROVE Shape' /\ Grows
  BY <1>3, ProcessShape
<1>4. ASSUME UNCHANGED vars PROVE Shape' /\ Grows
  <2>1. Grows
    BY <1>4, NothingGrows DEF vars
  <2>2. \A s : Entry(s) => Entry(s)'
    BY <2>1, EntryStays
  <2>. QED
    BY <1>4, <2>1, <2>2 DEF vars, Shape, CountsOK
<1>. QED
  BY <1>1, <1>2, <1>3, <1>4 DEF Next

\* Types: every service that the file or a list names is about a process of its name that
\* was started on its port, and a command is at an item of its plan.
THEOREM ServingTypeCorrect == Spec => []ServingTypeOK
<1>1. Init => Shape
  BY ShapeInit
<1>2. Shape /\ [Next]_vars => Shape'
  BY ShapeStep
<1>3. Shape => ServingTypeOK
  <2>. SUFFICES ASSUME Shape PROVE ServingTypeOK
    OBVIOUS
  <2>1. \A pid \in DOMAIN procs : procs[pid] \in Process
    BY ItemOfSequence DEF Shape
  <2>2. \A s \in ToSet(stateFile) \cup UNION {ToSet(cmd[c].mine) : c \in Cmds} : Entry(s)
    BY DEF Shape
  <2>3. \A c \in Cmds : cmd[c].kind \in Kind /\ cmd[c].at \in {0} \cup DOMAIN Plan(c)
    <3>. SUFFICES ASSUME NEW c \in Cmds PROVE cmd[c].kind \in Kind /\ cmd[c].at \in {0} \cup DOMAIN Plan(c)
      OBVIOUS
    <3>1. cmd[c] \in Command /\ PlaceOK(cmd[c])
      BY DEF Shape, CommandOK
    <3>2. cmd[c].kind \in Kind
      BY <3>1 DEF Command
    <3>. QED
      BY <3>1, <3>2, Same DEF PlaceOK, Kind, Idle
  <2>. QED
    BY <2>1, <2>2, <2>3 DEF ServingTypeOK, Shape, CountsOK
<1>. QED
  BY <1>1, <1>2, <1>3, PTL DEF Spec

-----------------------------------------------------------------------------
(* Where a command can go                                                  *)

\* Where a command can be after an item of its plan.
LEMMA FollowingPlace ==
  ASSUME NEW k \in Command, k.at \in DOMAIN PlanFor(k.kind)
  PROVE  FollowingOf(k).pc \in {"pick", "wait", "evaluating", "idle"} /\ FollowingOf(k).kind \in {k.kind, "none"}
         /\ (FollowingOf(k).pc = "evaluating" => k.kind = "gate")
<1>. DEFINE p == PlanFor(k.kind)
<1>1. Len(p) \in Nat /\ DOMAIN p = 1..Len(p)
  BY PlanFacts
<1>2. CASE FollowingOf(k) = Idle
  BY <1>2 DEF Idle
<1>3. CASE FollowingOf(k) # Idle /\ k.at < Len(p)
  <2>. DEFINE l == FollowingOf(k)
  <2>1. l.kind = k.kind /\ l.at = k.at + 1 /\ l.pc = p[k.at + 1].do
    <3>1. l = [k EXCEPT !.at = k.at + 1, !.pc = p[k.at + 1].do]
      BY <1>3 DEF FollowingOf
    <3>. HIDE DEF l
    <3>. QED
      BY <3>1 DEF Command
  <2>2. l.at \in DOMAIN PlanFor(l.kind) /\ ItemOf(l) = p[k.at + 1]
    <3>. HIDE DEF l
    <3>. QED
      BY <1>1, <1>3, <2>1 DEF ItemOf
  <2>3. ItemOf(l).do \in {"pick", "wait"}
    BY <2>2, ItemFacts
  <2>. QED
    BY <2>1, <2>2, <2>3
<1>4. CASE FollowingOf(k) # Idle /\ ~(k.at < Len(p))
  <2>1. FollowingOf(k).pc = "evaluating" /\ FollowingOf(k).kind = k.kind /\ k.kind = "gate"
    BY <1>4, FollowingFields
  <2>. QED
    BY <2>1
<1>. QED
  BY <1>2, <1>3, <1>4

\* Which action leads to which place.
LEMMA Places ==
  ASSUME Shape, NEW c \in Cmds, Run(c) \/ Kill(c)
  PROVE  /\ cmd'[c].kind \in {cmd[c].kind, "none"} /\ cmd'[c].pc # "read"
         /\ cmd'[c].pc = "openRun" => CloseRuns(c)
         /\ cmd'[c].pc = "closeRuns" => WaitReady(c)
         /\ cmd'[c].pc = "stop" => Fail(c) \/ Evaluated(c) \/ StopLast(c)
         /\ cmd'[c].pc = "start" => Pick(c) \/ StopOld(c)
         /\ cmd'[c].pc = "write" => Start(c) \/ StartNew(c)
         /\ cmd'[c].pc = "rewrite" => Truncate(c)
         /\ cmd'[c].pc = "launch" => ReadState(c)
         /\ cmd'[c].pc = "swap" => Launch(c)
         /\ cmd'[c].pc = "evaluating" => WaitReady(c)
<1>. DEFINE k == cmd[c]
            l == cmd'[c]
<1>1. k \in Command /\ PlaceOK(k) /\ MineOK(k)
  BY DEF Shape, CommandOK
<1>2. Idle.kind = "none" /\ Idle.pc = "idle"
  BY DEF Idle
<1>3. k.at \in DOMAIN PlanFor(k.kind) => FollowingOf(k).pc \in {"pick", "wait", "evaluating", "idle"}
        /\ FollowingOf(k).kind \in {k.kind, "none"} /\ (FollowingOf(k).pc = "evaluating" => k.kind = "gate")
  BY <1>1, FollowingPlace
<1>4. ASSUME Pick(c) PROVE l.kind = k.kind /\ l.pc = "start"
  <2>1. \E p \in PortFor(c) : l = [k EXCEPT !.pc = "start", !.port = p, !.taken = @ \cup {p},
              !.adapter = IF ServiceOf(k) \in Model THEN live[ServiceOf(k)] ELSE 0]
    BY <1>4, PickMoves
  <2>. QED
    BY <1>1, <2>1 DEF Command
<1>5. ASSUME Start(c) PROVE l.kind = k.kind /\ l.pc \in {"write", "pick", "wait"}
  <2>1. CASE k.kind = "up"
    <3>1. l = [k EXCEPT !.mine = Append(@, NewService(c)), !.pc = "write"]
      BY <1>5, <2>1, StartMoves
    <3>. QED
      BY <1>1, <3>1 DEF Command
  <2>2. CASE k.kind # "up"
    <3>. DEFINE K == [k EXCEPT !.mine = Append(@, NewService(c))]
    <3>1. l = FollowingOf(K) /\ k.kind = "gate" /\ ListOK(Append(k.mine, NewService(c))) /\ k.pc = "start"
      <4>1. ListOK(k.mine)
        BY <1>1 DEF MineOK
      <4>. QED
        BY <1>5, <2>2, <4>1, StartMoves, Appended DEF Start
    <3>2. K \in Command /\ K.kind = k.kind /\ K.at = k.at
      BY <1>1, <3>1 DEF Command, ListOK
    <3>3. ItemOf(k).do = "pick" /\ k.at \in DOMAIN PlanFor(k.kind)
      BY <1>1, <3>1, Steps
    <3>4. k.at < Len(PlanFor(k.kind))
      BY <3>3, ItemFacts
    <3>. HIDE DEF K
    <3>5. FollowingOf(K).pc \in {"pick", "wait", "evaluating", "idle"} /\ FollowingOf(K).kind = "gate"
          /\ FollowingOf(K) # Idle
      BY <1>2, <3>1, <3>2, <3>3, <3>4, FollowingPlace, FollowingFields
    <3>6. l \in Command /\ PlaceOK(l)
      BY <1>5, StartMoves DEF Moves, CommandOK
    <3>7. l.pc \notin {"evaluating", "idle"}
      <4>1. FollowingOf(K) = [K EXCEPT !.at = K.at + 1, !.pc = PlanFor(K.kind)[K.at + 1].do]
        BY <3>2, <3>4 DEF FollowingOf
      <4>2. l.at = K.at + 1 /\ l.kind = K.kind /\ l.pc = PlanFor(K.kind)[K.at + 1].do
        BY <3>1, <3>2, <4>1 DEF Command
      <4>3. l.at \in DOMAIN PlanFor(l.kind)
        BY <3>1, <3>2, <3>6, <4>2 DEF PlaceOK
      <4>4. ItemOf(l).do \in {"pick", "wait"} /\ ItemOf(l) = PlanFor(K.kind)[K.at + 1]
        BY <4>2, <4>3, ItemFacts DEF ItemOf
      <4>. QED
        BY <4>2, <4>4
    <3>. QED
      BY <3>1, <3>5, <3>7
  <2>. QED
    BY <2>1, <2>2
<1>17. ASSUME Truncate(c) PROVE l.kind = k.kind /\ l.pc = "rewrite"
  BY <1>1, <1>17, TruncateMoves DEF Command
<1>6. ASSUME Write(c) PROVE l.kind \in {k.kind, "none"} /\ l.pc \in {"wait", "pick", "idle"}
  <2>1. l \in {FollowingOf(k), [k EXCEPT !.pc = "wait"]} /\ k.kind \in {"up", "restart"}
    BY <1>6, WriteMoves
  <2>. QED
    BY <1>1, <1>3, <2>1 DEF Command, PlaceOK
<1>7. ASSUME WaitReady(c) PROVE l.kind \in {k.kind, "none"} /\ l.pc \in {"idle", "closeRuns", "pick", "wait", "evaluating"}
  <2>1. l \in {Idle, [k EXCEPT !.pc = "closeRuns"], FollowingOf(k)} /\ k.kind \in {"up", "gate", "restart"}
    BY <1>7, WaitReadyMoves
  <2>. QED
    BY <1>1, <1>2, <1>3, <2>1 DEF Command, PlaceOK
<1>8. ASSUME CloseRuns(c) PROVE l.kind = k.kind /\ l.pc = "openRun"
  BY <1>1, <1>8, CloseRunsMoves DEF Command
<1>9. ASSUME OpenRun(c) PROVE l.kind \in {k.kind, "none"} /\ l.pc \in {"wait", "pick", "idle"}
  <2>1. l = FollowingOf(k) /\ k.kind = "up"
    BY <1>9, OpenRunMoves
  <2>. QED
    BY <1>1, <1>3, <2>1 DEF PlaceOK
<1>10. ASSUME Fail(c) \/ Evaluated(c) PROVE l.kind = k.kind /\ l.pc = "stop"
  <2>1. k.kind \in {"up", "gate"} /\ k.pc # "stop" /\ Step(c, "stop")
    BY <1>1, <1>10, Steps DEF Evaluated, Fail
  <2>. QED
    BY <1>1, <2>1, StopMoves DEF Command
<1>11. ASSUME StopLast(c) PROVE l.kind = k.kind /\ l.pc = "stop"
  <2>1. l = [k EXCEPT !.mine = Front(@)] /\ k.pc = "stop"
    BY <1>11, StopLastMoves DEF StopLast
  <2>. QED
    BY <1>1, <2>1 DEF Command
<1>12. ASSUME ReadState(c) PROVE l.kind \in {k.kind, "none"} /\ l.pc \in {"idle", "launch"}
  <2>1. l = Idle \/ l = [k EXCEPT !.pc = "launch", !.mine = stateFile]
    BY <1>12, ReadStateMoves
  <2>. QED
    BY <1>1, <1>2, <2>1 DEF Command
<1>13. ASSUME Launch(c) PROVE l.kind = k.kind /\ l.pc = "swap"
  BY <1>1, <1>13, LaunchMoves, ZenonT(60) DEF Command
<1>14. ASSUME StopOld(c) PROVE l.kind = k.kind /\ l.pc = "start"
  BY <1>1, <1>14, StopOldMoves DEF Command
<1>15. ASSUME StartNew(c) PROVE l.kind = k.kind /\ l.pc = "write"
  BY <1>1, <1>15, StartNewMoves DEF Command
<1>16. ASSUME Unlink(c) \/ RestartFails(c) \/ Kill(c) PROVE l = Idle
  <2>1. cmd' = [cmd EXCEPT ![c] = Idle]
    BY <1>16 DEF RestartFails, Kill, Unlink
  <2>. QED
    BY <2>1, Ends
<1>. QED
  BY <1>2, <1>4, <1>5, <1>6, <1>7, <1>8, <1>9, <1>10, <1>11, <1>12, <1>13, <1>14, <1>15, <1>16, <1>17 DEF Run

-----------------------------------------------------------------------------
(* Which commands ran beside each other, and the open runs                 *)

\* What overlaps and past say of the commands that run.
OverlapsOK ==
  /\ \A c, d \in Busy : c # d => {cmd[c].kind, cmd[d].kind} \in overlaps
  /\ \A c, d \in Cmds : cmd[c].kind = "gate" /\ cmd[d].kind = "gate" => c = d
  /\ "killed" \notin past => kills = 0
  /\ \A c \in Cmds : cmd[c].kind = "up" /\ cmd[c].pc = "stop" => "upFailed" \in past

\* A command that begins was idle, and those that run are now in overlaps with it.
LEMMA BeginsKind ==
  ASSUME Shape, NEW c \in Cmds, Up(c) \/ ServePair(c) \/ Down(c) \/ Promote(c)
  PROVE  /\ Moves(c) /\ cmd[c] = Idle /\ cmd[c].kind = "none"
         /\ overlaps' = overlaps \cup {{cmd'[c].kind, cmd[d].kind} : d \in Busy}
         /\ (cmd'[c].kind = "up" <=> Up(c)) /\ (cmd'[c].kind = "gate" <=> ServePair(c))
         /\ (cmd'[c].kind = "down" <=> Down(c)) /\ (cmd'[c].kind = "restart" <=> Promote(c))
         /\ cmd'[c].kind # "none" /\ past' = past /\ kills' = kills /\ exits' = exits /\ procs' = procs
         /\ stateFile' = stateFile /\ openRuns' = openRuns
<1>1. Idle \in Command /\ Idle.kind = "none"
  BY IdleIsOK DEF CommandOK, Idle
<1>2. CASE Up(c)
  <2>1. Moves(c) /\ cmd'[c].kind = "up"
    BY <1>1, <1>2, UpMoves DEF Command
  <2>2. ~ServePair(c) /\ ~Down(c) /\ ~Promote(c)
    <3>1. (ServePair(c) => cmd'[c].kind = "gate") /\ (Down(c) => cmd'[c].kind = "down") /\ (Promote(c) => cmd'[c].kind = "restart")
      BY <1>1, ServePairMoves, DownMoves, PromoteMoves, ZenonT(60) DEF Command
    <3>. QED
      BY <2>1, <3>1
  <2>. QED
    BY <1>1, <1>2, <2>1, <2>2 DEF Up, Begin
<1>3. CASE ServePair(c)
  <2>1. Moves(c) /\ cmd'[c].kind = "gate"
    BY <1>1, <1>3, ServePairMoves DEF Command
  <2>2. ~Up(c) /\ ~Down(c) /\ ~Promote(c)
    <3>1. (Up(c) => cmd'[c].kind = "up") /\ (Down(c) => cmd'[c].kind = "down") /\ (Promote(c) => cmd'[c].kind = "restart")
      BY <1>1, UpMoves, DownMoves, PromoteMoves, ZenonT(60) DEF Command
    <3>. QED
      BY <2>1, <3>1
  <2>. QED
    BY <1>1, <1>3, <2>1, <2>2 DEF ServePair, Begin
<1>4. CASE Down(c)
  <2>1. Moves(c) /\ cmd'[c].kind = "down"
    BY <1>1, <1>4, DownMoves DEF Command
  <2>2. ~Up(c) /\ ~ServePair(c) /\ ~Promote(c)
    <3>1. (Up(c) => cmd'[c].kind = "up") /\ (ServePair(c) => cmd'[c].kind = "gate") /\ (Promote(c) => cmd'[c].kind = "restart")
      BY <1>1, UpMoves, ServePairMoves, PromoteMoves, ZenonT(60) DEF Command
    <3>. QED
      BY <2>1, <3>1
  <2>. QED
    BY <1>1, <1>4, <2>1, <2>2 DEF Down, Begin
<1>5. CASE Promote(c)
  <2>1. Moves(c) /\ cmd'[c].kind = "restart"
    BY <1>5, PromoteMoves
  <2>2. ~Up(c) /\ ~ServePair(c) /\ ~Down(c)
    <3>1. Up(c) => cmd'[c].kind = "up"
      BY <1>1, UpMoves DEF Command
    <3>2. ServePair(c) => cmd'[c].kind = "gate"
      BY <1>1, ServePairMoves DEF Command
    <3>3. Down(c) => cmd'[c].kind = "down"
      BY <1>1, DownMoves DEF Command
    <3>. QED
      BY <2>1, <3>1, <3>2, <3>3
  <2>3. Begin(c, "restart") /\ UNCHANGED <<procs, stateFile, openRuns>>
    BY <1>5 DEF Promote
  <2>. QED
    BY <1>1, <1>5, <2>1, <2>2, <2>3 DEF Begin
<1>. QED
  BY <1>2, <1>3, <1>4, <1>5

\* Every step keeps the history of overlaps and faults.
LEMMA OverlapsStep ==
  ASSUME Shape, OverlapsOK, [Next]_vars
  PROVE  OverlapsOK' /\ overlaps \subseteq overlaps' /\ past \subseteq past'
<1>1. ASSUME NEW c \in Cmds, Up(c) \/ ServePair(c) \/ Down(c) \/ Promote(c)
      PROVE  OverlapsOK' /\ overlaps \subseteq overlaps' /\ past \subseteq past'
  <2>. DEFINE l == cmd'[c]
  <2>1. /\ Moves(c) /\ cmd[c].kind = "none"
        /\ overlaps' = overlaps \cup {{l.kind, cmd[d].kind} : d \in Busy}
        /\ l.kind = "gate" => ServePair(c)
        /\ l.kind = "up" => Up(c)
        /\ past' = past /\ kills' = kills
    BY <1>1, BeginsKind
  <2>2. \A d \in Cmds \ {c} : cmd'[d] = cmd[d]
    BY <2>1 DEF Moves
  <2>3. ASSUME NEW d \in Busy', NEW e \in Busy', d # e PROVE {cmd'[d].kind, cmd'[e].kind} \in overlaps'
    <3>1. d \in Cmds /\ e \in Cmds /\ cmd'[d].kind # "none" /\ cmd'[e].kind # "none"
      BY <2>3 DEF Busy
    <3>2. CASE d # c /\ e # c
      BY <2>1, <2>2, <2>3, <3>1, <3>2 DEF Busy, OverlapsOK
    <3>3. CASE d = c /\ e # c
      <4>1. e \in Busy /\ cmd'[e] = cmd[e]
        BY <2>2, <3>1, <3>3 DEF Busy
      <4>2. {cmd'[d].kind, cmd'[e].kind} = {l.kind, cmd[e].kind}
        BY <3>3, <4>1
      <4>3. {l.kind, cmd[e].kind} \in {{l.kind, cmd[f].kind} : f \in Busy}
        BY <4>1
      <4>. QED
        BY <2>1, <4>2, <4>3, Zenon
    <3>4. CASE e = c /\ d # c
      <4>1. d \in Busy /\ cmd'[d] = cmd[d]
        BY <2>2, <3>1, <3>4 DEF Busy
      <4>2. {cmd'[d].kind, cmd'[e].kind} = {l.kind, cmd[d].kind}
        BY <3>4, <4>1
      <4>3. {l.kind, cmd[d].kind} \in {{l.kind, cmd[f].kind} : f \in Busy}
        BY <4>1
      <4>. QED
        BY <2>1, <4>2, <4>3, Zenon
    <3>. QED
      BY <2>3, <3>2, <3>3, <3>4
  <2>4. ASSUME NEW d \in Cmds, NEW e \in Cmds, cmd'[d].kind = "gate", cmd'[e].kind = "gate" PROVE d = e
    <3>1. l.kind = "gate" => \A f \in Cmds : cmd[f].kind # "gate"
      BY <2>1 DEF ServePair, Busy
    <3>2. CASE d # c /\ e # c
      BY <2>2, <2>4, <3>2 DEF OverlapsOK
    <3>3. CASE d = c \/ e = c
      BY <2>2, <2>4, <3>1, <3>3
    <3>. QED
      BY <3>2, <3>3
  <2>5. ASSUME NEW d \in Cmds, cmd'[d].kind = "up", cmd'[d].pc = "stop" PROVE "upFailed" \in past'
    <3>1. CASE d = c
      <4>1. l = [Idle EXCEPT !.kind = "up", !.at = 1, !.pc = "pick", !.taken = {GatewayPort}]
        BY <2>1, <2>5, <3>1, UpMoves
      <4>2. Idle \in Command
        BY IdleIsOK DEF CommandOK
      <4>. QED
        BY <2>5, <3>1, <4>1, <4>2 DEF Command
    <3>2. CASE d # c
      BY <2>1, <2>2, <2>5, <3>2 DEF OverlapsOK
    <3>. QED
      BY <3>1, <3>2
  <2>. QED
    BY <2>1, <2>3, <2>4, <2>5 DEF OverlapsOK
<1>2. ASSUME NEW c \in Cmds, Run(c) \/ Kill(c)
      PROVE  OverlapsOK' /\ overlaps \subseteq overlaps' /\ past \subseteq past'
  <2>1. Moves(c) /\ cmd'[c].kind \in {cmd[c].kind, "none"}
        /\ (cmd'[c].pc = "stop" => Fail(c) \/ Evaluated(c) \/ StopLast(c))
    BY <1>2, RunShape, Places
  <2>2. \A d \in Cmds \ {c} : cmd'[d] = cmd[d]
    BY <2>1 DEF Moves
  <2>3. overlaps' = overlaps /\ past \subseteq past' /\ (kills' = kills \/ "killed" \in past')
    BY <1>2 DEF Run, Kill, Fault, Pick, Start, Truncate, Write, WaitReady, CloseRuns, OpenRun, Fail, Evaluated, StopLast, Unlink,
      ReadState, Launch, StopOld, StartNew, RestartFails
  <2>4. \A d \in Cmds : cmd'[d].kind \in {cmd[d].kind, "none"}
    BY <2>1, <2>2
  <2>5. \A d, e \in Busy' : d # e => {cmd'[d].kind, cmd'[e].kind} \in overlaps'
    BY <2>3, <2>4 DEF Busy, OverlapsOK
  <2>6. \A d, e \in Cmds : cmd'[d].kind = "gate" /\ cmd'[e].kind = "gate" => d = e
    BY <2>4 DEF OverlapsOK
  <2>7. ASSUME NEW d \in Cmds, cmd'[d].kind = "up", cmd'[d].pc = "stop" PROVE "upFailed" \in past'
    <3>1. CASE d # c
      BY <2>2, <2>3, <2>7, <3>1 DEF OverlapsOK
    <3>2. CASE d = c
      <4>1. cmd[c].kind = "up" /\ cmd[c] \in Command /\ PlaceOK(cmd[c])
        BY <2>1, <2>7, <3>2 DEF Shape, CommandOK
      <4>2. CASE Fail(c)
        BY <4>1, <4>2 DEF Fail, Fault
      <4>3. CASE Evaluated(c)
        BY <4>1, <4>3, Steps DEF Evaluated
      <4>4. CASE StopLast(c)
        BY <2>3, <4>1, <4>4 DEF StopLast, OverlapsOK
      <4>. QED
        BY <2>1, <2>7, <3>2, <4>2, <4>3, <4>4
    <3>. QED
      BY <3>1, <3>2
  <2>. QED
    BY <2>3, <2>5, <2>6, <2>7 DEF OverlapsOK
<1>3. ASSUME NEW pid \in DOMAIN procs, Bind(pid) \/ Exit(pid)
      PROVE  OverlapsOK' /\ overlaps \subseteq overlaps' /\ past \subseteq past'
  <2>1. cmd' = cmd /\ overlaps' = overlaps /\ past' = past /\ kills' = kills
    BY <1>3 DEF Bind, Exit
  <2>. QED
    BY <2>1 DEF OverlapsOK, Busy
<1>4. ASSUME UNCHANGED vars PROVE OverlapsOK' /\ overlaps \subseteq overlaps' /\ past \subseteq past'
  BY <1>4 DEF vars, OverlapsOK, Busy
<1>. QED
  BY <1>1, <1>2, <1>3, <1>4 DEF Next

\* Two commands of these kinds run at the same time only if that is told.
LEMMA Alone ==
  ASSUME OverlapsOK, NEW ks, Apart(ks), NEW c \in Cmds, NEW d \in Cmds,
         cmd[c].kind \in ks, cmd[d].kind \in ks, cmd[c].kind # "none", cmd[d].kind # "none"
  PROVE  c = d
<1>1. ASSUME c # d PROVE FALSE
  <2>1. {cmd[c].kind, cmd[d].kind} \in overlaps
    BY <1>1 DEF OverlapsOK, Busy
  <2>2. {cmd[c].kind, cmd[d].kind} \subseteq ks
    OBVIOUS
  <2>. QED
    BY <2>1, <2>2 DEF Apart
<1>. QED
  BY <1>1

\* While ups run one at a time, a model has one open run at most, and none between
\* the two statements of engine_started.
RunsOK ==
  Apart({"up"}) =>
    /\ \A m \in Model : openRuns[m] <= 1
    /\ \A c \in Cmds : cmd[c].pc = "openRun" => openRuns[ServiceOf(cmd[c])] = 0

\* Every step keeps what is known of the open runs.
LEMMA RunsStep ==
  ASSUME Shape, Shape', OverlapsOK, OverlapsOK', overlaps \subseteq overlaps', RunsOK, [Next]_vars
  PROVE  RunsOK'
<1>. SUFFICES ASSUME Apart({"up"})'
              PROVE  (\A m \in Model : openRuns'[m] <= 1)
                     /\ \A d \in Cmds : cmd'[d].pc = "openRun" => openRuns'[ServiceOf(cmd'[d])] = 0
  BY DEF RunsOK
<1>. DEFINE Wanted == (\A m \in Model : openRuns'[m] <= 1)
                      /\ \A d \in Cmds : cmd'[d].pc = "openRun" => openRuns'[ServiceOf(cmd'[d])] = 0
<1>1. Apart({"up"})
  BY DEF Apart
<1>2. /\ \A m \in Model : openRuns[m] <= 1 /\ openRuns[m] \in Nat
      /\ \A d \in Cmds : cmd[d].pc = "openRun" => openRuns[ServiceOf(cmd[d])] = 0
  BY <1>1 DEF RunsOK, Shape, CountsOK
<1>3. ASSUME NEW d \in Cmds, cmd[d].pc = "openRun" PROVE cmd[d].kind = "up" /\ ServiceOf(cmd[d]) \in Model
  BY <1>3, Steps DEF Shape, CommandOK
<1>4. ASSUME NEW c \in Cmds, Up(c) \/ ServePair(c) \/ Down(c) \/ Promote(c) PROVE Wanted
  <2>1. openRuns' = openRuns /\ Moves(c) /\ cmd'[c].kind # "none"
    BY <1>4, BeginsKind
  <2>2. cmd'[c].pc # "openRun"
    <3>1. Idle \in Command
      BY IdleIsOK DEF CommandOK
    <3>2. CASE Up(c)
      BY <3>1, <3>2, UpMoves DEF Command
    <3>3. CASE ServePair(c)
      BY <3>1, <3>3, ServePairMoves DEF Command
    <3>4. CASE Down(c)
      BY <3>1, <3>4, DownMoves DEF Command
    <3>5. CASE Promote(c)
      BY <3>5, PromoteMoves
    <3>. QED
      BY <1>4, <3>2, <3>3, <3>4, <3>5
  <2>. QED
    BY <1>2, <2>1, <2>2 DEF Moves
<1>5. ASSUME NEW c \in Cmds, Run(c) \/ Kill(c) PROVE Wanted
  <2>1. Moves(c) /\ (cmd'[c].pc = "openRun" => CloseRuns(c))
    BY <1>5, RunShape, Places
  <2>2. \A d \in Cmds \ {c} : cmd'[d] = cmd[d]
    BY <2>1 DEF Moves
  <2>3. cmd[c] \in Command /\ openRuns \in [Model -> Nat] /\ Current(c) = ServiceOf(cmd[c])
    BY Same DEF Shape, CountsOK
  <2>4. CASE CloseRuns(c)
    <3>1. cmd'[c] = [cmd[c] EXCEPT !.pc = "openRun"] /\ cmd[c].kind = "up"
      BY <2>4, CloseRunsMoves
    <3>2. cmd'[c].kind = cmd[c].kind /\ cmd'[c].at = cmd[c].at
      BY <2>3, <3>1 DEF Command
    <3>3. ServiceOf(cmd'[c]) = ServiceOf(cmd[c])
      BY <3>2, SamePlace
    <3>4. openRuns' = [openRuns EXCEPT ![ServiceOf(cmd[c])] = 0] /\ ServiceOf(cmd[c]) \in Model
      BY <2>3, <2>4, CloseRunsMoves DEF CloseRuns
    <3>5. \A d \in Cmds \ {c} : cmd[d].pc # "openRun"
      BY <1>1, <1>3, <3>1, Alone
    <3>. QED
      BY <1>2, <2>2, <2>3, <3>3, <3>4, <3>5
  <2>5. CASE OpenRun(c)
    <3>1. cmd[c].kind = "up" /\ ServiceOf(cmd[c]) \in Model /\ cmd[c].pc = "openRun"
          /\ openRuns' = [openRuns EXCEPT ![ServiceOf(cmd[c])] = @ + 1]
      BY <2>3, <2>5, OpenRunMoves DEF OpenRun
    <3>2. \A d \in Cmds \ {c} : cmd[d].pc # "openRun"
      BY <1>1, <1>3, <3>1, Alone
    <3>3. cmd'[c].pc # "openRun"
      <4>1. ~CloseRuns(c)
        BY <3>1 DEF CloseRuns
      <4>. QED
        BY <2>1, <4>1
    <3>4. \A m \in Model : openRuns'[m] <= 1
      BY <1>2, <2>3, <3>1
    <3>. QED
      BY <2>2, <3>2, <3>3, <3>4
  <2>6. CASE StopLast(c)
    <3>1. \A m \in Model : openRuns'[m] \in {0, openRuns[m]}
      BY <2>6 DEF StopLast
    <3>2. cmd'[c].pc # "openRun"
      <4>1. ~CloseRuns(c)
        BY <2>6 DEF CloseRuns, StopLast
      <4>. QED
        BY <2>1, <4>1
    <3>. QED
      BY <1>2, <1>3, <2>2, <3>1, <3>2
  <2>7. CASE ~CloseRuns(c) /\ ~OpenRun(c) /\ ~StopLast(c)
    <3>1. openRuns' = openRuns
      BY <1>5, <2>7 DEF Run, Kill, Pick, Start, Truncate, Write, WaitReady, Fail, Evaluated, Unlink,
        ReadState, Launch, StopOld, StartNew, RestartFails
    <3>. QED
      BY <1>2, <2>1, <2>2, <2>7, <3>1
  <2>. QED
    BY <2>4, <2>5, <2>6, <2>7
<1>6. ASSUME NEW pid \in DOMAIN procs, Bind(pid) \/ Exit(pid) PROVE Wanted
  <2>1. cmd' = cmd /\ openRuns' = openRuns
    BY <1>6 DEF Bind, Exit
  <2>. QED
    BY <1>2, <2>1
<1>7. ASSUME UNCHANGED vars PROVE Wanted
  BY <1>2, <1>7 DEF vars
<1>. QED
  BY <1>4, <1>5, <1>6, <1>7 DEF Next

-----------------------------------------------------------------------------
(* What the list of a command says about the file                          *)

\* Every process of the file that runs is in the list; one service of the list, at
\* most, is not in the file.
Kept(list)  == \A s \in ToSet(stateFile) : Alive(s.pid) => s \in ToSet(list)
Ahead(list) == \A s, t \in ToSet(list) : s \notin ToSet(stateFile) /\ t \notin ToSet(stateFile) => s = t

\* The list of a command of the platform, when no other one writes the file.
Tracked(k) ==
  /\ ~(k.kind = "restart" /\ k.pc = "read") => Kept(k.mine) /\ Ahead(k.mine)
  /\ k.kind = "up" /\ k.pc \notin {"write", "rewrite", "stop"} => k.mine \in {stateFile, << >>}
  /\ k.kind = "down" => ToSet(k.mine) \subseteq ToSet(stateFile)
  /\ k.kind = "restart" /\ k.pc \notin {"read", "write", "rewrite"} => k.mine = stateFile
  /\ k.kind = "restart" /\ k.pc \in {"write", "rewrite"} => Names(k.mine) = Names(stateFile)
  /\ k.kind = "restart" /\ k.pc = "start" => ~Alive(EntryOf(k).pid)

\* No command of the platform ran at the same time as one of this kind.
NoneBeside(kind) == \A o \in overlaps : kind \in o => ~(o \subseteq Platform)

TrackedOK == \A c \in Cmds : cmd[c].kind \in Platform /\ NoneBeside(cmd[c].kind) => Tracked(cmd[c])

\* The file that such a command has emptied is still its own, and empty.
OpenOK == \A c \in Cmds : cmd[c].pc = "rewrite" /\ NoneBeside(cmd[c].kind) =>
            c \in file.open /\ file.text = "empty"

\* Where nothing overlapped, the command of the platform is the only one.
LEMMA NobodyBeside ==
  ASSUME OverlapsOK, NEW c \in Cmds, NEW d \in Cmds, c # d, cmd[c].kind \in Platform, NoneBeside(cmd[c].kind)
  PROVE  cmd[d].kind \notin Platform
<1>1. SUFFICES ASSUME cmd[d].kind \in Platform PROVE FALSE
  OBVIOUS
<1>2. {cmd[c].kind, cmd[d].kind} \in overlaps
  BY <1>1 DEF OverlapsOK, Busy, Platform
<1>3. {cmd[c].kind, cmd[d].kind} \subseteq Platform
  BY <1>1
<1>. QED
  BY <1>2, <1>3 DEF NoneBeside

\* A process that has ended stays so.
LEMMA StaysDead ==
  ASSUME Shape, Grows, NEW s, Entry(s)
  PROVE  /\ ~Alive(s.pid) => ~Alive(s.pid)'
         /\ Alive(s.pid)' => Alive(s.pid)
BY DEF Grows, Entry, Alive

\* A step of somebody else, who leaves the file alone.
LEMMA TrackedStays ==
  ASSUME Shape, Grows, stateFile' = stateFile, NEW k, CommandOK(k), \A s \in ToSet(k.mine) : Entry(s), Tracked(k)
  PROVE  Tracked(k)'
<1>1. \A s : Entry(s) /\ ~Alive(s.pid) => ~Alive(s.pid)'
  BY StaysDead
<1>2. \A s \in ToSet(stateFile) : Entry(s)
  BY DEF Shape
<1>3. Kept(k.mine) => Kept(k.mine)'
  BY <1>1, <1>2 DEF Kept
<1>4. Ahead(k.mine) => Ahead(k.mine)'
  BY DEF Ahead
<1>5. k.kind = "restart" /\ k.pc = "start" => ~Alive(EntryOf(k).pid)'
  <2>. SUFFICES ASSUME k.kind = "restart", k.pc = "start" PROVE ~Alive(EntryOf(k).pid)'
    OBVIOUS
  <2>1. EntryOf(k) \in ToSet(k.mine)
    BY TheService DEF EntryOf, CommandOK, MineOK, ListOK
  <2>2. ~Alive(EntryOf(k).pid)
    BY DEF Tracked
  <2>. QED
    BY <1>1, <2>1, <2>2
<1>. QED
  BY <1>3, <1>4, <1>5 DEF Tracked

\* A list that is the file's, or empty when nothing of the file runs.
LEMMA FileTracked ==
  ASSUME NEW list, list = stateFile
  PROVE  Kept(list) /\ Ahead(list)
BY DEF Kept, Ahead

\* A command that begins keeps track of the services.
LEMMA BeginTracked ==
  ASSUME Shape, NEW c \in Cmds, Up(c) \/ Down(c) \/ Promote(c), NEW k, k = cmd'[c]
  PROVE  Tracked(k)'
<1>1. Idle \in Command /\ Idle.mine = << >> /\ procs' = procs /\ stateFile' = stateFile
  BY IdleIsOK, BeginsKind DEF CommandOK, Idle
<1>2. CASE Up(c)
  <2>1. k.kind = "up" /\ k.pc = "pick" /\ k.mine = << >>
    BY <1>1, <1>2, UpMoves DEF Command
  <2>2. \A s \in ToSet(stateFile) : ~Alive(s.pid)
    BY <1>2 DEF Up
  <2>. QED
    BY <1>1, <2>1, <2>2, EmptyList DEF Tracked, Kept, Ahead, Alive
<1>3. CASE Down(c)
  <2>1. k.kind = "down" /\ k.pc = "stop" /\ k.mine = stateFile
    BY <1>1, <1>3, DownMoves DEF Command
  <2>. QED
    BY <1>1, <2>1, FileTracked DEF Tracked, Kept, Ahead
<1>4. CASE Promote(c)
  <2>1. k.kind = "restart" /\ k.pc = "read"
    BY <1>4, PromoteMoves
  <2>. QED
    BY <2>1 DEF Tracked
<1>. QED
  BY <1>2, <1>3, <1>4

\* A step of the command itself.
LEMMA RunTracked ==
  ASSUME Shape, NEW c \in Cmds, Run(c) \/ Kill(c), cmd[c].kind \in Platform, Tracked(cmd[c]),
         cmd[c].pc = "rewrite" => c \in file.open,
         NEW l, l = cmd'[c], l.kind \in Platform
  PROVE  Tracked(l)'
<1>. DEFINE k == cmd[c]
<1>1. /\ k \in Command /\ PlaceOK(k) /\ MineOK(k) /\ Shape' /\ Grows /\ l.kind = k.kind
      /\ \A s \in ToSet(k.mine) \cup ToSet(stateFile) : Entry(s)
  BY RunShape, Places DEF Shape, CommandOK, Platform
<1>2. \A s : Entry(s) /\ ~Alive(s.pid) => ~Alive(s.pid)'
  BY <1>1, StaysDead
<1>3. \A s : Entry(s) /\ Alive(s.pid)' => Alive(s.pid)
  BY <1>1, StaysDead
<1>4. k.kind \in {"up", "down", "restart"} /\ l # Idle
  BY <1>1 DEF Platform, Idle
<1>5. CASE Write(c)
  <2>1. stateFile' = k.mine
    BY <1>5 DEF Write
  <2>2. l.mine = k.mine /\ l.pc \notin {"write", "rewrite", "read", "stop", "start"}
    <3>1. l = FollowingOf(k) \/ l = [k EXCEPT !.pc = "wait"]
      BY <1>5, WriteMoves
    <3>2. k.kind \in {"up", "restart"}
      BY <1>5, WriteMoves
    <3>. QED
      BY <1>1, <1>4, <3>1, <3>2, FollowingFields, FollowingPlace, SMTT(40) DEF Command, PlaceOK
  <2>3. l.kind # "down"
    BY <1>1, <1>5, WriteMoves
  <2>. QED
    BY <2>1, <2>2, <2>3 DEF Tracked, Kept, Ahead
<1>6. CASE ~Write(c)
  <2>1. stateFile' = stateFile
    BY <1>1, <1>4, <1>6, Ends DEF Run, Kill, Pick, Start, Truncate, WaitReady, CloseRuns, OpenRun, Fail, Evaluated, StopLast, Unlink,
      ReadState, Launch, StopOld, StartNew, RestartFails
  <2>2. Kept(l.mine) => Kept(l.mine)'
    BY <1>1, <1>3, <2>1 DEF Kept
  <2>3. Ahead(l.mine) => Ahead(l.mine)'
    BY <2>1 DEF Ahead
  <2>4. CASE Pick(c)
    <3>1. k.pc = "pick" /\ k.kind = "up"
      BY <1>1, <1>4, <2>4, Steps DEF Pick
    <3>2. l.mine = k.mine /\ l.pc = "start"
      BY <1>1, <2>4, PickMoves DEF Command
    <3>. QED
      BY <1>1, <2>1, <2>2, <2>3, <3>1, <3>2 DEF Tracked
  <2>5. CASE Start(c)
    <3>1. k.pc = "start" /\ k.kind = "up"
      BY <1>1, <1>4, <2>5, Steps DEF Start
    <3>. DEFINE s == NewService(c)
    <3>2. l = [k EXCEPT !.mine = Append(@, s), !.pc = "write"] /\ s \in Service /\ s.svc \notin Names(k.mine)
      BY <2>5, <3>1, StartMoves
    <3>. HIDE DEF s
    <3>3. l.pc = "write" /\ ToSet(l.mine) = ToSet(k.mine) \cup {s}
      BY <1>1, <3>2, Appended DEF Command, MineOK
    <3>4. k.mine = stateFile \/ k.mine = << >>
      BY <3>1 DEF Tracked
    <3>5. Kept(l.mine)'
      BY <1>1, <1>3, <2>1, <3>1, <3>3 DEF Tracked, Kept
    <3>6. Ahead(l.mine)'
      BY <2>1, <3>3, <3>4, EmptyList DEF Ahead
    <3>. QED
      BY <1>1, <3>1, <3>3, <3>5, <3>6 DEF Tracked
  <2>6. CASE WaitReady(c) \/ CloseRuns(c) \/ OpenRun(c)
    <3>1. l.mine = k.mine /\ k.kind = "up" /\ k.pc \notin {"write", "rewrite", "stop"}
      <4>1. CASE WaitReady(c)
        <5>1. k.pc = "wait" /\ k.kind = "up"
          <6>1. k.pc = "wait" /\ (k.kind = "restart" => l = Idle)
            BY <4>1, WaitReadyMoves DEF WaitReady
          <6>. QED
            BY <1>1, <1>4, <6>1, Steps
        <5>2. l \in {[k EXCEPT !.pc = "closeRuns"], FollowingOf(k)}
          BY <4>1, <5>1, WaitReadyMoves
        <5>. QED
          BY <1>1, <1>4, <5>1, <5>2, FollowingFields DEF Command
      <4>2. CASE CloseRuns(c)
        BY <1>1, <4>2, CloseRunsMoves DEF Command, CloseRuns
      <4>3. CASE OpenRun(c)
        BY <1>1, <1>4, <4>3, OpenRunMoves, FollowingFields, ZenonT(60) DEF OpenRun
      <4>. QED
        BY <2>6, <4>1, <4>2, <4>3
    <3>. QED
      BY <1>1, <2>1, <2>2, <2>3, <3>1 DEF Tracked
  <2>7. CASE Fail(c) \/ Evaluated(c)
    <3>1. k.kind = "up" /\ k.pc # "stop" /\ Step(c, "stop")
      BY <1>1, <1>4, <2>7, Steps DEF Fail, Evaluated
    <3>2. l.mine = k.mine /\ l.pc = "stop"
      BY <1>1, <3>1, StopMoves DEF Command
    <3>. QED
      BY <1>1, <2>2, <2>3, <3>1, <3>2 DEF Tracked
  <2>8. CASE StopLast(c)
    <3>1. l = [k EXCEPT !.mine = Front(@)] /\ k.pc = "stop" /\ k.mine # << >> /\ k.kind \in {"up", "down"}
          /\ procs' = Stopped({Last(k.mine).pid})
      BY <1>1, <1>4, <2>8, StopLastMoves, Steps DEF StopLast
    <3>2. l.mine = Front(k.mine) /\ l.pc = "stop" /\ ToSet(l.mine) = ToSet(k.mine) \ {Last(k.mine)}
          /\ Last(k.mine) \in ToSet(k.mine)
      BY <1>1, <3>1, Shortened DEF Command, MineOK
    <3>3. Last(k.mine).pid \in DOMAIN procs /\ procs'[Last(k.mine).pid].st = "exited"
      BY <1>1, <3>1, <3>2, StoppedGrows DEF Entry
    <3>4. Kept(k.mine) /\ Ahead(k.mine)
      BY <3>1 DEF Tracked
    <3>5. Kept(l.mine)'
      <4>. SUFFICES ASSUME NEW s \in ToSet(stateFile), Alive(s.pid)' PROVE s \in ToSet(l.mine)
        BY <2>1 DEF Kept
      <4>1. s \in ToSet(k.mine)
        BY <1>1, <1>3, <3>4 DEF Kept
      <4>2. s # Last(k.mine)
        BY <3>3 DEF Alive
      <4>. QED
        BY <3>2, <4>1, <4>2
    <3>6. Ahead(l.mine)'
      BY <2>1, <3>2, <3>4 DEF Ahead
    <3>. QED
      BY <1>1, <2>1, <3>1, <3>2, <3>5, <3>6 DEF Tracked
  <2>9. CASE ReadState(c)
    <3>1. l = [k EXCEPT !.pc = "launch", !.mine = stateFile] /\ k.kind = "restart"
      BY <1>4, <2>9, ReadStateMoves
    <3>2. l.mine = stateFile /\ l.pc = "launch"
      BY <1>1, <3>1 DEF Command
    <3>. QED
      BY <1>1, <2>1, <3>1, <3>2, FileTracked DEF Tracked, Kept, Ahead
  <2>10. CASE Launch(c)
    <3>1. k.kind = "restart" /\ k.pc = "launch" /\ l.pc = "swap" /\ l.mine = k.mine
      <4>. DEFINE p == EntryOf(k).port
                  a == live[ServiceOf(k)]
      <4>1. l = [k EXCEPT !.pc = "swap", !.port = p, !.adapter = a]
        BY <2>10, LaunchMoves
      <4>. HIDE DEF p, a
      <4>2. k.kind = "restart" /\ k.pc = "launch"
        BY <2>10, LaunchMoves DEF Launch
      <4>. QED
        BY <1>1, <4>1, <4>2 DEF Command
    <3>. QED
      BY <1>1, <2>1, <2>2, <2>3, <3>1 DEF Tracked
  <2>11. CASE StopOld(c)
    <3>1. /\ k.kind = "restart" /\ k.pc = "swap" /\ l.pc = "start" /\ l.mine = k.mine /\ l.at = k.at
          /\ EntryOf(k) \in ToSet(k.mine) /\ procs' = Stopped({EntryOf(k).pid})
      BY <1>1, <2>11, StopOldMoves DEF StopOld, Command
    <3>2. EntryOf(l) = EntryOf(k)
      BY <1>1, <3>1, SamePlace
    <3>3. ~Alive(EntryOf(l).pid)'
      BY <1>1, <3>1, <3>2, StoppedGrows DEF Entry, Alive
    <3>. QED
      BY <1>1, <2>1, <2>2, <2>3, <3>1, <3>3 DEF Tracked
  <2>12. CASE StartNew(c)
    <3>. DEFINE e == EntryOf(k)
                new == [e EXCEPT !.pid = Len(procs) + 1]
                mine == [i \in DOMAIN k.mine |-> IF k.mine[i] = e THEN new ELSE k.mine[i]]
    <3>1. /\ l = [k EXCEPT !.pc = "write", !.mine = mine] /\ k.kind = "restart" /\ k.pc = "start"
          /\ e \in ToSet(k.mine) /\ e.svc = ServiceOf(k) /\ new = NewService(c)
          /\ ToSet(mine) = (ToSet(k.mine) \ {e}) \cup {new}
      BY <2>12, StartNewMoves DEF StartNew
    <3>2. new.svc = e.svc
      BY <3>1 DEF NewService
    <3>. HIDE DEF mine, new
    <3>3. l.mine = mine /\ l.pc = "write"
      BY <1>1, <3>1 DEF Command
    <3>4. k.mine = stateFile /\ ~Alive(e.pid)
      BY <3>1 DEF Tracked
    <3>5. Kept(l.mine)'
      <4>. SUFFICES ASSUME NEW s \in ToSet(stateFile), Alive(s.pid)' PROVE s \in ToSet(l.mine)
        BY <2>1 DEF Kept
      <4>1. Alive(s.pid) /\ s \in ToSet(k.mine)
        BY <1>1, <1>3, <3>4
      <4>. QED
        BY <3>1, <3>3, <3>4, <4>1
    <3>6. Ahead(l.mine)'
      BY <2>1, <3>1, <3>3, <3>4 DEF Ahead
    <3>7. Names(l.mine) = Names(stateFile)
      BY <3>1, <3>2, <3>3, <3>4 DEF Names
    <3>. QED
      BY <1>1, <2>1, <3>1, <3>3, <3>5, <3>6, <3>7 DEF Tracked
  <2>14. CASE Truncate(c)
    <3>1. l.mine = k.mine /\ l.pc = "rewrite" /\ k.pc = "write" /\ k.kind \in {"up", "restart"}
      BY <1>1, <2>14, TruncateMoves DEF Command
    <3>. QED
      BY <1>1, <2>1, <2>2, <2>3, <3>1 DEF Tracked
  <2>13. CASE Unlink(c) \/ RestartFails(c) \/ Kill(c)
    <3>1. cmd' = [cmd EXCEPT ![c] = Idle]
      BY <2>13 DEF RestartFails, Kill, Unlink
    <3>. QED
      BY <1>4, <3>1, Ends
  <2>. QED
    BY <1>6, <2>4, <2>5, <2>6, <2>7, <2>8, <2>9, <2>10, <2>11, <2>12, <2>13, <2>14 DEF Run
<1>. QED
  BY <1>5, <1>6

\* Every step keeps track of the services, where nothing overlapped.
LEMMA TrackedStep ==
  ASSUME Shape, Shape', Grows, OverlapsOK, OverlapsOK', overlaps \subseteq overlaps', TrackedOK, OpenOK, [Next]_vars
  PROVE  TrackedOK'
<1>. SUFFICES ASSUME NEW d \in Cmds, NEW l, l = cmd'[d], l.kind \in Platform, NoneBeside(l.kind)'
              PROVE  Tracked(l)'
  <2>1. \A d \in Cmds : \A l : l = cmd'[d] => cmd'[d] = l
    OBVIOUS
  <2>2. ASSUME \A d \in Cmds : \A l : l = cmd'[d] /\ l.kind \in Platform /\ NoneBeside(l.kind)' => Tracked(l)'
        PROVE  TrackedOK'
    BY <2>2 DEF TrackedOK
  <2>. QED
    BY <2>2
<1>1. NoneBeside(l.kind)
  BY DEF NoneBeside
<1>2. ASSUME cmd[d] = l PROVE Tracked(l) /\ CommandOK(l) /\ \A s \in ToSet(l.mine) : Entry(s)
  BY <1>1, <1>2 DEF TrackedOK, Shape
<1>3. ASSUME cmd[d] = l, stateFile' = stateFile PROVE Tracked(l)'
  BY <1>2, <1>3, TrackedStays
<1>4. ASSUME NEW c \in Cmds, Up(c) \/ ServePair(c) \/ Down(c) \/ Promote(c) PROVE Tracked(l)'
  <2>1. Moves(c) /\ stateFile' = stateFile
    BY <1>4, BeginsKind
  <2>2. CASE d = c
    <3>1. ~ServePair(c)
      BY <2>2, <1>4, BeginsKind DEF Platform
    <3>. QED
      BY <1>4, <2>2, <3>1, BeginTracked
  <2>3. CASE d # c
    <3>1. cmd[d] = l
      BY <2>1, <2>3 DEF Moves
    <3>. QED
      BY <1>3, <2>1, <3>1
  <2>. QED
    BY <2>2, <2>3
<1>5. ASSUME NEW c \in Cmds, Run(c) \/ Kill(c) PROVE Tracked(l)'
  <2>1. Moves(c) /\ cmd'[c].kind \in {cmd[c].kind, "none"}
    BY <1>5, RunShape, Places
  <2>2. CASE d = c
    <3>1. cmd[c].kind = l.kind
      BY <2>1, <2>2 DEF Platform
    <3>2. Tracked(cmd[c]) /\ (cmd[c].pc = "rewrite" => c \in file.open)
      BY <1>1, <3>1 DEF TrackedOK, OpenOK
    <3>. QED
      BY <1>5, <2>2, <3>1, <3>2, RunTracked
  <2>3. CASE d # c
    <3>1. cmd[d] = l
      BY <2>1, <2>3 DEF Moves
    <3>2. cmd[c].kind \notin Platform
      BY <1>1, <2>3, <3>1, NobodyBeside
    <3>3. stateFile' = stateFile
      <4>1. CASE Write(c)
        BY <3>2, <4>1, WriteMoves DEF Platform
      <4>2. CASE Unlink(c)
        <5>1. cmd[c].kind = "gate"
          BY <3>2, <4>2, Steps DEF Platform, Unlink, Shape, CommandOK
        <5>. QED
          BY <4>2, <5>1 DEF Unlink
      <4>. QED
        BY <1>5, <4>1, <4>2 DEF Run, Kill, Pick, Start, Truncate, WaitReady, CloseRuns, OpenRun, Fail, Evaluated, StopLast,
          ReadState, Launch, StopOld, StartNew, RestartFails
    <3>. QED
      BY <1>3, <3>1, <3>3
  <2>. QED
    BY <2>2, <2>3
<1>6. ASSUME NEW pid \in DOMAIN procs, Bind(pid) \/ Exit(pid) PROVE Tracked(l)'
  <2>1. cmd' = cmd /\ stateFile' = stateFile
    BY <1>6, ProcessShape
  <2>. QED
    BY <1>3, <2>1
<1>7. ASSUME UNCHANGED vars PROVE Tracked(l)'
  BY <1>3, <1>7 DEF vars
<1>. QED
  BY <1>4, <1>5, <1>6, <1>7 DEF Next

-----------------------------------------------------------------------------
(* Lost processes                                                          *)

\* A running process that no list of a command names, nor the one that was last written,
\* whether the file can still be parsed or not.
Gone == {pid \in DOMAIN procs : Alive(pid) /\ \A c \in Cmds :
           \A s \in ToSet(stateFile) \cup ToSet(cmd[c].mine) : s.pid # pid}

\* A process is not lost by a step that keeps its entry in the file or in the list of the command.
LEMMA HeldStays ==
  ASSUME Shape, Grows, NEW c \in Cmds, Moves(c), NEW pid \in DOMAIN procs, pid \notin Gone, Alive(pid)',
         \A s \in ToSet(stateFile) \cup ToSet(cmd[c].mine) : s.pid = pid =>
           \E t \in ToSet(stateFile') \cup ToSet(cmd'[c].mine) : t.pid = pid
  PROVE  pid \notin Gone'
<1>1. Alive(pid)
  BY DEF Alive, Grows
<1>2. PICK d \in Cmds : \E s \in ToSet(stateFile) \cup ToSet(cmd[d].mine) : s.pid = pid
  BY <1>1 DEF Gone
<1>. PICK s \in ToSet(stateFile) \cup ToSet(cmd[d].mine) : s.pid = pid
  BY <1>2
<1>3. CASE d = c \/ s \in ToSet(stateFile)
  <2>1. \E t \in ToSet(stateFile') \cup ToSet(cmd'[c].mine) : t.pid = pid
    BY <1>2, <1>3
  <2>. QED
    BY <2>1 DEF Gone
<1>4. CASE d # c /\ s \in ToSet(cmd[d].mine)
  <2>1. cmd'[d] = cmd[d]
    BY <1>4 DEF Moves
  <2>. QED
    BY <1>2, <1>4, <2>1 DEF Gone
<1>. QED
  BY <1>2, <1>3, <1>4

\* A step that neither kills a command nor loses sight of a process: every process that
\* is lost after it, of a gate or while commands run one at a time, was lost before.
LEMMA RunLoses ==
  ASSUME Shape, TrackedOK, NEW c \in Cmds, Run(c), NEW pid \in Gone',
         procs'[pid].svc \in GateNames \/ Apart(Platform)
  PROVE  pid \in Gone
<1>. DEFINE k == cmd[c]
            l == cmd'[c]
<1>1. /\ k \in Command /\ PlaceOK(k) /\ MineOK(k) /\ Shape' /\ Grows /\ Moves(c)
      /\ \A s \in ToSet(k.mine) \cup ToSet(stateFile) : Entry(s)
  BY RunShape DEF Shape, CommandOK
<1>2. Alive(pid)' /\ pid \in DOMAIN procs' /\ \A s \in ToSet(stateFile') \cup ToSet(l.mine) : s.pid # pid
  BY DEF Gone
<1>3. SUFFICES ASSUME pid \notin Gone PROVE FALSE
  OBVIOUS
<1>4. \A s \in ToSet(stateFile) : s.pid = pid => Apart(Platform)
  <2>. SUFFICES ASSUME NEW s \in ToSet(stateFile), s.pid = pid, procs'[pid].svc \in GateNames PROVE FALSE
    OBVIOUS
  <2>1. s.svc \in UpNames /\ procs'[pid].svc = s.svc
    BY <1>1 DEF Shape, Entry, Names, Grows
  <2>. QED
    BY <2>1, Plans
<1>5. k.kind \in Platform /\ Apart(Platform) => Tracked(k)
  BY DEF TrackedOK, NoneBeside, Apart
<1>6. pid \in DOMAIN procs => ~\A s \in ToSet(stateFile) \cup ToSet(k.mine) : s.pid = pid =>
           \E t \in ToSet(stateFile') \cup ToSet(l.mine) : t.pid = pid
  BY <1>1, <1>2, <1>3, HeldStays
<1>7. pid \in DOMAIN procs => Alive(pid)
  BY <1>1, <1>2 DEF Alive, Grows
<1>8. Idle.mine = << >> /\ ToSet(<< >>) = {}
  BY EmptyList DEF Idle
<1>9. \A s \in ToSet(k.mine) : s.pid = pid => k.kind = "gate" \/ Apart(Platform)
  <2>. SUFFICES ASSUME NEW s \in ToSet(k.mine), s.pid = pid, procs'[pid].svc \in GateNames PROVE k.kind = "gate"
    OBVIOUS
  <2>1. s.svc \in NamesOf(k.kind) /\ procs'[pid].svc = s.svc
    BY <1>1 DEF MineOK, Entry, Names, Grows
  <2>. QED
    BY <2>1, Plans DEF NamesOf
<1>15. CASE Write(c) /\ c \notin file.open
  <2>1. stateFile' = stateFile /\ procs' = procs
    BY <1>15 DEF Write
  <2>2. l.mine = k.mine
    <3>1. l = FollowingOf(k) \/ l = [k EXCEPT !.pc = "wait"]
      BY <1>15, WriteMoves
    <3>2. k.kind = "up" => l = FollowingOf(k) /\ k.at < Len(PlanFor(k.kind))
      BY <1>1, <1>15, WriteMoves, Steps, ItemFacts DEF Write
    <3>3. k.kind = "restart" => l = [k EXCEPT !.pc = "wait"]
      BY <1>15, WriteMoves
    <3>4. k.kind \in {"up", "restart"}
      BY <1>15, WriteMoves
    <3>. QED
      BY <1>1, <3>2, <3>3, <3>4, FollowingFields DEF Command
  <2>. QED
    BY <1>2, <1>6, <2>1, <2>2
<1>10. CASE Write(c) /\ c \in file.open
  <2>1. stateFile' = k.mine /\ procs' = procs /\ k.kind \in {"up", "restart"} /\ k.pc = "rewrite"
    BY <1>10, WriteMoves DEF Write
  <2>2. pid \in DOMAIN procs /\ Alive(pid)
    BY <1>2, <1>7, <2>1
  <2>3. ASSUME NEW s \in ToSet(stateFile), s.pid = pid PROVE s \in ToSet(k.mine)
    <3>1. Tracked(k)
      BY <1>4, <1>5, <2>1, <2>3 DEF Platform
    <3>. QED
      BY <2>1, <2>2, <2>3, <3>1 DEF Tracked, Kept
  <2>. QED
    BY <1>6, <2>1, <2>2, <2>3
<1>11. CASE Unlink(c)
  <2>1. l = Idle /\ procs' = procs /\ k.mine = << >> /\ k.pc = "stop"
    BY <1>11, Ends DEF Unlink
  <2>2. pid \in DOMAIN procs /\ Alive(pid)
    BY <1>2, <1>7, <2>1
  <2>3. CASE k.kind = "gate"
    BY <1>6, <1>8, <1>11, <2>1, <2>2, <2>3 DEF Unlink
  <2>4. CASE k.kind # "gate"
    <3>1. k.kind \in Platform /\ k.kind # "restart"
      BY <1>1, <2>1, <2>4, Steps DEF Platform
    <3>2. ASSUME NEW s \in ToSet(stateFile), s.pid = pid PROVE FALSE
      <4>1. Kept(<< >>)
        BY <1>4, <1>5, <2>1, <3>1, <3>2 DEF Tracked
      <4>. QED
        BY <1>8, <2>2, <3>2, <4>1 DEF Kept
    <3>. QED
      BY <1>6, <1>8, <2>1, <2>2, <3>2
  <2>. QED
    BY <2>3, <2>4
<1>12. CASE StopLast(c) \/ StopOld(c)
  <2>1. stateFile' = stateFile /\ DOMAIN procs' = DOMAIN procs
    BY <1>12, StoppedGrows DEF StopLast, StopOld
  <2>2. ASSUME NEW s \in ToSet(k.mine), s.pid = pid PROVE s \in ToSet(l.mine)
    <3>1. CASE StopLast(c)
      <4>1. l = [k EXCEPT !.mine = Front(@)] /\ k.mine # << >> /\ procs' = Stopped({Last(k.mine).pid})
        BY <3>1, StopLastMoves DEF StopLast
      <4>2. l.mine = Front(k.mine) /\ ToSet(Front(k.mine)) = ToSet(k.mine) \ {Last(k.mine)}
        BY <1>1, <4>1, Shortened DEF Command, MineOK
      <4>3. s # Last(k.mine)
        BY <1>1, <1>2, <2>1, <2>2, <4>1, StoppedGrows DEF Alive
      <4>. QED
        BY <4>2, <4>3
    <3>2. CASE StopOld(c)
      BY <1>1, <3>2, StopOldMoves DEF Command
    <3>. QED
      BY <1>12, <3>1, <3>2
  <2>. QED
    BY <1>2, <1>6, <2>1, <2>2
<1>13. CASE Start(c) \/ StartNew(c)
  <2>1. ServiceOf(k) \in STRING
    <3>1. k.kind \in {"up", "gate", "restart"}
      BY <1>1, <1>13, Steps DEF Start, StartNew
    <3>. QED
      BY <1>1, <3>1, ItemFacts DEF PlaceOK
  <2>2. DOMAIN procs' = DOMAIN procs \cup {Len(procs) + 1} /\ stateFile' = stateFile
    BY <1>13, <2>1, LaunchedGrows DEF Start, StartNew
  <2>3. NewService(c).pid = Len(procs) + 1
    BY DEF NewService
  <2>4. CASE Start(c)
    <3>. DEFINE s == NewService(c)
                K == [k EXCEPT !.mine = Append(@, s)]
    <3>1. s \in Service /\ s.svc \notin Names(k.mine) /\ ListOK(k.mine) /\ k.pc = "start" /\ k.kind # "restart"
      BY <1>1, <2>4, StartMoves DEF MineOK, Start
    <3>2. ToSet(Append(k.mine, s)) = ToSet(k.mine) \cup {s} /\ Append(k.mine, s) \in Seq(Service)
      BY <3>1, Appended DEF ListOK
    <3>3. K \in Command /\ K.mine = Append(k.mine, s) /\ K.kind = k.kind /\ K.at = k.at
      BY <1>1, <3>2 DEF Command
    <3>4. l.mine = Append(k.mine, s)
      <4>1. CASE k.kind = "up"
        BY <1>1, <2>4, <4>1, StartMoves DEF Command
      <4>2. CASE k.kind # "up"
        <5>1. l = FollowingOf(K) /\ k.kind = "gate"
          BY <2>4, <4>2, StartMoves
        <5>2. ~(k.at < Len(PlanFor(k.kind))) => l.kind = "gate"
          <6>1. k.at < Len(PlanFor(k.kind))
            BY <1>1, <3>1, Steps, ItemFacts
          <6>. QED
            BY <6>1
        <5>3. K.at < Len(PlanFor(K.kind)) /\ K.kind = "gate"
          BY <1>1, <3>1, <3>3, <5>1, Steps, ItemFacts
        <5>. HIDE DEF K
        <5>4. FollowingOf(K) # Idle
          BY <3>3, <5>3, FollowingFields
        <5>5. FollowingOf(K).mine = K.mine
          BY <3>3, <5>4, FollowingFields
        <5>. QED
          BY <3>3, <5>1, <5>5
      <4>. QED
        BY <4>1, <4>2
    <3>5. pid # Len(procs) + 1
      BY <1>2, <2>3, <3>2, <3>4
    <3>. QED
      BY <1>2, <1>6, <2>2, <3>2, <3>4, <3>5
  <2>5. CASE StartNew(c)
    <3>. DEFINE e == EntryOf(k)
                new == [e EXCEPT !.pid = Len(procs) + 1]
                mine == [i \in DOMAIN k.mine |-> IF k.mine[i] = e THEN new ELSE k.mine[i]]
    <3>1. /\ l = [k EXCEPT !.pc = "write", !.mine = mine] /\ k.kind = "restart" /\ k.pc = "start"
          /\ e \in ToSet(k.mine) /\ new = NewService(c) /\ ToSet(mine) = (ToSet(k.mine) \ {e}) \cup {new}
      BY <2>5, StartNewMoves DEF StartNew
    <3>. HIDE DEF mine, new
    <3>2. l.mine = mine
      BY <1>1, <3>1 DEF Command
    <3>3. pid \in DOMAIN procs
      BY <1>2, <2>2, <2>3, <3>1, <3>2
    <3>4. e.pid # pid
      <4>. SUFFICES ASSUME e.pid = pid PROVE FALSE
        OBVIOUS
      <4>1. Tracked(k)
        BY <1>5, <1>9, <3>1 DEF Platform
      <4>. QED
        BY <1>7, <3>1, <3>3, <4>1 DEF Tracked
    <3>. QED
      BY <1>6, <2>2, <3>1, <3>2, <3>3, <3>4
  <2>. QED
    BY <1>13, <2>4, <2>5
<1>14. CASE Pick(c) \/ WaitReady(c) \/ CloseRuns(c) \/ OpenRun(c) \/ Fail(c) \/ Evaluated(c) \/ ReadState(c)
            \/ Launch(c) \/ RestartFails(c) \/ Truncate(c)
  <2>1. stateFile' = stateFile /\ procs' = procs
    BY <1>14 DEF Pick, WaitReady, CloseRuns, OpenRun, Fail, Evaluated, ReadState, Launch, RestartFails, Truncate
  <2>2. l.mine = k.mine \/ (l = Idle /\ k.kind \in {"up", "restart"} /\ k.pc \notin {"read", "write", "rewrite", "stop"}) \/ k.mine = << >>
    <3>1. CASE Pick(c)
      BY <1>1, <3>1, PickMoves, ZenonT(60) DEF Command
    <3>2. CASE Fail(c) \/ Evaluated(c)
      <4>1. k.kind \in {"up", "gate"} /\ k.pc # "stop" /\ Step(c, "stop")
        BY <1>1, <3>2, Steps DEF Evaluated, Fail
      <4>. QED
        BY <1>1, <4>1, StopMoves DEF Command
    <3>3. CASE Launch(c)
      <4>. DEFINE p == EntryOf(k).port
                  a == live[ServiceOf(k)]
      <4>1. l = [k EXCEPT !.pc = "swap", !.port = p, !.adapter = a]
        BY <3>3, LaunchMoves
      <4>. HIDE DEF p, a
      <4>. QED
        BY <1>1, <4>1 DEF Command
    <3>4. CASE CloseRuns(c)
      BY <1>1, <3>4, CloseRunsMoves DEF Command
    <3>5. CASE OpenRun(c)
      <4>1. l = FollowingOf(k) /\ k.kind = "up" /\ k.pc = "openRun"
        BY <3>5, OpenRunMoves DEF OpenRun
      <4>. QED
        BY <1>1, <4>1, FollowingFields
    <3>6. CASE WaitReady(c)
      <4>1. k.pc = "wait" /\ k.kind \in {"up", "gate", "restart"} /\ l \in {Idle, [k EXCEPT !.pc = "closeRuns"], FollowingOf(k)}
            /\ (k.kind = "gate" => l = FollowingOf(k))
        BY <3>6, WaitReadyMoves DEF WaitReady
      <4>2. k.kind = "gate" => FollowingOf(k).mine = k.mine
        BY <1>1, FollowingFields DEF FollowingOf, Command
      <4>. QED
        BY <1>1, <4>1, <4>2, FollowingFields DEF Command
    <3>7. CASE ReadState(c)
      BY <1>1, <3>7, Steps DEF MineOK, ReadState
    <3>8. CASE RestartFails(c)
      BY <1>1, <3>8, Ends DEF RestartFails, MineOK
    <3>9. CASE Truncate(c)
      BY <1>1, <3>9, TruncateMoves DEF Command
    <3>. QED
      BY <1>14, <3>1, <3>2, <3>3, <3>4, <3>5, <3>6, <3>7, <3>8, <3>9
  <2>3. ASSUME NEW s \in ToSet(k.mine), s.pid = pid PROVE s \in ToSet(stateFile) \cup ToSet(l.mine)
    <3>1. CASE l = Idle /\ k.kind \in {"up", "restart"} /\ k.pc \notin {"read", "write", "rewrite", "stop"}
      <4>1. Tracked(k)
        BY <1>5, <1>9, <2>3, <3>1 DEF Platform
      <4>2. k.mine = stateFile \/ k.mine = << >>
        BY <3>1, <4>1 DEF Tracked
      <4>. QED
        BY <1>8, <4>2
    <3>. QED
      BY <1>8, <2>2, <3>1
  <2>. QED
    BY <1>2, <1>6, <2>1, <2>3
<1>. QED
  BY <1>10, <1>11, <1>12, <1>13, <1>14, <1>15 DEF Run

\* Any other step but a kill loses nothing either.
LEMMA NothingLost ==
  ASSUME Shape, TrackedOK, [Next]_vars, \A c \in Cmds : ~Kill(c), NEW pid \in Gone',
         procs'[pid].svc \in GateNames \/ Apart(Platform)
  PROVE  pid \in Gone /\ kills' = kills
<1>1. ASSUME NEW c \in Cmds, Run(c) PROVE pid \in Gone /\ kills' = kills
  <2>1. kills' = kills
    BY <1>1 DEF Run, Pick, Start, Truncate, Write, WaitReady, CloseRuns, OpenRun, Fail, Evaluated, StopLast, Unlink,
      ReadState, Launch, StopOld, StartNew, RestartFails
  <2>. QED
    BY <1>1, <2>1, RunLoses
<1>2. ASSUME NEW c \in Cmds, Up(c) \/ ServePair(c) \/ Down(c) \/ Promote(c) PROVE pid \in Gone /\ kills' = kills
  <2>1. /\ Moves(c) /\ cmd[c] = Idle /\ procs' = procs /\ stateFile' = stateFile /\ kills' = kills
    BY <1>2, BeginsKind
  <2>2. ToSet(Idle.mine) = {}
    BY EmptyList DEF Idle
  <2>3. Alive(pid) /\ pid \in DOMAIN procs /\ \A d \in Cmds : \A s \in ToSet(stateFile) \cup ToSet(cmd'[d].mine) : s.pid # pid
    BY <2>1 DEF Gone, Alive
  <2>4. ASSUME NEW d \in Cmds PROVE \A s \in ToSet(stateFile) \cup ToSet(cmd[d].mine) : s.pid # pid
    <3>1. CASE d = c
      BY <2>1, <2>2, <2>3, <3>1
    <3>2. CASE d # c
      BY <2>1, <2>3, <3>2 DEF Moves
    <3>. QED
      BY <3>1, <3>2
  <2>. QED
    BY <2>1, <2>3, <2>4 DEF Gone
<1>3. ASSUME NEW p \in DOMAIN procs, Bind(p) \/ Exit(p) PROVE pid \in Gone /\ kills' = kills
  <2>1. /\ cmd' = cmd /\ stateFile' = stateFile /\ kills' = kills /\ Grows /\ DOMAIN procs' = DOMAIN procs
    BY <1>3, ProcessShape, BindGrows, StoppedGrows DEF Bind, Exit
  <2>2. pid \in DOMAIN procs /\ Alive(pid)
    BY <2>1 DEF Gone, Alive, Grows
  <2>. QED
    BY <2>1, <2>2 DEF Gone
<1>4. ASSUME UNCHANGED vars PROVE pid \in Gone /\ kills' = kills
  BY <1>4 DEF vars, Gone, Alive
<1>. QED
  BY <1>1, <1>2, <1>3, <1>4 DEF Next

\* A kill loses what only the list of the command had.
LEMMA KillLoses ==
  ASSUME Shape, NEW c \in Cmds, Kill(c), NEW pid \in Gone', pid \notin Gone
  PROVE  \E s \in ToSet(cmd[c].mine) : s.pid = pid /\ s \notin ToSet(stateFile)
<1>1. procs' = procs /\ stateFile' = stateFile /\ \A d \in Cmds \ {c} : cmd'[d] = cmd[d]
  BY DEF Kill, Shape
<1>2. Alive(pid) /\ pid \in DOMAIN procs /\ \A d \in Cmds : \A s \in ToSet(stateFile) \cup ToSet(cmd'[d].mine) : s.pid # pid
  BY <1>1 DEF Gone, Alive
<1>3. PICK d \in Cmds : \E s \in ToSet(stateFile) \cup ToSet(cmd[d].mine) : s.pid = pid
  BY <1>2 DEF Gone
<1>. PICK s \in ToSet(stateFile) \cup ToSet(cmd[d].mine) : s.pid = pid
  BY <1>3
<1>4. s \notin ToSet(stateFile) /\ s \in ToSet(cmd[d].mine)
  BY <1>2
<1>5. d = c
  BY <1>1, <1>2, <1>4
<1>. QED
  BY <1>4, <1>5

\* A list has no more processes than there are names for its services.
LEMMA Handful ==
  ASSUME Shape, NEW mine, NEW names \in Seq(STRING), ListOK(mine), Names(mine) \subseteq ToSet(names),
         \A s \in ToSet(mine) : Entry(s)
  PROVE  LET P == {s.pid : s \in ToSet(mine)}
         IN  P \subseteq DOMAIN procs /\ IsFiniteSet(P) /\ Cardinality(P) \in Nat /\ Cardinality(P) <= Len(names)
<1>. DEFINE P == {s.pid : s \in ToSet(mine)}
            T == DOMAIN names
            f == [p \in P |-> CHOOSE i \in T : names[i] = procs[p].svc]
<1>1. ListOK(mine) /\ Names(mine) \subseteq ToSet(names) /\ \A s \in ToSet(mine) : Entry(s)
  OBVIOUS
<1>2. names \in Seq(STRING)
  OBVIOUS
<1>3. Len(names) \in Nat /\ T = 1..Len(names) /\ Len(procs) \in Nat /\ DOMAIN procs = 1..Len(procs)
  BY <1>2 DEF Shape
<1>4. IsFiniteSet(T) /\ Cardinality(T) = Len(names) /\ IsFiniteSet(DOMAIN procs)
  <2>. DEFINE n == Len(names)
              m == Len(procs)
  <2>1. 1 \in Int /\ n \in Int /\ m \in Int
    BY <1>3
  <2>. HIDE DEF n, m
  <2>2. IsFiniteSet(1..n) /\ Cardinality(1..n) = IF 1 > n THEN 0 ELSE n - 1 + 1
    BY <2>1, FS_Interval
  <2>3. IsFiniteSet(1..m)
    BY <2>1, FS_Interval
  <2>. QED
    BY <1>3, <2>2, <2>3 DEF n, m
<1>5. P \subseteq DOMAIN procs
  BY <1>1 DEF Entry
<1>6. IsFiniteSet(P) /\ Cardinality(P) \in Nat
  BY <1>4, <1>5, FS_Subset, FS_CardinalityType
<1>7. \A p \in P : f[p] \in T /\ names[f[p]] = procs[p].svc
  <2>. SUFFICES ASSUME NEW s \in ToSet(mine) PROVE f[s.pid] \in T /\ names[f[s.pid]] = procs[s.pid].svc
    OBVIOUS
  <2>1. procs[s.pid].svc \in ToSet(names)
    BY <1>1 DEF Entry, Names
  <2>2. \E i \in T : names[i] = procs[s.pid].svc
    BY <2>1 DEF ToSet
  <2>. QED
    BY <2>2
<1>8. \A p, q \in P : f[p] = f[q] => p = q
  <2>. SUFFICES ASSUME NEW s \in ToSet(mine), NEW t \in ToSet(mine), f[s.pid] = f[t.pid] PROVE s.pid = t.pid
    BY SMTT(40)
  <2>1. procs[s.pid].svc = procs[t.pid].svc
    <3>1. s.pid \in P /\ t.pid \in P
      OBVIOUS
    <3>. HIDE DEF f, P
    <3>. QED
      BY <1>7, <3>1
  <2>2. s.svc = t.svc
    BY <1>1, <2>1 DEF Entry
  <2>. QED
    BY <1>1, <2>2 DEF ListOK, OneEach
<1>9. f \in [P -> T]
  BY <1>7
<1>. HIDE DEF f, P, T
<1>10. ~(Cardinality(T) < Cardinality(P))
  BY <1>4, <1>6, <1>8, <1>9, FS_PigeonHole
<1>. QED
  BY <1>3, <1>4, <1>5, <1>6, <1>10 DEF P

PlatformGone == {pid \in Gone : ~OfGate(pid)}
GateGone     == {pid \in Gone : OfGate(pid)}

\* Sets of processes are finite.
LEMMA FewProcesses ==
  ASSUME NEW list \in Seq(Process), NEW S \in SUBSET DOMAIN list
  PROVE  IsFiniteSet(S) /\ Cardinality(S) \in Nat
<1>. DEFINE m == Len(list)
<1>1. m \in Int /\ 1 \in Int /\ DOMAIN list = 1..m
  OBVIOUS
<1>. HIDE DEF m
<1>2. IsFiniteSet(DOMAIN list)
  BY <1>1, FS_Interval
<1>. QED
  BY <1>2, FS_Subset, FS_CardinalityType

\* A set of lost processes that grows by the processes of a kill, at most.
LEMMA LostGrows ==
  ASSUME NEW S, NEW T, NEW P, IsFiniteSet(S), IsFiniteSet(P), T \subseteq S \cup P,
         NEW n \in Nat, NEW m \in Nat, Cardinality(S) <= n, Cardinality(P) <= m
  PROVE  Cardinality(T) <= n + m
<1>1. Cardinality(S) \in Nat /\ Cardinality(P) \in Nat
  BY FS_CardinalityType
<1>2. IsFiniteSet(S \cap P)
  BY FS_Subset
<1>3. Cardinality(S \cap P) \in Nat
  BY <1>2, FS_CardinalityType
<1>4. IsFiniteSet(S \cup P) /\ Cardinality(S \cup P) = Cardinality(S) + Cardinality(P) - Cardinality(S \cap P)
  BY FS_Union
<1>5. IsFiniteSet(T) /\ Cardinality(T) <= Cardinality(S \cup P)
  BY <1>4, FS_Subset
<1>6. Cardinality(T) \in Nat
  BY <1>5, FS_CardinalityType
<1>. HIDE <1>2
<1>. QED
  BY <1>1, <1>3, <1>4, <1>5, <1>6

\* A kill loses one process of the platform at most, or the processes of a gate.
FewGone ==
  /\ Apart(Platform) => Cardinality(PlatformGone) <= kills
  /\ Cardinality(GateGone) <= kills * Len(GateRuns)

\* Every step keeps the bounds on these processes: only a kill adds any.
LEMMA GoneStep ==
  ASSUME Shape, Shape', Grows, overlaps \subseteq overlaps', TrackedOK, FewGone, [Next]_vars
  PROVE  FewGone'
<1>1. Apart(Platform)' => Apart(Platform)
  BY DEF Apart
<1>2. \A pid \in DOMAIN procs : OfGate(pid)' <=> OfGate(pid)
  BY DEF OfGate, Grows
<1>3. /\ Gone \subseteq DOMAIN procs /\ Gone' \subseteq DOMAIN procs'
      /\ \A pid \in Gone' : OfGate(pid)' <=> procs'[pid].svc \in GateNames
  BY DEF Gone, OfGate, GateNames
<1>4. /\ IsFiniteSet(PlatformGone) /\ Cardinality(PlatformGone) \in Nat
      /\ IsFiniteSet(GateGone) /\ Cardinality(GateGone) \in Nat
  BY <1>3, FewProcesses DEF PlatformGone, GateGone, Shape
<1>5. /\ kills \in Nat /\ kills' \in Nat /\ Len(GateRuns) \in Nat
  BY ServingAssumption DEF Shape, CountsOK
<1>6. Apart(Platform) => Cardinality(PlatformGone) <= kills
  BY DEF FewGone
<1>7. Cardinality(GateGone) <= kills * Len(GateRuns)
  BY DEF FewGone
<1>8. kills * Len(GateRuns) \in Nat
  BY <1>5
<1>9. SUFFICES (Apart(Platform)' => Cardinality(PlatformGone') <= kills') /\ Cardinality(GateGone') <= kills' * Len(GateRuns)
  BY DEF FewGone
<1>10. CASE \A c \in Cmds : ~Kill(c)
  <2>1. ASSUME NEW pid \in Gone', OfGate(pid)' \/ Apart(Platform) PROVE pid \in Gone /\ kills' = kills
    BY <1>3, <1>10, <2>1, NothingLost
  <2>2. kills' = kills
    BY <1>10, ZenonT(60) DEF Next, vars, Run, Pick, Start, Truncate, Write, WaitReady, CloseRuns, OpenRun, Fail, Evaluated, StopLast,
      Unlink, ReadState, Launch, StopOld, StartNew, RestartFails, Up, ServePair, Down, Promote, Begin, Bind, Exit
  <2>3. GateGone' \subseteq GateGone
    BY <1>2, <1>3, <2>1 DEF GateGone
  <2>4. Cardinality(GateGone') <= Cardinality(GateGone)
    BY <1>4, <2>3, FS_Subset
  <2>5. ASSUME Apart(Platform)' PROVE Cardinality(PlatformGone') <= Cardinality(PlatformGone)
    <3>1. PlatformGone' \subseteq PlatformGone
      BY <1>1, <1>2, <1>3, <2>1, <2>5 DEF PlatformGone
    <3>. QED
      BY <1>4, <3>1, FS_Subset
  <2>6. IsFiniteSet(GateGone') /\ Cardinality(GateGone') \in Nat
    BY <1>4, <2>3, FS_Subset, FS_CardinalityType
  <2>7. IsFiniteSet(PlatformGone') /\ Cardinality(PlatformGone') \in Nat
    <3>1. PlatformGone' \subseteq DOMAIN procs' /\ procs' \in Seq(Process)
      BY <1>3 DEF PlatformGone, Grows
    <3>. QED
      BY <3>1, FewProcesses
  <2>. QED
    BY <1>1, <1>4, <1>5, <1>6, <1>7, <1>8, <2>2, <2>4, <2>5, <2>6, <2>7
<1>11. ASSUME NEW c \in Cmds, Kill(c)
       PROVE  (Apart(Platform)' => Cardinality(PlatformGone') <= kills') /\ Cardinality(GateGone') <= kills' * Len(GateRuns)
  <2>. DEFINE k == cmd[c]
              P == {s.pid : s \in ToSet(k.mine)}
  <2>1. k \in Command /\ MineOK(k) /\ PlaceOK(k) /\ (\A s \in ToSet(k.mine) : Entry(s)) /\ k.kind # "none"
        /\ kills' = kills + 1 /\ procs' = procs
    BY <1>11 DEF Shape, CommandOK, Kill, Busy
  <2>2. \A pid \in Gone' : pid \in Gone \/ \E s \in ToSet(k.mine) : s.pid = pid /\ s \notin ToSet(stateFile)
    BY <1>11, KillLoses
  <2>3. kills' * Len(GateRuns) = kills * Len(GateRuns) + Len(GateRuns)
    BY <1>5, <2>1
  <2>4. CASE k.kind = "gate"
    <3>1. P \subseteq DOMAIN procs /\ IsFiniteSet(P) /\ Cardinality(P) \in Nat /\ Cardinality(P) <= Len(GateRuns)
      <4>1. ListOK(k.mine) /\ Names(k.mine) \subseteq ToSet(GateRuns) /\ GateRuns \in Seq(STRING)
        BY <2>1, <2>4, ServingAssumption DEF MineOK, NamesOf, GateNames
      <4>. QED
        BY <2>1, <4>1, Handful
    <3>2. GateGone' \subseteq GateGone \cup P
      BY <1>2, <1>3, <2>1, <2>2 DEF GateGone
    <3>3. Cardinality(GateGone') <= kills * Len(GateRuns) + Len(GateRuns)
      <4>. HIDE DEF P
      <4>. QED
        BY <1>4, <1>5, <1>7, <1>8, <3>1, <3>2, LostGrows
    <3>4. \A s \in ToSet(k.mine) : OfGate(s.pid)
      BY <2>1, <2>4 DEF MineOK, NamesOf, Names, Entry, OfGate, GateNames
    <3>5. PlatformGone' \subseteq PlatformGone
      BY <1>2, <1>3, <2>1, <2>2, <3>4 DEF PlatformGone
    <3>6. Cardinality(PlatformGone') <= Cardinality(PlatformGone) /\ Cardinality(PlatformGone') \in Nat
      BY <1>4, <3>5, FS_Subset, FS_CardinalityType
    <3>. QED
      BY <1>1, <1>4, <1>5, <1>6, <2>1, <2>3, <3>3, <3>6
  <2>5. CASE k.kind # "gate"
    <3>1. k.kind \in Platform
      BY <2>1, <2>5 DEF Platform, Command, Kind
    <3>2. \A s \in ToSet(k.mine) : ~OfGate(s.pid)
      <4>. SUFFICES ASSUME NEW s \in ToSet(k.mine) PROVE ~OfGate(s.pid)
        OBVIOUS
      <4>1. s.svc \in UpNames /\ procs[s.pid].svc = s.svc
        BY <2>1, <2>5 DEF MineOK, NamesOf, Names, Entry
      <4>. QED
        BY <4>1, Plans DEF OfGate, GateNames
    <3>3. GateGone' \subseteq GateGone
      BY <1>2, <1>3, <2>1, <2>2, <3>2 DEF GateGone
    <3>4. Cardinality(GateGone') <= Cardinality(GateGone) /\ Cardinality(GateGone') \in Nat
      BY <1>4, <3>3, FS_Subset, FS_CardinalityType
    <3>5. ASSUME Apart(Platform)' PROVE Cardinality(PlatformGone') <= kills + 1
      <4>1. Tracked(k)
        BY <1>1, <3>1, <3>5 DEF TrackedOK, NoneBeside, Apart
      <4>2. \A s, t \in ToSet(k.mine) : s \notin ToSet(stateFile) /\ t \notin ToSet(stateFile) => s = t
        <5>1. CASE k.kind = "restart" /\ k.pc = "read"
          BY <2>1, <5>1, EmptyList DEF MineOK
        <5>. QED
          BY <4>1, <5>1 DEF Tracked, Ahead
      <4>3. \E p : PlatformGone' \subseteq PlatformGone \cup {p}
        <5>1. CASE \E s \in ToSet(k.mine) : s \notin ToSet(stateFile)
          <6>1. PICK s \in ToSet(k.mine) : s \notin ToSet(stateFile)
            BY <5>1
          <6>2. PlatformGone' \subseteq PlatformGone \cup {s.pid}
            BY <1>2, <1>3, <2>1, <2>2, <4>2, <6>1 DEF PlatformGone
          <6>. QED
            BY <6>2
        <5>2. CASE ~\E s \in ToSet(k.mine) : s \notin ToSet(stateFile)
          <6>1. PlatformGone' \subseteq PlatformGone \cup {0}
            BY <1>2, <1>3, <2>1, <2>2, <5>2 DEF PlatformGone
          <6>. QED
            BY <6>1
        <5>. QED
          BY <5>1, <5>2
      <4>4. PICK p : PlatformGone' \subseteq PlatformGone \cup {p}
        BY <4>3
      <4>5. IsFiniteSet({p}) /\ Cardinality({p}) = 1
        BY FS_Singleton
      <4>6. Cardinality({p}) <= 1 /\ 1 \in Nat
        BY <4>5
      <4>. QED
        BY <1>1, <1>4, <1>5, <1>6, <3>5, <4>4, <4>5, <4>6, LostGrows
    <3>. QED
      BY <1>4, <1>5, <1>7, <1>8, <2>1, <2>3, <3>4, <3>5
  <2>. QED
    BY <2>4, <2>5
<1>. QED
  BY <1>10, <1>11

-----------------------------------------------------------------------------
(* The file                                                                *)

\* Where a command begins.
LEMMA BeginsPlace ==
  ASSUME Shape, NEW c \in Cmds, Up(c) \/ ServePair(c) \/ Down(c) \/ Promote(c)
  PROVE  file' = file /\ cmd'[c].pc \in {"pick", "stop", "read"}
<1>1. Idle \in Command
  BY IdleIsOK DEF CommandOK
<1>6. file' = file
  BY DEF Up, ServePair, Down, Promote
<1>2. CASE Up(c)
  BY <1>1, <1>6, <1>2, UpMoves DEF Command
<1>3. CASE ServePair(c)
  BY <1>1, <1>6, <1>3, ServePairMoves DEF Command
<1>4. CASE Down(c)
  BY <1>1, <1>6, <1>4, DownMoves DEF Command
<1>5. CASE Promote(c)
  BY <1>5, <1>6, PromoteMoves
<1>. QED
  BY <1>2, <1>3, <1>4, <1>5, <1>6

\* Every step keeps the file that a command has emptied for it, where nothing overlapped.
LEMMA OpenStep ==
  ASSUME Shape, Shape', OverlapsOK, overlaps \subseteq overlaps', OpenOK, [Next]_vars
  PROVE  OpenOK'
<1>. SUFFICES ASSUME NEW d \in Cmds, NEW l, l = cmd'[d], l.pc = "rewrite", NoneBeside(l.kind)'
              PROVE  d \in file'.open /\ file'.text = "empty"
  <2>1. ASSUME \A d \in Cmds : \A l : l = cmd'[d] /\ l.pc = "rewrite" /\ NoneBeside(l.kind)' =>
                 d \in file'.open /\ file'.text = "empty"
        PROVE  OpenOK'
    BY <2>1 DEF OpenOK
  <2>. QED
    BY <2>1
<1>1. l.kind \in Platform
  <2>1. l \in Command /\ PlaceOK(l)
    BY DEF Shape, CommandOK
  <2>. QED
    BY <2>1, Steps DEF Platform
<1>2. NoneBeside(l.kind)
  BY DEF NoneBeside
<1>3. ASSUME cmd'[d] = cmd[d] PROVE d \in file.open /\ file.text = "empty"
  BY <1>2, <1>3 DEF OpenOK
<1>4. ASSUME NEW c \in Cmds, Up(c) \/ ServePair(c) \/ Down(c) \/ Promote(c)
      PROVE  d \in file'.open /\ file'.text = "empty"
  <2>1. Moves(c) /\ cmd'[c].pc # "rewrite" /\ file' = file
    BY <1>4, BeginsKind, BeginsPlace
  <2>. QED
    BY <1>3, <2>1 DEF Moves
<1>5. ASSUME NEW c \in Cmds, Run(c) \/ Kill(c) PROVE d \in file'.open /\ file'.text = "empty"
  <2>1. Moves(c)
    BY <1>5, RunShape
  <2>2. CASE d = c
    <3>1. Truncate(c)
      BY <1>5, <2>2, Places
    <3>. QED
      BY <2>2, <3>1 DEF Truncate
  <2>3. CASE d # c
    <3>1. cmd'[d] = cmd[d]
      BY <2>1, <2>3 DEF Moves
    <3>2. cmd[c].kind \notin Platform
      BY <1>1, <1>2, <2>3, <3>1, NobodyBeside
    <3>3. ~Truncate(c) /\ ~Write(c)
      BY <3>2, TruncateMoves, WriteMoves DEF Platform
    <3>4. CASE Unlink(c)
      <4>1. cmd[c].kind = "gate"
        BY <3>2, <3>4, Steps DEF Platform, Unlink, Shape, CommandOK
      <4>. QED
        BY <1>3, <3>1, <3>4, <4>1 DEF Unlink
    <3>5. CASE ~Unlink(c)
      <4>1. file'.text = file.text /\ \A e \in Cmds \ {c} : e \in file.open => e \in file'.open
        BY <1>5, <3>3, <3>5, FileSteps DEF Shape, CountsOK
      <4>. QED
        BY <1>3, <2>3, <3>1, <4>1
    <3>. QED
      BY <3>4, <3>5
  <2>. QED
    BY <2>2, <2>3
<1>6. ASSUME NEW pid \in DOMAIN procs, Bind(pid) \/ Exit(pid) PROVE d \in file'.open /\ file'.text = "empty"
  <2>1. cmd' = cmd /\ file' = file
    BY <1>6 DEF Bind, Exit
  <2>. QED
    BY <1>3, <2>1
<1>7. ASSUME UNCHANGED vars PROVE d \in file'.open /\ file'.text = "empty"
  BY <1>3, <1>7 DEF vars
<1>. QED
  BY <1>4, <1>5, <1>6, <1>7 DEF Next

\* A file that cannot be parsed is renewed by a command under way, or one was killed.
FileOK == Apart(Platform) /\ ~Readable => kills > 0 \/ \E c \in Cmds : Renews(c)

\* What a command that renews the file does next.
LEMMA RenewsOn ==
  ASSUME Shape, NEW c \in Cmds, Run(c), Renews(c), ~Write(c), ~Unlink(c)
  PROVE  Renews(c)'
<1>. DEFINE k == cmd[c]
<1>1. k \in Command /\ PlaceOK(k)
  BY DEF Shape, CommandOK
<1>2. k.pc \in {"rewrite", "stop"}
  BY DEF Renews
<1>3. Fail(c) \/ StopLast(c)
  BY <1>2, Steps DEF Run, Pick, Start, Truncate, WaitReady, CloseRuns, OpenRun, Evaluated, ReadState, Launch, StopOld,
    StartNew, RestartFails
<1>4. CASE Fail(c)
  <2>1. k.kind \in {"up", "gate"} /\ k.pc # "stop" /\ Step(c, "stop")
    BY <1>4 DEF Fail
  <2>2. cmd'[c] = [k EXCEPT !.pc = "stop"]
    BY <2>1, StopMoves
  <2>3. cmd'[c].kind = k.kind /\ cmd'[c].pc = "stop"
    BY <1>1, <2>2 DEF Command
  <2>4. k.kind # "gate"
    BY <1>1, <1>2, <2>1, Steps
  <2>. QED
    BY <2>3, <2>4 DEF Renews
<1>5. CASE StopLast(c)
  <2>1. k.pc = "stop" /\ cmd'[c] = [k EXCEPT !.mine = Front(@)]
    BY <1>5, StopLastMoves DEF StopLast
  <2>2. cmd'[c].kind = k.kind /\ cmd'[c].pc = "stop"
    BY <1>1, <2>1 DEF Command
  <2>. QED
    BY <2>1, <2>2 DEF Renews
<1>. QED
  BY <1>3, <1>4, <1>5

\* Every step keeps it.
LEMMA FileStep ==
  ASSUME Shape, overlaps \subseteq overlaps', OpenOK, FileOK, [Next]_vars
  PROVE  FileOK'
<1>. SUFFICES ASSUME Apart(Platform)', ~Readable', ~(kills' > 0)
              PROVE  \E d \in Cmds : Renews(d)'
  BY DEF FileOK
<1>1. Apart(Platform) /\ \A kind : NoneBeside(kind)
  BY DEF Apart, NoneBeside
<1>2. ASSUME ~Readable, kills' = kills PROVE \E d \in Cmds : Renews(d)
  BY <1>1, <1>2 DEF FileOK
<1>3. ASSUME NEW d \in Cmds, Renews(d), cmd'[d] = cmd[d] PROVE Renews(d)'
  BY <1>3 DEF Renews
<1>4. ASSUME NEW c \in Cmds, Up(c) \/ ServePair(c) \/ Down(c) \/ Promote(c) PROVE \E d \in Cmds : Renews(d)'
  <2>1. Moves(c) /\ cmd[c] = Idle /\ kills' = kills /\ file' = file
    BY <1>4, BeginsKind, BeginsPlace
  <2>2. ~Renews(c)
    BY <2>1 DEF Renews, Idle
  <2>. QED
    BY <1>2, <1>3, <2>1, <2>2 DEF Moves, Readable
<1>5. ASSUME NEW c \in Cmds, Run(c) PROVE \E d \in Cmds : Renews(d)'
  <2>1. Moves(c) /\ kills' = kills
    <3>1. kills' = kills
      BY <1>5 DEF Run, Pick, Start, Truncate, Write, WaitReady, CloseRuns, OpenRun, Fail, Evaluated, StopLast, Unlink,
        ReadState, Launch, StopOld, StartNew, RestartFails
    <3>. QED
      BY <1>5, <3>1, RunShape
  <2>2. CASE Truncate(c)
    <3>1. cmd[c] \in Command /\ cmd'[c] = [cmd[c] EXCEPT !.pc = "rewrite"]
      BY <2>2, TruncateMoves DEF Shape
    <3>2. cmd'[c].pc = "rewrite"
      BY <3>1 DEF Command
    <3>. QED
      BY <3>2 DEF Renews
  <2>3. CASE Write(c)
    <3>1. c \in file.open /\ file.text = "empty"
      BY <1>1, <2>3 DEF OpenOK, Write
    <3>2. file' = [text |-> "whole", open |-> file.open \ {c}]
      BY <2>3, <3>1 DEF Write
    <3>. QED
      BY <3>2 DEF Readable
  <2>4. CASE Unlink(c)
    <3>1. cmd[c].kind = "gate" /\ file' = file
      BY <2>4 DEF Unlink, Readable
    <3>2. ~Renews(c)
      BY <2>4, <3>1 DEF Renews, Unlink
    <3>. QED
      BY <1>2, <1>3, <2>1, <3>1, <3>2 DEF Moves, Readable
  <2>5. CASE ~Truncate(c) /\ ~Write(c) /\ ~Unlink(c)
    <3>1. file'.text = file.text
      BY <1>5, <2>5, FileSteps DEF Shape, CountsOK
    <3>2. PICK d \in Cmds : Renews(d)
      BY <1>2, <2>1, <3>1 DEF Readable
    <3>3. CASE d = c
      BY <1>5, <2>5, <3>2, <3>3, RenewsOn
    <3>4. CASE d # c
      BY <1>3, <2>1, <3>2, <3>4 DEF Moves
    <3>. QED
      BY <3>3, <3>4
  <2>. QED
    BY <2>2, <2>3, <2>4, <2>5
<1>6. ASSUME NEW c \in Cmds, Kill(c) PROVE FALSE
  <2>1. kills' = kills + 1 /\ kills \in Nat
    BY <1>6 DEF Kill, Shape, CountsOK
  <2>. QED
    BY <2>1
<1>7. ASSUME NEW pid \in DOMAIN procs, Bind(pid) \/ Exit(pid) PROVE \E d \in Cmds : Renews(d)'
  <2>1. cmd' = cmd /\ file' = file /\ kills' = kills
    BY <1>7 DEF Bind, Exit
  <2>. QED
    BY <1>2, <1>3, <2>1 DEF Readable
<1>8. ASSUME UNCHANGED vars PROVE \E d \in Cmds : Renews(d)'
  BY <1>2, <1>3, <1>8 DEF vars, Readable
<1>. QED
  BY <1>4, <1>5, <1>6, <1>7, <1>8 DEF Next

\* A command that renews the file holds every service of it that runs.
LEMMA RenewsAll ==
  ASSUME Shape, TrackedOK, Apart(Platform), NEW c \in Cmds, Renews(c)
  PROVE  Kept(cmd[c].mine)
<1>1. cmd[c] \in Command /\ PlaceOK(cmd[c])
  BY DEF Shape, CommandOK
<1>2. cmd[c].kind \in Platform /\ cmd[c].pc # "read"
  BY <1>1, Steps DEF Renews, Platform
<1>3. Tracked(cmd[c])
  BY <1>2 DEF TrackedOK, NoneBeside, Apart
<1>. QED
  BY <1>2, <1>3 DEF Tracked

\* The services of up, in the order of its plan.
AllNames == Before \o (Models \o After)

\* They are the services that the file can name.
LEMMA Everyone ==
  /\ AllNames \in Seq(STRING) /\ ToSet(AllNames) = UpNames
  /\ Len(AllNames) = Len(Before) + Len(Models) + Len(After)
<1>1. Before \in Seq(STRING) /\ Models \in Seq(STRING) /\ After \in Seq(STRING)
  BY ServingAssumption
<1>2. ASSUME NEW s \in Seq(STRING), NEW t \in Seq(STRING)
      PROVE  s \o t \in Seq(STRING) /\ Len(s \o t) = Len(s) + Len(t) /\ ToSet(s \o t) = ToSet(s) \cup ToSet(t)
  <2>1. /\ s \o t \in Seq(STRING) /\ Len(s \o t) = Len(s) + Len(t) /\ Len(s) \in Nat /\ Len(t) \in Nat
        /\ DOMAIN s = 1..Len(s) /\ DOMAIN t = 1..Len(t) /\ DOMAIN (s \o t) = 1..Len(s) + Len(t)
    OBVIOUS
  <2>2. \A i \in DOMAIN s : i \in DOMAIN (s \o t) /\ (s \o t)[i] = s[i]
    BY <2>1
  <2>3. \A i \in DOMAIN t : i + Len(s) \in DOMAIN (s \o t) /\ (s \o t)[i + Len(s)] = t[i]
    BY <2>1
  <2>4. \A i \in DOMAIN (s \o t) : i \in DOMAIN s \/ (i - Len(s) \in DOMAIN t /\ i = (i - Len(s)) + Len(s))
    BY <2>1
  <2>. DEFINE r == s \o t
  <2>. HIDE DEF r
  <2>5. ToSet(r) = ToSet(s) \cup ToSet(t)
    <3>1. ToSet(s) \subseteq ToSet(r)
      BY <2>2 DEF ToSet, r
    <3>2. ToSet(t) \subseteq ToSet(r)
      BY <2>3 DEF ToSet, r
    <3>3. ASSUME NEW i \in DOMAIN r PROVE r[i] \in ToSet(s) \cup ToSet(t)
      BY <2>2, <2>3, <2>4 DEF ToSet, r
    <3>. QED
      BY <3>1, <3>2, <3>3 DEF ToSet
  <2>. QED
    BY <2>1, <2>5 DEF r
<1>3. Models \o After \in Seq(STRING) /\ Len(Models \o After) = Len(Models) + Len(After)
      /\ ToSet(Models \o After) = ToSet(Models) \cup ToSet(After)
  BY <1>1, <1>2
<1>4. AllNames \in Seq(STRING) /\ Len(AllNames) = Len(Before) + Len(Models \o After)
      /\ ToSet(AllNames) = ToSet(Before) \cup ToSet(Models \o After)
  BY <1>1, <1>2, <1>3 DEF AllNames
<1>5. Len(Before) \in Nat /\ Len(Models) \in Nat /\ Len(After) \in Nat
  BY <1>1
<1>. QED
  BY <1>3, <1>4, <1>5 DEF UpNames, Model

\* What is lost is gone, but for what was recorded in a file that can't be parsed and that
\* nobody renews.
LEMMA FewLost ==
  ASSUME Shape, TrackedOK, FileOK, FewGone
  PROVE  LostProcesses
<1>. DEFINE P == {s.pid : s \in ToSet(stateFile)}
            N == Len(Before) + Len(Models) + Len(After)
            PlatformLost == {pid \in Lost : ~OfGate(pid)}
            GateLost == {pid \in Lost : OfGate(pid)}
<1>1. Lost \subseteq Gone \cup P /\ (Readable => Lost = Gone)
  BY DEF Lost, Gone, Recorded
<1>2. Lost \subseteq DOMAIN procs /\ Gone \subseteq DOMAIN procs /\ procs \in Seq(Process) /\ kills \in Nat
  BY DEF Lost, Gone, Shape, CountsOK
<1>3. /\ IsFiniteSet(PlatformGone) /\ Cardinality(PlatformGone) \in Nat
      /\ IsFiniteSet(GateGone) /\ Cardinality(GateGone) \in Nat
  BY <1>2, FewProcesses DEF PlatformGone, GateGone
<1>4. P \subseteq DOMAIN procs /\ IsFiniteSet(P) /\ Cardinality(P) \in Nat /\ Cardinality(P) <= N
  <2>1. ListOK(stateFile) /\ Names(stateFile) \subseteq ToSet(AllNames) /\ \A s \in ToSet(stateFile) : Entry(s)
    BY Everyone DEF Shape
  <2>. QED
    BY <2>1, Everyone, Handful
<1>5. \A pid \in P : ~OfGate(pid)
  <2>. SUFFICES ASSUME NEW s \in ToSet(stateFile) PROVE ~OfGate(s.pid)
    OBVIOUS
  <2>1. s.svc \in UpNames /\ procs[s.pid].svc = s.svc
    BY DEF Shape, Entry, Names
  <2>. QED
    BY <2>1, Plans DEF OfGate, GateNames
<1>. HIDE DEF P
<1>6. Cardinality(GateLost) <= kills * Len(GateRuns)
  <2>1. GateLost \subseteq GateGone
    BY <1>1, <1>5 DEF GateGone
  <2>2. Cardinality(GateLost) <= Cardinality(GateGone) /\ Cardinality(GateLost) \in Nat
    BY <1>3, <2>1, FS_Subset, FS_CardinalityType
  <2>3. Cardinality(GateGone) <= kills * Len(GateRuns) /\ kills * Len(GateRuns) \in Nat
    BY <1>2, ServingAssumption DEF FewGone
  <2>. HIDE DEF GateLost
  <2>. QED
    BY <1>3, <2>2, <2>3
<1>7. ASSUME Apart(Platform), ~Torn PROVE Cardinality(PlatformLost) <= kills
  <2>1. Lost \subseteq Gone
    <3>1. CASE Readable
      BY <1>1, <3>1
    <3>2. CASE ~Readable
      <4>1. PICK c \in Cmds : Renews(c)
        BY <1>7, <3>2 DEF Torn
      <4>2. Kept(cmd[c].mine)
        BY <1>7, <4>1, RenewsAll
      <4>3. ASSUME NEW pid \in Lost, NEW s \in ToSet(stateFile), s.pid = pid PROVE FALSE
        <5>1. Alive(pid) /\ \A t \in ToSet(cmd[c].mine) : t.pid # pid
          BY DEF Lost
        <5>. QED
          BY <4>2, <4>3, <5>1 DEF Kept
      <4>. QED
        BY <4>3 DEF Lost, Gone
    <3>. QED
      BY <3>1, <3>2
  <2>2. PlatformLost \subseteq PlatformGone
    BY <2>1 DEF PlatformGone
  <2>3. Cardinality(PlatformLost) <= Cardinality(PlatformGone) /\ Cardinality(PlatformLost) \in Nat
    BY <1>3, <2>2, FS_Subset, FS_CardinalityType
  <2>4. Cardinality(PlatformGone) <= kills
    BY <1>7 DEF FewGone
  <2>. HIDE DEF PlatformLost
  <2>. QED
    BY <1>2, <1>3, <2>3, <2>4
<1>8. ASSUME Apart(Platform), Torn PROVE kills > 0 /\ Cardinality(PlatformLost) <= kills + N
  <2>1. kills > 0
    BY <1>8 DEF FileOK, Torn
  <2>2. PlatformLost \subseteq PlatformGone \cup P
    BY <1>1 DEF PlatformGone
  <2>3. Cardinality(PlatformGone) <= kills
    BY <1>8 DEF FewGone
  <2>4. N \in Nat
    <3>1. Len(Before) \in Nat /\ Len(Models) \in Nat /\ Len(After) \in Nat
      BY ServingAssumption
    <3>. QED
      BY <3>1
  <2>. HIDE DEF PlatformLost, N
  <2>5. Cardinality(PlatformLost) <= kills + N
    BY <1>2, <1>3, <1>4, <2>2, <2>3, <2>4, LostGrows
  <2>. QED
    BY <2>1, <2>5
<1>9. Cardinality(PlatformLost) <= kills + 0 \/ ~Apart(Platform) \/ Torn
  BY <1>2, <1>7
<1>. QED
  BY <1>6, <1>8, <1>9 DEF LostProcesses

-----------------------------------------------------------------------------
(* The invariant                                                           *)

Inductive == Shape /\ OverlapsOK /\ RunsOK /\ TrackedOK /\ OpenOK /\ FileOK /\ FewGone

\* Nothing runs and nothing is recorded at first.
LEMMA InductiveInit == ASSUME Init PROVE Inductive
<1>1. Shape
  BY ShapeInit
<1>2. \A c \in Cmds : cmd[c].kind = "none" /\ cmd[c].pc = "idle"
  BY DEF Init, Idle
<1>3. OverlapsOK /\ RunsOK /\ TrackedOK /\ OpenOK /\ FileOK
  BY <1>2 DEF OverlapsOK, RunsOK, TrackedOK, OpenOK, FileOK, Readable, Busy, Init, Platform
<1>4. Gone = {}
  BY DEF Gone, Init
<1>5. FewGone
  <2>1. PlatformGone = {} /\ GateGone = {} /\ kills = 0
    BY <1>4 DEF Init, PlatformGone, GateGone
  <2>2. Len(GateRuns) \in Nat
    BY ServingAssumption
  <2>3. kills * Len(GateRuns) = 0
    BY <2>1, <2>2
  <2>4. Cardinality(PlatformGone) = 0 /\ Cardinality(GateGone) = 0
    BY <2>1, FS_EmptySet
  <2>. QED
    BY <2>1, <2>3, <2>4 DEF FewGone
<1>. QED
  BY <1>1, <1>3, <1>5 DEF Inductive

\* Every step keeps the invariant, and processes, overlaps and faults are never forgotten.
LEMMA InductiveStep ==
  ASSUME Inductive, [Next]_vars
  PROVE  Inductive' /\ Grows /\ overlaps \subseteq overlaps' /\ past \subseteq past'
<1>1. Shape' /\ Grows
  BY ShapeStep DEF Inductive
<1>2. OverlapsOK' /\ overlaps \subseteq overlaps' /\ past \subseteq past'
  BY OverlapsStep DEF Inductive
<1>3. RunsOK' /\ TrackedOK' /\ OpenOK' /\ FileOK' /\ FewGone'
  BY <1>1, <1>2, RunsStep, TrackedStep, OpenStep, FileStep, GoneStep DEF Inductive
<1>. QED
  BY <1>1, <1>2, <1>3 DEF Inductive

\* The parts of the invariant hold in every state.
THEOREM ServingInvariant == Spec => []Inductive
<1>1. Init => Inductive
  BY InductiveInit
<1>2. Inductive /\ [Next]_vars => Inductive'
  BY InductiveStep
<1>. QED
  BY <1>1, <1>2, PTL DEF Spec

\* While up, down and promote run one at a time, every running service is in the file or
\* in the list of a command; a kill loses one of them, or a gate's processes, or, between
\* emptying the file and writing it, what the file recorded.
THEOREM NothingElseIsLost == Spec => []LostProcesses
<1>1. Inductive => LostProcesses
  BY FewLost DEF Inductive
<1>. QED
  BY <1>1, ServingInvariant, PTL

\* A model has one open run at most, unless two ups ran at the same time.
THEOREM RunsAreOpenedOnce == Spec => []OneOpenRun
<1>1. Inductive => OneOpenRun
  BY DEF Inductive, RunsOK, OneOpenRun
<1>. QED
  BY <1>1, ServingInvariant, PTL
=============================================================================
