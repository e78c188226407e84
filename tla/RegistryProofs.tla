--------------------------- MODULE RegistryProofs ---------------------------
(***************************************************************************)
(* Proofs about the model registry, for any number of models, clients and  *)
(* versions, any number of calls and any number of crashes.                *)
(*                                                                         *)
(* The argument: only the holder of the write lock is inside a transaction *)
(* (LockHeld), and what its transaction has done so far to the committed   *)
(* table is known exactly at each of its steps (DraftOK).  So a COMMIT     *)
(* changes the committed table by one whole Create or Promote of the       *)
(* abstract registry, an autocommitted UPDATE by one SetStatus, and no     *)
(* other step changes it.  At most one live version then follows from the  *)
(* abstract operations alone.                                              *)
(***************************************************************************)
EXTENDS Registry, TLAPS, FiniteSetTheorems

InTransaction == {"insert", "retire", "set", "commit"}

\* A client is inside a transaction exactly when it holds the write lock.
LockHeld == \A c \in Clients : pc[c] \in InTransaction <=> writer = c

\* A call that needs an existing version has one: rows are never deleted.
\* Only updates carry a status of their own, and only statuses of the worker.
CallOK(c) ==
  /\ pc[c] \in {"insert"} => op[c].kind = "create"
  /\ pc[c] \in {"retire", "set"} => op[c].kind = "promote"
  /\ pc[c] \in {"begin", "commit"} => op[c].kind \in {"create", "promote"}
  /\ pc[c] = "update" => op[c].kind = "update" /\ op[c].status \in WorkerStatus
  /\ pc[c] \in {"begin", "retire", "set", "commit", "update"} /\ op[c].kind # "create" =>
       op[c].version \in Known(op[c].model)
  /\ pc[c] = "event" => op[c].version \in Version

\* The versions of a model are numbered 1, 2, ..., k without a gap.
NumberedTo(m, k) == Known(m) = 1..k
Dense == \A m \in Models : \E k \in 0..MaxVersions : NumberedTo(m, k)

\* The table after a whole promotion.
Promoted(table, v) == [w \in Version |-> IF w = v THEN "promoted"
                                         ELSE IF table[w] = "promoted" THEN "retired"
                                         ELSE table[w]]

\* What the open transaction of c has done to the committed table.
DraftOK(c) ==
  LET m == op[c].model
      v == op[c].version
  IN  /\ pc[c] \in {"insert", "retire"} => draft = rows
      /\ pc[c] = "set" => draft = [rows EXCEPT ![m] = RetireLive(rows[m])]
      /\ pc[c] = "commit" =>
           IF op[c].kind = "create"
           THEN /\ v \in Version
                /\ Known(m) = 1..(v - 1)
                /\ draft = [rows EXCEPT ![m][v] = "training"]
           ELSE draft = [rows EXCEPT ![m] = Promoted(rows[m], v)]

IInv ==
  /\ TypeOK
  /\ LockHeld
  /\ Dense
  /\ \A c \in Clients : CallOK(c) /\ DraftOK(c)

-----------------------------------------------------------------------------
(* Numbering                                                               *)

\* The largest number of 0..k is k.
LEMMA MaxOfPrefix ==
  ASSUME NEW k \in Nat
  PROVE  Max((1..k) \cup {0}) = k
<1> DEFINE S == (1..k) \cup {0}
<1>1. k \in S /\ \A y \in S : k >= y
  OBVIOUS
<1>2. \A x \in S : (\A y \in S : x >= y) => x = k
  OBVIOUS
<1>3. Max(S) = CHOOSE x \in S : \A y \in S : x >= y
  BY DEF Max
<1>. QED
  BY <1>1, <1>2, <1>3

\* In a table numbered 1..k, the number of the next version is k + 1.
LEMMA NextAfterPrefix ==
  ASSUME NEW table, NEW k \in Nat,
         {v \in Version : table[v] # Absent} = 1..k
  PROVE  NextNumber(table) = k + 1
BY MaxOfPrefix DEF NextNumber

-----------------------------------------------------------------------------
(* The invariant                                                           *)

\* The empty registry satisfies the invariant.
LEMMA InitInvariant == Init => IInv
<1>. SUFFICES ASSUME Init PROVE IInv
  OBVIOUS
<1>. USE RegistryAssumption DEF Init
<1>1. NoCall \in Call
  <2>1. (CHOOSE m \in Models : TRUE) \in Models
    OBVIOUS
  <2>. QED
    BY <2>1 DEF NoCall, NewVersion, Call, Status, WorkerStatus
<1>2. TypeOK
  BY <1>1 DEF TypeOK, Step, Status
<1>3. LockHeld
  BY DEF LockHeld, InTransaction
<1>4. Dense
  <2>1. \A m \in Models : Known(m) = {}
    BY DEF Known, Version
  <2>2. 0 \in 0..MaxVersions /\ 1..0 = {}
    OBVIOUS
  <2>. QED
    BY <2>1, <2>2 DEF Dense, NumberedTo
<1>5. ASSUME NEW c \in Clients PROVE CallOK(c) /\ DraftOK(c)
  BY DEF CallOK, DraftOK
<1>. QED
  BY <1>2, <1>3, <1>4, <1>5 DEF IInv

\* Calls enter and leave without touching the tables.
LEMMA EnterStep ==
  ASSUME IInv, NEW c \in Clients, NEW call \in Call, NEW step \in {"begin", "update"},
         Enter(c, call, step),
         call.kind = "create" => step = "begin",
         call.kind # "create" => call.version \in Known(call.model),
         step = "update" => call.kind = "update" /\ call.status \in WorkerStatus,
         step = "begin" => call.kind \in {"create", "promote"}
  PROVE  IInv'
<1>. USE RegistryAssumption DEF IInv, Enter, Goto
<1>1. TypeOK'
  BY DEF TypeOK, Step
<1>2. LockHeld'
  BY DEF TypeOK, LockHeld, InTransaction
<1>3. Dense'
  BY DEF Dense, NumberedTo, Known
<1>4. ASSUME NEW d \in Clients PROVE CallOK(d)' /\ DraftOK(d)'
  <2>1. CASE d = c
    <3>1. pc'[c] = step /\ op'[c] = call
      BY DEF TypeOK
    <3>2. CallOK(c)'
      BY <3>1 DEF CallOK, Known
    <3>3. DraftOK(c)'
      BY <3>1 DEF DraftOK
    <3>. QED
      BY <2>1, <3>2, <3>3
  <2>2. CASE d # c
    <3>1. pc'[d] = pc[d] /\ op'[d] = op[d]
      BY <2>2 DEF TypeOK
    <3>. QED
      BY <3>1 DEF CallOK, DraftOK, Known
  <2>. QED
    BY <2>1, <2>2
<1>. QED
  BY <1>1, <1>2, <1>3, <1>4

\* A client that is not inside a transaction says nothing about the draft.
LEMMA Outside ==
  ASSUME NEW c \in Clients, pc[c] \notin InTransaction
  PROVE  DraftOK(c)
BY DEF InTransaction, DraftOK

\* Only one client is inside a transaction.
LEMMA Alone ==
  ASSUME IInv, NEW c \in Clients, NEW d \in Clients, c # d,
         pc[c] \in InTransaction \/ writer = Nobody
  PROVE  pc[d] \notin InTransaction
BY RegistryAssumption DEF IInv, LockHeld

\* BEGIN IMMEDIATE: the client becomes the only one inside a transaction, on a
\* fresh copy of the table.
LEMMA BeginStep ==
  ASSUME IInv, NEW c \in Clients, Begin(c)
  PROVE  IInv'
<1>. USE RegistryAssumption DEF IInv, Begin, Goto, LockFree
<1>. DEFINE first == FirstStatement(op[c])
<1>0. /\ pc' = [pc EXCEPT ![c] = first] /\ pc'[c] = first
      /\ first \in {"insert", "retire"}
      /\ op[c].kind = "create" => first = "insert"
      /\ op[c].kind # "create" => first = "retire" /\ op[c].kind = "promote"
  BY DEF TypeOK, FirstStatement, CallOK
<1>1. TypeOK'
  BY <1>0 DEF TypeOK, Step
<1>2. LockHeld'
  BY <1>0 DEF TypeOK, LockHeld, InTransaction
<1>3. Dense'
  BY DEF Dense, NumberedTo, Known
<1>4. ASSUME NEW d \in Clients PROVE CallOK(d)' /\ DraftOK(d)'
  <2>1. CASE d = c
    <3>1. CallOK(c)'
      BY <1>0 DEF CallOK, Known
    <3>2. DraftOK(c)'
      BY <1>0 DEF DraftOK
    <3>. QED
      BY <2>1, <3>1, <3>2
  <2>2. CASE d # c
    <3>1. pc'[d] = pc[d] /\ pc[d] \notin InTransaction
      BY <2>2, Alone DEF TypeOK
    <3>2. CallOK(d)'
      BY <3>1 DEF CallOK, Known
    <3>3. DraftOK(d)'
      BY <3>1 DEF DraftOK, InTransaction
    <3>. QED
      BY <3>2, <3>3
  <2>. QED
    BY <2>1, <2>2
<1>. QED
  BY <1>1, <1>2, <1>3, <1>4

\* The INSERT of create adds the one version that comes after those in use.
LEMMA InsertStep ==
  ASSUME IInv, NEW c \in Clients, Insert(c)
  PROVE  IInv'
<1>. USE RegistryAssumption DEF IInv, Insert, Goto
<1>. DEFINE m == op[c].model
            n == NextNumber(draft[m])
<1>0. /\ pc[c] = "insert" /\ draft = rows /\ op[c].kind = "create"
      /\ m \in Models /\ op[c] \in Call
  BY DEF CallOK, DraftOK, TypeOK, Call
<1>1. n \in Version /\ Known(m) = 1..(n - 1)
  <2>1. PICK k \in 0..MaxVersions : Known(m) = 1..k
    BY <1>0 DEF Dense, NumberedTo
  <2>2. n = k + 1
    BY <1>0, <2>1, NextAfterPrefix DEF Known
  <2>. QED
    BY <2>1, <2>2 DEF Version
<1>2. /\ pc'[c] = "commit" /\ op'[c] = [op[c] EXCEPT !.version = n]
      /\ op'[c] \in Call /\ op'[c].kind = "create" /\ op'[c].model = m /\ op'[c].version = n
  <2>1. /\ pc'[c] = "commit" /\ op'[c] = [op[c] EXCEPT !.version = n]
    BY <1>0 DEF TypeOK
  <2>2. n \in 0..MaxVersions
    BY <1>1 DEF Version
  <2>3. /\ [op[c] EXCEPT !.version = n] \in Call
        /\ [op[c] EXCEPT !.version = n].kind = op[c].kind
        /\ [op[c] EXCEPT !.version = n].model = m
        /\ [op[c] EXCEPT !.version = n].version = n
    BY <1>0, <2>2 DEF Call
  <2>. QED
    BY <1>0, <2>1, <2>3
<1>3. TypeOK'
  <2>1. draft' \in [Models -> [Version -> Status \cup {Absent}]]
    BY <1>0, <1>1 DEF TypeOK, Status
  <2>2. op' \in [Clients -> Call]
    BY <1>2 DEF TypeOK
  <2>3. pc' \in [Clients -> Step]
    BY DEF TypeOK, Step
  <2>. QED
    BY <2>1, <2>2, <2>3 DEF TypeOK
<1>4. LockHeld'
  BY <1>0 DEF TypeOK, LockHeld, InTransaction
<1>5. Dense'
  BY DEF Dense, NumberedTo, Known
<1>6. ASSUME NEW d \in Clients PROVE CallOK(d)' /\ DraftOK(d)'
  <2>1. CASE d = c
    <3>1. CallOK(c)'
      BY <1>2 DEF CallOK
    <3>2. DraftOK(c)'
      <4>1. draft' = [rows' EXCEPT ![op'[c].model][op'[c].version] = "training"]
        BY <1>0, <1>2
      <4>2. (Known(op[c].model) = 1..(op[c].version - 1))'
        BY <1>1, <1>2 DEF Known
      <4>. QED
        BY <1>1, <1>2, <4>1, <4>2 DEF DraftOK
    <3>. QED
      BY <2>1, <3>1, <3>2
  <2>2. CASE d # c
    <3>1. pc'[d] = pc[d] /\ op'[d] = op[d] /\ pc[d] \notin InTransaction
      BY <1>0, <2>2, Alone DEF TypeOK, InTransaction
    <3>2. CallOK(d)'
      BY <3>1 DEF CallOK, Known
    <3>3. DraftOK(d)'
      BY <3>1 DEF DraftOK, InTransaction
    <3>. QED
      BY <3>2, <3>3
  <2>. QED
    BY <2>1, <2>2
<1>. QED
  BY <1>3, <1>4, <1>5, <1>6

\* A promotion's transaction: retire the live version, then put v in its place.
LEMMA RetireType ==
  ASSUME NEW table \in [Version -> Status \cup {Absent}]
  PROVE  RetireLive(table) \in [Version -> Status \cup {Absent}]
BY DEF RetireLive, Status

\* The first UPDATE of promote retires the live version, in the draft only.
LEMMA RetireStep ==
  ASSUME IInv, NEW c \in Clients, Retire(c)
  PROVE  IInv'
<1>. USE RegistryAssumption DEF IInv, Retire, Goto
<1>0. /\ pc[c] = "retire" /\ draft = rows /\ op[c].kind = "promote" /\ op[c].model \in Models
      /\ pc'[c] = "set"
  BY DEF CallOK, DraftOK, TypeOK, Call
<1>1. TypeOK'
  <2>1. draft' \in [Models -> [Version -> Status \cup {Absent}]]
    BY <1>0, RetireType DEF TypeOK
  <2>. QED
    BY <2>1 DEF TypeOK, Step
<1>2. LockHeld'
  BY <1>0 DEF TypeOK, LockHeld, InTransaction
<1>3. Dense'
  BY DEF Dense, NumberedTo, Known
<1>4. ASSUME NEW d \in Clients PROVE CallOK(d)' /\ DraftOK(d)'
  <2>1. CASE d = c
    <3>1. CallOK(c)'
      BY <1>0 DEF CallOK, Known
    <3>2. DraftOK(c)'
      BY <1>0 DEF DraftOK
    <3>. QED
      BY <2>1, <3>1, <3>2
  <2>2. CASE d # c
    <3>1. pc'[d] = pc[d] /\ pc[d] \notin InTransaction
      BY <1>0, <2>2, Alone DEF TypeOK, InTransaction
    <3>. QED
      BY <3>1 DEF CallOK, Known, DraftOK, InTransaction
  <2>. QED
    BY <2>1, <2>2
<1>. QED
  BY <1>1, <1>2, <1>3, <1>4

\* The second UPDATE of promote makes the draft the table after the whole
\* promotion.
LEMMA SetLiveStep ==
  ASSUME IInv, NEW c \in Clients, SetLive(c)
  PROVE  IInv'
<1>. USE RegistryAssumption DEF IInv, SetLive, Goto
<1>. DEFINE m == op[c].model
            v == op[c].version
<1>0. /\ pc[c] = "set" /\ op[c].kind = "promote" /\ m \in Models
      /\ v \in Known(m) /\ v \in Version
      /\ draft = [rows EXCEPT ![m] = RetireLive(rows[m])]
      /\ pc'[c] = "commit"
  BY DEF CallOK, DraftOK, TypeOK, Call, Known
<1>1. TypeOK'
  <2>1. draft' \in [Models -> [Version -> Status \cup {Absent}]]
    BY <1>0 DEF TypeOK, Status
  <2>. QED
    BY <2>1 DEF TypeOK, Step
<1>2. draft' = [rows EXCEPT ![m] = Promoted(rows[m], v)]
  <2>1. draft' = [rows EXCEPT ![m] = [RetireLive(rows[m]) EXCEPT ![v] = "promoted"]]
    BY <1>0 DEF TypeOK
  <2>2. [RetireLive(rows[m]) EXCEPT ![v] = "promoted"] = Promoted(rows[m], v)
    BY <1>0 DEF RetireLive, Promoted
  <2>. QED
    BY <2>1, <2>2
<1>3. LockHeld'
  BY <1>0 DEF TypeOK, LockHeld, InTransaction
<1>4. Dense'
  BY DEF Dense, NumberedTo, Known
<1>5. ASSUME NEW d \in Clients PROVE CallOK(d)' /\ DraftOK(d)'
  <2>1. CASE d = c
    <3>1. CallOK(c)'
      BY <1>0 DEF CallOK, Known
    <3>2. DraftOK(c)'
      <4>1. (draft = [rows EXCEPT ![op[c].model] = Promoted(rows[op[c].model], op[c].version)])'
        BY <1>2 DEF Promoted
      <4>. QED
        BY <1>0, <4>1 DEF DraftOK
    <3>. QED
      BY <2>1, <3>1, <3>2
  <2>2. CASE d # c
    <3>1. pc'[d] = pc[d] /\ pc[d] \notin InTransaction
      BY <1>0, <2>2, Alone DEF TypeOK, InTransaction
    <3>. QED
      BY <3>1 DEF CallOK, Known, DraftOK, InTransaction
  <2>. QED
    BY <2>1, <2>2
<1>. QED
  BY <1>1, <1>3, <1>4, <1>5

\* A step that changes the committed table while nobody is inside a transaction
\* afterwards, keeps every version and goes on to write the event.
LEMMA TableStep ==
  ASSUME IInv, NEW c \in Clients,
         rows' \in [Models -> [Version -> Status \cup {Absent}]],
         draft' = rows', writer' = Nobody,
         writer = c \/ writer = Nobody,
         Goto(c, "event"), op[c].version \in Version,
         UNCHANGED <<events, op, calls, failures>>,
         Dense',
         \A m \in Models : Known(m) \subseteq Known(m)'
  PROVE  IInv'
<1>. USE RegistryAssumption DEF IInv, Goto
<1>1. TypeOK'
  BY DEF TypeOK, Step
<1>2. \A d \in Clients : pc'[d] \notin InTransaction
  BY DEF TypeOK, LockHeld, InTransaction
<1>3. LockHeld'
  BY <1>2 DEF LockHeld
<1>4. ASSUME NEW d \in Clients PROVE CallOK(d)' /\ DraftOK(d)'
  <2>1. DraftOK(d)'
    BY <1>2 DEF DraftOK, InTransaction
  <2>2. CASE d = c
    <3>1. pc'[c] = "event"
      BY DEF TypeOK
    <3>. QED
      BY <2>1, <2>2, <3>1 DEF CallOK
  <2>3. CASE d # c
    <3>1. pc'[d] = pc[d] /\ op'[d] = op[d] /\ op[d].model \in Models
      BY <2>3 DEF TypeOK, Call
    <3>2. CallOK(d)'
      BY <3>1 DEF CallOK
    <3>. QED
      BY <2>1, <3>2
  <2>. QED
    BY <2>2, <2>3
<1>. QED
  BY <1>1, <1>3, <1>4

\* What a COMMIT does to the committed table: one Create or one Promote.
LEMMA CommitIsAtomic ==
  ASSUME IInv, NEW c \in Clients, Commit(c)
  PROVE  \/ Lifecycle!Create(op[c].model)
         \/ op[c].version \in Version /\ Lifecycle!Promote(op[c].model, op[c].version)
<1>. USE RegistryAssumption DEF IInv, Commit
<1>. DEFINE m == op[c].model
            v == op[c].version
<1>1. CASE op[c].kind = "create"
  <2>1. /\ v \in Version /\ Known(m) = 1..(v - 1)
        /\ rows' = [rows EXCEPT ![m][v] = "training"]
    BY <1>1 DEF DraftOK
  <2>. QED
    BY <2>1 DEF Lifecycle!Create, Lifecycle!Version, Lifecycle!Known, Lifecycle!Absent,
                Known, Version, Absent
<1>2. CASE op[c].kind # "create"
  <2>1. v \in Known(m) /\ rows' = [rows EXCEPT ![m] = Promoted(rows[m], v)]
    BY <1>2 DEF CallOK, DraftOK
  <2>. QED
    BY <2>1 DEF Lifecycle!Promote, Lifecycle!Version, Lifecycle!Known, Lifecycle!Absent,
                Promoted, Known, Version, Absent
<1>. QED
  BY <1>1, <1>2

\* COMMIT publishes the draft and frees the lock: no version disappears.
LEMMA CommitStep ==
  ASSUME IInv, NEW c \in Clients, Commit(c)
  PROVE  IInv'
<1>. USE RegistryAssumption DEF IInv, Commit
<1>. DEFINE m == op[c].model
            v == op[c].version
<1>0. /\ pc[c] = "commit" /\ m \in Models /\ writer = c
      /\ rows \in [Models -> [Version -> Status \cup {Absent}]]
      /\ draft \in [Models -> [Version -> Status \cup {Absent}]]
  BY DEF TypeOK, Call, LockHeld, InTransaction
<1>1. CASE op[c].kind = "create"
  <2>1. /\ v \in Version /\ Known(m) = 1..(v - 1)
        /\ rows' = [rows EXCEPT ![m][v] = "training"]
    BY <1>0, <1>1 DEF DraftOK
  <2>2. Known(m)' = 1..v
    BY <1>0, <2>1 DEF Known, Version, Absent
  <2>3. \A n \in Models : n # m => Known(n)' = Known(n)
    BY <1>0, <2>1 DEF Known
  <2>4. v \in 0..MaxVersions
    BY <2>1 DEF Version
  <2>5. Dense'
    BY <2>2, <2>3, <2>4 DEF Dense, NumberedTo
  <2>6. \A n \in Models : Known(n) \subseteq Known(n)'
    BY <2>1, <2>2, <2>3, <2>4
  <2>. QED
    BY <1>0, <2>1, <2>5, <2>6, TableStep
<1>2. CASE op[c].kind # "create"
  <2>1. v \in Known(m) /\ rows' = [rows EXCEPT ![m] = Promoted(rows[m], v)]
    BY <1>0, <1>2 DEF CallOK, DraftOK
  <2>2. \A n \in Models : Known(n)' = Known(n)
    BY <1>0, <2>1 DEF Known, Promoted, Absent
  <2>3. Dense'
    BY <2>2 DEF Dense, NumberedTo
  <2>4. v \in Version
    BY <2>1 DEF Known
  <2>. QED
    BY <1>0, <2>2, <2>3, <2>4, TableStep
<1>. QED
  BY <1>1, <1>2

\* An autocommitted UPDATE changes one status while nobody is inside a
\* transaction.
LEMMA UpdateStep ==
  ASSUME IInv, NEW c \in Clients, Update(c)
  PROVE  IInv' /\ Lifecycle!SetStatus(op[c].model, op[c].version, op[c].status)
<1>. USE RegistryAssumption DEF IInv, Update, LockFree
<1>. DEFINE m == op[c].model
            v == op[c].version
<1>0. /\ m \in Models /\ v \in Known(m) /\ v \in Version /\ op[c].status \in WorkerStatus
      /\ rows \in [Models -> [Version -> Status \cup {Absent}]]
      /\ rows' = [rows EXCEPT ![m][v] = op[c].status]
  <2>1. op[c].kind # "create"
    BY DEF CallOK
  <2>. QED
    BY <2>1 DEF TypeOK, Call, CallOK, Known
<1>1. rows' \in [Models -> [Version -> Status \cup {Absent}]]
  BY <1>0 DEF Status
<1>2. \A n \in Models : Known(n)' = Known(n)
  BY <1>0 DEF Known, Absent, WorkerStatus
<1>3. Dense'
  BY <1>2 DEF Dense, NumberedTo
<1>4. IInv'
  BY <1>0, <1>1, <1>2, <1>3, TableStep
<1>5. Lifecycle!SetStatus(m, v, op[c].status)
  BY <1>0 DEF Lifecycle!SetStatus, Lifecycle!Known, Lifecycle!Version, Lifecycle!Absent,
              Known, Version, Absent
<1>. QED
  BY <1>4, <1>5

\* A call that ends, in order or by a failure, leaves the committed table alone.
LEMMA ReturnStep ==
  ASSUME IInv, NEW c \in Clients, Return(c), UNCHANGED <<rows, calls>>,
         events' \in Seq(Event), failures' \in 0..MaxFailures,
         \/ pc[c] \notin InTransaction /\ UNCHANGED <<writer, draft>>
         \/ writer = c /\ writer' = Nobody /\ draft' = rows
  PROVE  IInv'
<1>. USE RegistryAssumption DEF IInv, Return, Goto
<1>0. NoCall \in Call
  <2>1. (CHOOSE m \in Models : TRUE) \in Models
    OBVIOUS
  <2>. QED
    BY <2>1 DEF NoCall, NewVersion, Call, Status, WorkerStatus
<1>1. TypeOK'
  BY <1>0 DEF TypeOK, Step
<1>2. LockHeld'
  BY DEF TypeOK, LockHeld, InTransaction
<1>3. Dense'
  BY DEF Dense, NumberedTo, Known
<1>4. ASSUME NEW d \in Clients PROVE CallOK(d)' /\ DraftOK(d)'
  <2>1. CASE d = c
    <3>1. pc'[c] = "idle"
      BY DEF TypeOK
    <3>. QED
      BY <2>1, <3>1 DEF CallOK, DraftOK
  <2>2. CASE d # c
    <3>1. pc'[d] = pc[d] /\ op'[d] = op[d]
      BY <2>2 DEF TypeOK
    <3>2. CallOK(d)'
      BY <3>1 DEF CallOK, Known
    <3>3. CASE draft' = draft
      <4>1. DraftOK(d) /\ rows' = rows
        OBVIOUS
      <4>2. DraftOK(d)'
        BY <3>1, <3>3, <4>1 DEF DraftOK, Known
      <4>. QED
        BY <3>2, <4>2
    <3>4. CASE writer = c
      <4>1. pc[d] \notin InTransaction
        BY <2>2, <3>4 DEF LockHeld
      <4>. QED
        BY <3>1, <3>2, <4>1 DEF DraftOK, InTransaction
    <3>5. draft' = draft \/ writer = c
      OBVIOUS
    <3>. QED
      BY <3>2, <3>3, <3>4, <3>5
  <2>. QED
    BY <2>1, <2>2
<1>. QED
  BY <1>1, <1>2, <1>3, <1>4

\* Writing the event ends the call and leaves the table alone.
LEMMA RecordStep ==
  ASSUME IInv, NEW c \in Clients, Record(c)
  PROVE  IInv'
<1>1. EventOf(op[c]) \in Event
  BY DEF IInv, TypeOK, Record, CallOK, Call, EventOf, Event, Status
<1>2. Append(events, EventOf(op[c])) \in Seq(Event)
  BY <1>1 DEF IInv, TypeOK
<1>. QED
  BY <1>2, ReturnStep DEF Record, IInv, TypeOK, InTransaction

\* A call that times out on the lock was not inside a transaction.
LEMMA LockTimeoutStep ==
  ASSUME IInv, NEW c \in Clients, LockTimeout(c)
  PROVE  IInv'
<1>1. failures + 1 \in 0..MaxFailures
  BY RegistryAssumption DEF LockTimeout, IInv, TypeOK
<1>. QED
  BY <1>1, ReturnStep DEF LockTimeout, IInv, TypeOK, InTransaction

\* A crash rolls the open transaction back and frees the lock.
LEMMA CrashStep ==
  ASSUME IInv, NEW c \in Clients, Crash(c)
  PROVE  IInv'
<1>1. failures + 1 \in 0..MaxFailures
  BY RegistryAssumption DEF Crash, IInv, TypeOK
<1>2. pc[c] \in InTransaction <=> writer = c
  BY DEF IInv, LockHeld
<1>. QED
  BY <1>1, <1>2, ReturnStep DEF Crash, IInv, TypeOK

\* The invariant is inductive.
LEMMA InvariantStep == IInv /\ [Next]_vars => IInv'
<1>. SUFFICES ASSUME IInv, [Next]_vars PROVE IInv'
  OBVIOUS
<1>1. ASSUME NEW c \in Clients, NEW m \in Models, CallCreate(c, m) PROVE IInv'
  <2>1. NewVersion(m) \in Call
    BY RegistryAssumption DEF NewVersion, Call, Status, WorkerStatus
  <2>. QED
    BY <1>1, <2>1, EnterStep DEF CallCreate, NewVersion
<1>2. ASSUME NEW c \in Clients, NEW m \in Models, NEW v \in Version, NEW s \in WorkerStatus,
             CallUpdate(c, m, v, s)
      PROVE  IInv'
  <2>. DEFINE call == [kind |-> "update", model |-> m, version |-> v, status |-> s, forced |-> FALSE]
  <2>1. call \in Call
    BY DEF Call, Status, Version
  <2>2. v \in Known(m) /\ Enter(c, call, "update")
    BY <1>2 DEF CallUpdate
  <2>. QED
    BY <2>1, <2>2, EnterStep
<1>3. ASSUME NEW c \in Clients, NEW m \in Models, NEW v \in Version, NEW forced \in BOOLEAN,
             CallPromote(c, m, v, forced)
      PROVE  IInv'
  <2>. DEFINE call == [kind |-> "promote", model |-> m, version |-> v,
                       status |-> "promoted", forced |-> forced]
  <2>1. call \in Call
    BY DEF Call, Status, Version
  <2>2. v \in Known(m) /\ Enter(c, call, "begin")
    BY <1>3 DEF CallPromote
  <2>. QED
    BY <2>1, <2>2, EnterStep
<1>4. ASSUME NEW c \in Clients,
             Begin(c) \/ Insert(c) \/ Retire(c) \/ SetLive(c) \/ Commit(c) \/ Update(c) \/ Record(c)
             \/ LockTimeout(c) \/ Crash(c)
      PROVE  IInv'
  BY <1>4, BeginStep, InsertStep, RetireStep, SetLiveStep, CommitStep, UpdateStep, RecordStep,
     LockTimeoutStep, CrashStep
<1>5. CASE UNCHANGED vars
  BY <1>5, ZenonT(60) DEF vars, IInv, TypeOK, LockHeld, Dense, NumberedTo, Known, CallOK, DraftOK
<1>. QED
  BY <1>1, <1>2, <1>3, <1>4, <1>5 DEF Next

-----------------------------------------------------------------------------
(* Theorems                                                                *)

\* The invariant holds in every reachable state.
LEMMA Invariant == Spec => []IInv
<1>. QED
  BY InitInvariant, InvariantStep, PTL DEF Spec

\* Every variable keeps its type: no call is left with a version that does not
\* exist, no number leaves the range, every event is complete.
THEOREM TypeCorrect == Spec => []TypeOK
<1>1. IInv => TypeOK
  BY DEF IInv
<1>. QED
  BY <1>1, Invariant, PTL

\* A step of the registry is one operation of the abstract registry, or leaves
\* the committed table unchanged.
LEMMA StepIsAtomic == IInv /\ [Next]_vars => [Lifecycle!Next]_rows
<1>. SUFFICES ASSUME IInv, [Next]_vars PROVE [Lifecycle!Next]_rows
  OBVIOUS
<1>. USE DEF Lifecycle!Next, Lifecycle!Version, Lifecycle!WorkerStatus
<1>1. ASSUME NEW c \in Clients, Commit(c) PROVE Lifecycle!Next
  <2>1. op[c].model \in Models
    BY DEF IInv, TypeOK, Call
  <2>. QED
    BY <1>1, <2>1, CommitIsAtomic DEF Version
<1>2. ASSUME NEW c \in Clients, Update(c) PROVE Lifecycle!Next
  <2>1. op[c].model \in Models /\ op[c].status \in WorkerStatus /\ op[c].version \in Version
    BY <1>2 DEF IInv, TypeOK, Call, CallOK, Known, Update
  <2>. QED
    BY <1>2, <2>1, UpdateStep DEF Version, WorkerStatus
<1>3. ASSUME NEW c \in Clients,
             \/ \E m \in Models : CallCreate(c, m)
             \/ \E m \in Models, v \in Version, s \in WorkerStatus : CallUpdate(c, m, v, s)
             \/ \E m \in Models, v \in Version, forced \in BOOLEAN : CallPromote(c, m, v, forced)
             \/ Begin(c) \/ Insert(c) \/ Retire(c) \/ SetLive(c) \/ Record(c)
             \/ LockTimeout(c) \/ Crash(c)
      PROVE  UNCHANGED rows
  BY <1>3 DEF CallCreate, CallUpdate, CallPromote, Enter, Begin, Insert, Retire, SetLive,
              Record, LockTimeout, Crash
<1>4. CASE UNCHANGED vars
  BY <1>4 DEF vars
<1>. QED
  BY <1>1, <1>2, <1>3, <1>4 DEF Next

\* The registry implements the abstract registry: with any interleaving of its
\* clients and any crashes, the committed table changes by whole operations.
THEOREM ImplementsLifecycle == Spec => OperationsAreAtomic
<1>1. Init => Lifecycle!Init
  BY DEF Init, Lifecycle!Init, Lifecycle!Version, Lifecycle!Absent, Version, Absent
<1>. QED
  BY <1>1, Invariant, StepIsAtomic, PTL DEF Spec, OperationsAreAtomic, Lifecycle!Spec

\* No operation of the abstract registry makes a second version live.
LEMMA OperationKeepsOneLive ==
  AtMostOneLive /\ TypeOK /\ [Lifecycle!Next]_rows => AtMostOneLive'
<1>. SUFFICES ASSUME AtMostOneLive, TypeOK, [Lifecycle!Next]_rows PROVE AtMostOneLive'
  OBVIOUS
<1>. USE DEF AtMostOneLive, Lifecycle!Version, Version
<1>1. ASSUME NEW m \in Models, Lifecycle!Create(m) PROVE AtMostOneLive'
  BY <1>1 DEF TypeOK, Lifecycle!Create
<1>2. ASSUME NEW m \in Models, NEW v \in Version, Lifecycle!Promote(m, v) PROVE AtMostOneLive'
  BY <1>2 DEF TypeOK, Lifecycle!Promote
<1>3. ASSUME NEW m \in Models, NEW v \in Version, NEW s \in WorkerStatus,
             Lifecycle!SetStatus(m, v, s)
      PROVE  AtMostOneLive'
  BY <1>3 DEF TypeOK, Lifecycle!SetStatus, WorkerStatus
<1>4. CASE UNCHANGED rows
  BY <1>4
<1>. QED
  BY <1>1, <1>2, <1>3, <1>4 DEF Lifecycle!Next, Lifecycle!WorkerStatus, WorkerStatus

\* At most one version of a model is live in the committed table.
THEOREM OneLiveVersion == Spec => []AtMostOneLive
<1>1. Init => AtMostOneLive
  BY DEF Init, AtMostOneLive, Absent
<1>2. AtMostOneLive /\ IInv /\ [Next]_vars => AtMostOneLive'
  BY StepIsAtomic, OperationKeepsOneLive DEF IInv
<1>. QED
  BY <1>1, <1>2, Invariant, PTL DEF Spec

-----------------------------------------------------------------------------
(* Events                                                                  *)

\* The status in the arguments of a call is the status the call gives, so the event
\* that follows the change says what the change was.
StatusGiven ==
  \A c \in Clients :
    /\ op[c].kind = "create" => op[c].status = "training"
    /\ op[c].kind = "promote" => op[c].status = "promoted"

\* A status s given to version v of m is in the events, or about to be.
Says(e, m, v, s) == e.model = m /\ e.version = v /\ e.status = s
Told(m, v, s) ==
  \/ \E i \in DOMAIN events : Says(events[i], m, v, s)
  \/ \E c \in Clients : pc[c] = "event" /\ Says(op[c], m, v, s)

\* ChangesAreRecorded with what it takes to count: the versions not told are finitely many.
FewUntold == IsFiniteSet(Untold) /\ Cardinality(Untold) <= failures

\* Only a call that is entered or left changes the kind and the status of its arguments.
LEMMA StatusGivenStep == StatusGiven /\ IInv /\ [Next]_vars => StatusGiven'
<1>. SUFFICES ASSUME StatusGiven, IInv, [Next]_vars PROVE StatusGiven'
  OBVIOUS
<1>. USE DEF StatusGiven, IInv, TypeOK
<1>1. NoCall.kind = "create" /\ NoCall.status = "training"
  BY DEF NoCall, NewVersion
<1>2. ASSUME NEW c \in Clients,
             \/ \E m \in Models : CallCreate(c, m)
             \/ \E m \in Models, v \in Version, s \in WorkerStatus : CallUpdate(c, m, v, s)
             \/ \E m \in Models, v \in Version, forced \in BOOLEAN : CallPromote(c, m, v, forced)
      PROVE  StatusGiven'
  BY <1>2 DEF CallCreate, CallUpdate, CallPromote, Enter, NewVersion
<1>3. ASSUME NEW c \in Clients, Insert(c) PROVE StatusGiven'
  <2>1. \A d \in Clients : op'[d].kind = op[d].kind /\ op'[d].status = op[d].status
    BY <1>3 DEF Insert, Call
  <2>. QED
    BY <2>1
<1>4. ASSUME NEW c \in Clients,
             Begin(c) \/ Retire(c) \/ SetLive(c) \/ Commit(c) \/ Update(c)
      PROVE  StatusGiven'
  BY <1>4 DEF Begin, Retire, SetLive, Commit, Update
<1>5. ASSUME NEW c \in Clients, Record(c) \/ LockTimeout(c) \/ Crash(c) PROVE StatusGiven'
  <2>1. op' = [op EXCEPT ![c] = NoCall]
    BY <1>5 DEF Record, LockTimeout, Crash, Return
  <2>. QED
    BY <1>1, <2>1
<1>6. CASE UNCHANGED vars
  BY <1>6 DEF vars
<1>. QED
  BY <1>2, <1>3, <1>4, <1>5, <1>6 DEF Next

\* A version that is not in Untold is not known, or it is told.
LEMMA UntoldMeaning ==
  ASSUME NEW m \in Models, NEW v \in Version
  PROVE  <<m, v>> \in Untold <=> rows[m][v] # Absent /\ ~Told(m, v, Telling(rows[m][v]))
BY DEF Untold, Known, Told, Says

\* A failure of client c.
Fails(c) == LockTimeout(c) \/ Crash(c)

\* What has been told stays told in a step in which nothing fails: an event that was
\* about to be written is written, and none is taken back.
LEMMA ToldStaysTold ==
  ASSUME IInv, [Next]_vars, \A c \in Clients : ~Fails(c), NEW m, NEW v, NEW s, Told(m, v, s)
  PROVE  Told(m, v, s)'
<1>. USE DEF IInv, TypeOK
<1>1. ASSUME NEW c \in Clients, Record(c) PROVE Told(m, v, s)'
  <2>1. events' = Append(events, EventOf(op[c])) /\ EventOf(op[c]) \in Event
    <3>1. op[c].version \in Version /\ op[c] \in Call
      BY <1>1 DEF CallOK, Record
    <3>2. EventOf(op[c]) \in Event
      BY <3>1 DEF EventOf, Event, Call
    <3>. QED
      BY <1>1, <3>2 DEF Record
  <2>2. \A i \in DOMAIN events : i \in DOMAIN events' /\ events'[i] = events[i]
    BY <2>1
  <2>3. Len(events) + 1 \in DOMAIN events' /\ events'[Len(events) + 1] = EventOf(op[c])
    BY <2>1
  <2>4. Says(op[c], m, v, s) => Says(EventOf(op[c]), m, v, s)
    BY DEF Says, EventOf
  <2>5. \A d \in Clients \ {c} : pc'[d] = pc[d] /\ op'[d] = op[d]
    BY <1>1 DEF Record, Return, Goto
  <2>6. CASE \E i \in DOMAIN events : Says(events[i], m, v, s)
    BY <2>2, <2>6 DEF Told
  <2>7. ASSUME NEW d \in Clients, pc[d] = "event", Says(op[d], m, v, s) PROVE Told(m, v, s)'
    <3>1. CASE d = c
      <4>1. Says(events'[Len(events) + 1], m, v, s)
        BY <2>3, <2>4, <2>7, <3>1
      <4>. QED
        BY <2>3, <4>1 DEF Told
    <3>2. CASE d # c
      <4>1. pc'[d] = "event" /\ Says(op'[d], m, v, s)
        BY <2>5, <2>7, <3>2
      <4>. QED
        BY <4>1 DEF Told
    <3>. QED
      BY <3>1, <3>2
  <2>. QED
    BY <2>6, <2>7 DEF Told
<1>2. CASE /\ events' = events
           /\ \A d \in Clients : pc[d] = "event" => pc'[d] = "event" /\ op'[d] = op[d]
  BY <1>2 DEF Told, Says
<1>3. ASSUME NEW c \in Clients,
             \/ \E k \in Models : CallCreate(c, k)
             \/ \E k \in Models, w \in Version, x \in WorkerStatus : CallUpdate(c, k, w, x)
             \/ \E k \in Models, w \in Version, forced \in BOOLEAN : CallPromote(c, k, w, forced)
      PROVE  Told(m, v, s)'
  BY <1>2, <1>3 DEF CallCreate, CallUpdate, CallPromote, Enter, Goto
<1>4. ASSUME NEW c \in Clients,
             Begin(c) \/ Insert(c) \/ Retire(c) \/ SetLive(c) \/ Commit(c) \/ Update(c)
      PROVE  Told(m, v, s)'
  BY <1>2, <1>4 DEF Begin, Insert, Retire, SetLive, Commit, Update, Goto
<1>5. ASSUME NEW c \in Clients, LockTimeout(c) \/ Crash(c) PROVE FALSE
  BY <1>5 DEF Fails
<1>6. CASE UNCHANGED vars
  BY <1>2, <1>6 DEF vars
<1>. QED
  BY <1>1, <1>3, <1>4, <1>5, <1>6 DEF Next

\* A COMMIT and an UPDATE leave the client that changed a status with the event to write,
\* except for the version a promotion retires: its last event said that it was promoted.
LEMMA ChangeIsTold ==
  ASSUME IInv, StatusGiven, NEW c \in Clients, Commit(c) \/ Update(c),
         NEW m \in Models, NEW v \in Version, NEW s,
         Telling(rows'[m][v]) = s, Telling(rows[m][v]) # s
  PROVE  Told(m, v, s)'
<1>. USE DEF IInv, TypeOK, Telling
<1>1. Says(op[c], m, v, s)
  <2>. SUFFICES op[c].model = m /\ op[c].version = v /\ op[c].status = s
    BY DEF Says
  <2>0. op[c] \in Call /\ op[c].model \in Models
    BY DEF Call
  <2>1. CASE Commit(c)
    <3>1. CASE op[c].kind = "create"
      <4>1. rows' = [rows EXCEPT ![op[c].model][op[c].version] = "training"] /\ op[c].version \in Version
        BY <2>1, <3>1 DEF Commit, DraftOK
      <4>2. op[c].status = "training"
        BY <3>1 DEF StatusGiven
      <4>. QED
        BY <2>0, <4>1, <4>2
    <3>2. CASE op[c].kind # "create"
      <4>1. rows' = [rows EXCEPT ![op[c].model] = Promoted(rows[op[c].model], op[c].version)]
        BY <2>1, <3>2 DEF Commit, DraftOK
      <4>2. op[c].kind = "promote" /\ op[c].status = "promoted"
        BY <2>1, <3>2 DEF Commit, CallOK, StatusGiven
      <4>3. op[c].model = m
        BY <4>1
      <4>4. rows'[m][v] = Promoted(rows[m], op[c].version)[v]
        BY <4>1, <4>3
      <4>. QED
        BY <4>2, <4>3, <4>4 DEF Promoted
    <3>. QED
      BY <3>1, <3>2
  <2>2. CASE Update(c)
    <3>1. op[c].version \in Version
      BY <2>2 DEF Update, CallOK, Known
    <3>2. rows' = [rows EXCEPT ![op[c].model][op[c].version] = op[c].status]
      BY <2>2 DEF Update
    <3>3. op[c].status # "retired"
      BY <2>2 DEF Update, CallOK, WorkerStatus
    <3>4. op[c].model = m /\ op[c].version = v
      BY <2>0, <3>1, <3>2
    <3>5. rows'[m][v] = op[c].status
      BY <3>1, <3>2, <3>4
    <3>. QED
      BY <3>3, <3>4, <3>5
  <2>. QED
    BY <2>1, <2>2
<1>2. pc'[c] = "event" /\ op'[c] = op[c]
  BY DEF Commit, Update, Goto
<1>. QED
  BY <1>1, <1>2 DEF Told, Says

\* A step adds no version to those not told, but for the one whose event a failing
\* client was about to write.
LEMMA UntoldGrows ==
  ASSUME IInv, StatusGiven, [Next]_vars
  PROVE  \/ Untold' \subseteq Untold /\ failures' \in {failures, failures + 1}
         \/ \E x : Untold' \subseteq Untold \cup {x} /\ failures' = failures + 1
<1>. USE DEF IInv, TypeOK
<1>1. CASE \A c \in Clients : ~Fails(c)
  <2>1. failures' = failures
    BY <1>1 DEF Fails, Next, vars, CallCreate, CallUpdate, CallPromote, Enter, Begin, Insert,
       Retire, SetLive, Commit, Update, Record
  <2>2. ASSUME NEW m \in Models, NEW v \in Version, <<m, v>> \in Untold', <<m, v>> \notin Untold
        PROVE  FALSE
    <3>1. PICK s : s = Telling(rows'[m][v])
      OBVIOUS
    <3>2. rows'[m][v] # Absent /\ ~Told(m, v, s)'
      BY <2>2, <3>1 DEF Untold, Known, Told, Says
    <3>3. CASE Telling(rows[m][v]) = s
      <4>1. rows[m][v] # Absent
        BY <3>1, <3>2, <3>3 DEF Telling, Absent
      <4>2. Told(m, v, s)
        BY <2>2, <3>3, <4>1, UntoldMeaning
      <4>. HIDE DEF IInv
      <4>. QED
        BY <1>1, <3>2, <4>2, ToldStaysTold
    <3>4. CASE Telling(rows[m][v]) # s
      <4>1. PICK c \in Clients : Commit(c) \/ Update(c)
        BY <1>1, <3>1, <3>4 DEF Fails, Next, vars, CallCreate, CallUpdate, CallPromote, Enter,
           Begin, Insert, Retire, SetLive, Record
      <4>. HIDE DEF IInv
      <4>. QED
        BY <3>1, <3>2, <3>4, <4>1, ChangeIsTold
    <3>. QED
      BY <3>3, <3>4
  <2>3. Untold' \subseteq Models \X Version
    BY DEF Untold
  <2>. QED
    BY <2>1, <2>2, <2>3
<1>2. ASSUME NEW c \in Clients, Fails(c)
      PROVE  Untold' \subseteq Untold \cup {<<op[c].model, op[c].version>>}
             /\ failures' = failures + 1
  <2>1. /\ failures' = failures + 1 /\ rows' = rows /\ events' = events
        /\ \A d \in Clients \ {c} : pc'[d] = pc[d] /\ op'[d] = op[d]
    BY <1>2 DEF Fails, LockTimeout, Crash, Return, Goto
  <2>2. ASSUME NEW m \in Models, NEW v \in Version, <<m, v>> \in Untold', <<m, v>> \notin Untold
        PROVE  <<m, v>> = <<op[c].model, op[c].version>>
    <3>1. PICK s : s = Telling(rows[m][v])
      OBVIOUS
    <3>2. rows[m][v] # Absent /\ ~Told(m, v, s)'
      BY <2>1, <2>2, <3>1 DEF Untold, Known, Told, Says
    <3>3. PICK d \in Clients : pc[d] = "event" /\ Says(op[d], m, v, s)
      <4>1. Told(m, v, s)
        BY <2>2, <3>1, <3>2, UntoldMeaning
      <4>. QED
        BY <2>1, <3>2, <4>1 DEF Told, Says
    <3>4. d = c
      BY <2>1, <3>2, <3>3 DEF Told, Says
    <3>. QED
      BY <3>3, <3>4 DEF Says
  <2>3. Untold' \subseteq Models \X Version
    BY DEF Untold
  <2>. QED
    BY <2>1, <2>2, <2>3
<1>. QED
  BY <1>1, <1>2

\* A failure leaves at most one version more untold, any other step none.
LEMMA FewUntoldStep == IInv /\ StatusGiven /\ FewUntold /\ [Next]_vars => FewUntold'
<1>. SUFFICES ASSUME IInv, StatusGiven, FewUntold, [Next]_vars PROVE FewUntold'
  OBVIOUS
<1>1. failures \in Nat /\ IsFiniteSet(Untold) /\ Cardinality(Untold) <= failures
  BY RegistryAssumption DEF IInv, TypeOK, FewUntold
<1>2. CASE Untold' \subseteq Untold /\ failures' \in {failures, failures + 1}
  <2>1. IsFiniteSet(Untold') /\ Cardinality(Untold') <= Cardinality(Untold)
    BY <1>1, <1>2, FS_Subset
  <2>2. Cardinality(Untold') \in Nat /\ Cardinality(Untold) \in Nat
    BY <1>1, <2>1, FS_CardinalityType
  <2>. QED
    BY <1>1, <1>2, <2>1, <2>2 DEF FewUntold
<1>3. ASSUME NEW x, Untold' \subseteq Untold \cup {x}, failures' = failures + 1 PROVE FewUntold'
  <2>1. /\ IsFiniteSet(Untold \cup {x})
        /\ Cardinality(Untold \cup {x}) \in {Cardinality(Untold), Cardinality(Untold) + 1}
    <3>1. CASE x \in Untold
      <4>1. Untold \cup {x} = Untold
        BY <3>1
      <4>. QED
        BY <1>1, <4>1
    <3>2. CASE x \notin Untold
      BY <1>1, <3>2, FS_AddElement
    <3>. QED
      BY <3>1, <3>2
  <2>2. IsFiniteSet(Untold') /\ Cardinality(Untold') <= Cardinality(Untold \cup {x})
    BY <1>3, <2>1, FS_Subset
  <2>3. Cardinality(Untold') \in Nat /\ Cardinality(Untold) \in Nat
    BY <1>1, <2>2, FS_CardinalityType
  <2>. QED
    BY <1>1, <1>3, <2>1, <2>2, <2>3 DEF FewUntold
<1>. QED
  BY <1>2, <1>3, UntoldGrows

\* However the changes and the events of any number of clients interleave, a client
\* that dies or times out loses at most the event of its own change: there are never
\* more versions whose status no event tells than there were failures.
THEOREM EveryChangeIsRecorded == Spec => []ChangesAreRecorded
<1>1. Init => StatusGiven /\ FewUntold
  <2>. SUFFICES ASSUME Init PROVE StatusGiven /\ FewUntold
    OBVIOUS
  <2>1. Untold = {}
    BY DEF Init, Untold, Known
  <2>2. FewUntold
    BY <2>1, FS_EmptySet DEF FewUntold, Init
  <2>. QED
    BY <2>2 DEF Init, StatusGiven, NoCall, NewVersion
<1>2. FewUntold => ChangesAreRecorded
  BY DEF FewUntold, ChangesAreRecorded
<1>. QED
  BY <1>1, <1>2, StatusGivenStep, FewUntoldStep, Invariant, PTL DEF Spec
=============================================================================
