------------------------------ MODULE Registry ------------------------------
(***************************************************************************)
(* The model registry (src/ookami/registry.py): two SQLite tables, opened  *)
(* by several processes at once -- the CLI, threads of the console and the *)
(* training worker.  Every call is broken at the points where another      *)
(* process can run: a read outside a transaction, BEGIN IMMEDIATE (which   *)
(* takes SQLite's one write lock), the statements of the transaction, its  *)
(* COMMIT, and the event, which is written after the COMMIT.               *)
(***************************************************************************)
EXTENDS Naturals, Sequences, FiniteSets, SequencesExt

CONSTANTS Models,        \* names of the Model documents
          Clients,       \* processes and threads that hold a connection
          Nobody,        \* no client: the write lock is free
          MaxVersions,   \* bound: versions of one model
          MaxCalls,      \* bound: calls made in one behaviour
          MaxFailures    \* bound: crashes and lock timeouts in one behaviour

ASSUME RegistryAssumption ==
  /\ Nobody \notin Clients
  /\ Models # {}
  /\ MaxVersions \in Nat /\ MaxCalls \in Nat /\ MaxFailures \in Nat
  /\ MaxCalls <= MaxVersions   \* room for a version per call

VARIABLES rows,      \* committed table: rows[m][v], the status of version v
          draft,     \* the table as the open transaction sees it
          writer,    \* client that holds the write lock
          events,    \* the events table, in the order of its timestamps
          pc,        \* pc[c]: next step of the call c is making
          op,        \* op[c]: arguments of that call
          calls,     \* calls made so far
          failures   \* crashes and timeouts so far

vars == <<rows, draft, writer, events, pc, op, calls, failures>>

Lifecycle == INSTANCE VersionLifecycle WITH versions <- rows

Version      == 1..MaxVersions
Absent       == "absent"
WorkerStatus == {"evaluating", "passed", "rejected", "failed"}
Status       == WorkerStatus \cup {"training", "promoted", "retired"}

Step == {"idle", "begin", "insert", "retire", "set", "commit", "update", "event"}
Call == [kind    : {"create", "update", "promote"},
         model   : Models,
         version : 0..MaxVersions,
         status  : Status,
         forced  : BOOLEAN]
Event == [action  : {"created", "updated", "promoted"},
          model   : Models, version : Version, status : Status]

NewVersion(m) == [kind |-> "create", model |-> m, version |-> 0,
                  status |-> "training", forced |-> FALSE]
NoCall == NewVersion(CHOOSE m \in Models : TRUE)   \* what an idle client holds

Known(m) == {v \in Version : rows[m][v] # Absent}

Init ==
  /\ rows = [m \in Models |-> [v \in Version |-> Absent]]
  /\ draft = rows
  /\ writer = Nobody
  /\ events = <<>>
  /\ pc = [c \in Clients |-> "idle"]
  /\ op = [c \in Clients |-> NoCall]
  /\ calls = 0
  /\ failures = 0

-----------------------------------------------------------------------------
(* Calls                                                                   *)

Goto(c, step) == pc' = [pc EXCEPT ![c] = step]

Enter(c, call, step) ==
  /\ pc[c] = "idle"
  /\ calls < MaxCalls
  /\ calls' = calls + 1
  /\ op' = [op EXCEPT ![c] = call]
  /\ Goto(c, step)
  /\ UNCHANGED <<rows, draft, writer, events, failures>>

Return(c) == Goto(c, "idle") /\ op' = [op EXCEPT ![c] = NoCall]

CallCreate(c, m) ==
  Enter(c, NewVersion(m), "begin")

CallUpdate(c, m, v, s) ==
  /\ v \in Known(m)
  /\ Enter(c, [kind |-> "update", model |-> m, version |-> v,
               status |-> s, forced |-> FALSE], "update")

\* The read and the checks that promote makes before its transaction.  A live
\* version returns at once and a refusal raises: neither changes anything.
MayPromote(status, forced) == status # "promoted" /\ (status = "passed" \/ forced)

CallPromote(c, m, v, forced) ==
  /\ v \in Known(m)
  /\ MayPromote(rows[m][v], forced)
  /\ Enter(c, [kind |-> "promote", model |-> m, version |-> v,
               status |-> "promoted", forced |-> forced], "begin")

-----------------------------------------------------------------------------
(* Steps of a call.  An operator whose comment starts with "Mutant" is no    *)
(* part of the model: it is a bug that some property must catch.             *)

\* Mutant: a transaction that does not take the write lock.
LockIgnored == TRUE

\* BEGIN IMMEDIATE and every autocommitted write wait for SQLite's write lock.
LockFree == writer = Nobody

FirstStatement(call) == IF call.kind = "create" THEN "insert" ELSE "retire"

Begin(c) ==
  /\ pc[c] = "begin"
  /\ LockFree
  /\ writer' = c
  /\ draft' = rows
  /\ Goto(c, FirstStatement(op[c]))
  /\ UNCHANGED <<rows, events, op, calls, failures>>

\* Mutant: the highest number in use instead of the one after it.
HighestNumber(table) == Max({v \in Version : table[v] # Absent} \cup {0})

\* SELECT COALESCE(MAX(version), 0) + 1, then INSERT ... 'training'.
NextNumber(table) == Max({v \in Version : table[v] # Absent} \cup {0}) + 1

Insert(c) ==
  LET m == op[c].model
      n == NextNumber(draft[m])
  IN  /\ pc[c] = "insert"
      /\ n <= MaxVersions
      /\ draft' = [draft EXCEPT ![m][n] = "training"]
      /\ op' = [op EXCEPT ![c].version = n]
      /\ Goto(c, "commit")
      /\ UNCHANGED <<rows, writer, events, calls, failures>>

\* Mutant: the WHERE clause forgets the status.
RetireAll(table) == [v \in Version |-> IF table[v] = Absent THEN Absent ELSE "retired"]

\* UPDATE versions SET status = 'retired' WHERE ... status = 'promoted'.
RetireLive(table) ==
  [v \in Version |-> IF table[v] = "promoted" THEN "retired" ELSE table[v]]

Retire(c) ==
  /\ pc[c] = "retire"
  /\ draft' = [draft EXCEPT ![op[c].model] = RetireLive(@)]
  /\ Goto(c, "set")
  /\ UNCHANGED <<rows, writer, events, op, calls, failures>>

SetLive(c) ==
  /\ pc[c] = "set"
  /\ draft' = [draft EXCEPT ![op[c].model][op[c].version] = "promoted"]
  /\ Goto(c, "commit")
  /\ UNCHANGED <<rows, writer, events, op, calls, failures>>

Commit(c) ==
  /\ pc[c] = "commit"
  /\ rows' = draft
  /\ writer' = Nobody
  /\ Goto(c, "event")
  /\ UNCHANGED <<draft, events, op, calls, failures>>

\* update is one autocommitted UPDATE: it reads nothing before it writes.
Update(c) ==
  /\ pc[c] = "update"
  /\ LockFree
  /\ rows' = [rows EXCEPT ![op[c].model][op[c].version] = op[c].status]
  /\ draft' = rows'
  /\ Goto(c, "event")
  /\ UNCHANGED <<writer, events, op, calls, failures>>

\* Mutant: the detail of the event drops the new status.
EventWithoutStatus(call) ==
  [action |-> "updated", model |-> call.model, version |-> call.version,
   status |-> "training"]

\* The event is a statement of its own, after the change has committed.
EventOf(call) ==
  [action  |-> CASE call.kind = "create" -> "created"
                 [] call.kind = "update" -> "updated"
                 [] OTHER -> "promoted",
   model   |-> call.model,
   version |-> call.version,
   status  |-> call.status]

Record(c) ==
  /\ pc[c] = "event"
  /\ LockFree
  /\ events' = Append(events, EventOf(op[c]))
  /\ Return(c)
  /\ UNCHANGED <<rows, draft, writer, calls, failures>>

-----------------------------------------------------------------------------
(* Failures                                                                *)

\* sqlite3.connect(timeout=30): a client that waits too long for the write
\* lock gets OperationalError, and its call ends where it was.
LockTimeout(c) ==
  /\ pc[c] \in {"begin", "update", "event"}
  /\ ~LockFree
  /\ failures < MaxFailures
  /\ failures' = failures + 1
  /\ Return(c)
  /\ UNCHANGED <<rows, draft, writer, events, calls>>

\* The process dies.  SQLite rolls its open transaction back.
Crash(c) ==
  /\ pc[c] # "idle"
  /\ failures < MaxFailures
  /\ failures' = failures + 1
  /\ writer' = IF writer = c THEN Nobody ELSE writer
  /\ draft' = IF writer = c THEN rows ELSE draft
  /\ Return(c)
  /\ UNCHANGED <<rows, events, calls>>

-----------------------------------------------------------------------------

Next ==
  \E c \in Clients :
    \/ \E m \in Models : CallCreate(c, m)
    \/ \E m \in Models, v \in Version, s \in WorkerStatus : CallUpdate(c, m, v, s)
    \/ \E m \in Models, v \in Version, forced \in BOOLEAN : CallPromote(c, m, v, forced)
    \/ Begin(c) \/ Insert(c) \/ Retire(c) \/ SetLive(c) \/ Commit(c)
    \/ Update(c) \/ Record(c)
    \/ LockTimeout(c) \/ Crash(c)

Spec == Init /\ [][Next]_vars

-----------------------------------------------------------------------------
(* Properties                                                              *)

TypeOK ==
  /\ rows \in [Models -> [Version -> Status \cup {Absent}]]
  /\ draft \in [Models -> [Version -> Status \cup {Absent}]]
  /\ writer \in Clients \cup {Nobody}
  /\ events \in Seq(Event)
  /\ pc \in [Clients -> Step]
  /\ op \in [Clients -> Call]
  /\ calls \in 0..MaxCalls
  /\ failures \in 0..MaxFailures

\* At most one version of a model is live in the committed table, whatever the
\* interleaving of promotions, updates and crashes: registry.live, and with it
\* the gate's incumbent and the served version, has one answer.
AtMostOneLive ==
  \A m \in Models : \A v, w \in Version :
    rows[m][v] = "promoted" /\ rows[m][w] = "promoted" => v = w

\* Other processes only ever see whole operations: each committed change of the
\* table is one Create, SetStatus or Promote of the abstract registry.
OperationsAreAtomic == Lifecycle!Spec

\* Of a version that was retired the last event says that it was promoted: promote
\* writes one event, for the version it makes live, and none for the one it retires,
\* although the module says that every change writes an event.
Telling(status) == IF status = "retired" THEN "promoted" ELSE status

\* Versions whose status no event tells and no client is about to tell.
Untold ==
  {mv \in Models \X Version :
     LET tells(e) == /\ e.model = mv[1] /\ e.version = mv[2]
                     /\ e.status = Telling(rows[mv[1]][mv[2]])
     IN  /\ mv[2] \in Known(mv[1])
         /\ \A i \in DOMAIN events : ~tells(events[i])
         /\ \A c \in Clients : pc[c] = "event" => ~tells(op[c])}

\* The events are written after the COMMIT, by the process that changed the row: a
\* process that dies or times out in between loses the event of its own change and
\* no other.  So at most as many versions as there were failures have a status that
\* the log does not tell, whatever the order in which changes and events came.
ChangesAreRecorded == Cardinality(Untold) <= failures

\* A version that was replaced comes back only by a forced promotion: the
\* lifecycle has no edge out of retired.
RetiredStaysRetired ==
  [][\A m \in Models, v \in Version :
       rows[m][v] = "retired" /\ rows'[m][v] = "promoted" =>
         \E c \in Clients : pc[c] = "commit" /\ op[c].forced]_rows
=============================================================================
