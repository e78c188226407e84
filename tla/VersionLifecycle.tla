-------------------------- MODULE VersionLifecycle --------------------------
(***************************************************************************)
(* What the model registry promises its callers: a table of versions per   *)
(* model on which every operation happens at once.  Registry.tla, with its *)
(* SQL statements, its write lock, its waiting clients and their crashes,  *)
(* implements this specification.                                          *)
(***************************************************************************)
EXTENDS Naturals

CONSTANTS Models,       \* names of the Model documents
          MaxVersions   \* bound: versions of one model

VARIABLE versions       \* versions[m][v]: status of v, or Absent

Version == 1..MaxVersions
Absent  == "absent"

\* Statuses that the worker and the gate give a version.
WorkerStatus == {"evaluating", "passed", "rejected", "failed"}
Status       == WorkerStatus \cup {"training", "promoted", "retired"}

Live(m)    == {v \in Version : versions[m][v] = "promoted"}
Known(m)   == {v \in Version : versions[m][v] # Absent}

Init == versions = [m \in Models |-> [v \in Version |-> Absent]]

\* A new version takes the number after the last one: 1, 2, 3, ...
Create(m) ==
  \E n \in Version :
    /\ Known(m) = 1..(n - 1)
    /\ versions' = [versions EXCEPT ![m][n] = "training"]

\* The worker or the gate records how far the version got.
SetStatus(m, v, s) ==
  /\ v \in Known(m)
  /\ versions' = [versions EXCEPT ![m][v] = s]

\* One version goes live and the one it replaces retires, together.
Promote(m, v) ==
  /\ v \in Known(m)
  /\ versions' = [versions EXCEPT ![m] = [w \in Version |->
                     IF w = v THEN "promoted"
                     ELSE IF versions[m][w] = "promoted" THEN "retired"
                     ELSE versions[m][w]]]

Next ==
  \E m \in Models :
    \/ Create(m)
    \/ \E v \in Version : Promote(m, v)
    \/ \E v \in Version, s \in WorkerStatus : SetStatus(m, v, s)

Spec == Init /\ [][Next]_versions

TypeOK == versions \in [Models -> [Version -> Status \cup {Absent}]]

\* At most one version of a model is live, so "the live version" that the
\* gate compares against and the engines serve is well defined.
AtMostOneLive == \A m \in Models : \A v, w \in Live(m) : v = w
=============================================================================
